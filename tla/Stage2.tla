------------------------------- MODULE Stage2 -------------------------------
(***************************************************************************)
(* Stage two in inline mode: the background tasks that fetch what captured *)
(* scripts list, and the process-wide limiter they share.                  *)
(*                                                                         *)
(*   honeypot/fetcher/stage2.py     Stage2Limiter, plan_followups          *)
(*   honeypot/session/manager.py    _start_stage2, _run_stage2_inline      *)
(*                                                                         *)
(* A task gives up the loop while it fetches; between two fetches it runs  *)
(* alone.  The limiter's tables are Python dicts, which keep the order in  *)
(* which keys were first inserted: sequences of [k, v] here.               *)
(***************************************************************************)
EXTENDS ScriptScan

CONSTANTS
    Sessions,        \* session ids
    Tasks,           \* stage-two tasks, one per download that succeeded
    SessionOf,       \* the session of a task
    Pools,           \* sets of scripts that servers may hold
    HostOf,          \* the host of a URL
    Dedupe,          \* stage2_dedupe_seconds
    MaxPerSession,   \* stage2_max_per_session
    MaxPerHost,      \* stage2_max_per_host
    MaxDepth,        \* stage2_max_depth
    MaxTracked,      \* _MAX_TRACKED
    MaxTime          \* bound on the clock

ASSUME TaskAssumption == SessionOf \in [Tasks -> Sessions]
ASSUME ScriptAssumption == (UNION Pools) \subseteq Seq(Segment) /\ Http \subseteq DOMAIN HostOf
ASSUME LimitAssumption ==
    {Dedupe, MaxPerSession, MaxPerHost, MaxDepth, MaxTracked, MaxTime} \subseteq Nat

VARIABLES
    pool,     \* what the servers hold
    now,      \* time.monotonic()
    limiter,  \* _seen_urls, _per_session, _per_host
    task,     \* the tasks: "idle", "running" or "done", the results still to plan
              \* from, the follow-ups of the current plan and their depth
    script,   \* the script that the last step scanned, if it did
    admitted, \* every URL that was admitted, for whom and when
    forgotten \* keys that were evicted while they still counted

vars == <<pool, now, limiter, task, script, admitted, forgotten>>

\* What a fetch that failed, or brought a binary or a long file, leaves to scan.
NoScript == << >>

Init ==
    /\ pool \in Pools
    /\ now = 0
    /\ limiter = [seen |-> << >>, session |-> << >>, host |-> << >>]
    /\ task = [t \in Tasks |-> [state |-> "idle", pending |-> << >>, children |-> << >>, depth |-> 0]]
    /\ script = NoScript
    /\ admitted = {}
    /\ forgotten = {}

-----------------------------------------------------------------------------
(* Stage2Limiter.                                                           *)

\* dict.get and dict[k] = v.
Keys(d) == {d[i].k : i \in DOMAIN d}
Get(d, k, default) ==
    IF k \in Keys(d) THEN d[CHOOSE i \in DOMAIN d : d[i].k = k].v ELSE default
Put(d, k, v) ==
    IF k \in Keys(d) THEN [i \in DOMAIN d |-> IF d[i].k = k THEN [d[i] EXCEPT !.v = v] ELSE d[i]]
    ELSE Append(d, [k |-> k, v |-> v])

Recent(t) == now - t < Dedupe

\* A comprehension with a condition: the elements at the places in I.
Keep(s, I) == FoldLeftDomain(LAMBDA r, i : IF i \in I THEN Append(r, s[i]) ELSE r, << >>, s)

RecentTimes(times) == Keep(times, {i \in DOMAIN times : Recent(times[i])})
RecentUrls(d) == Keep(d, {i \in DOMAIN d : Recent(d[i].v)})

\* The first inserted keys are popped until the table is small enough.
Newest(d) == SubSeq(d, IF Len(d) > MaxTracked THEN Len(d) - MaxTracked + 1 ELSE 1, Len(d))

\* Mutant: only the expired URLs are pruned.
PruneExpired(l) == [l EXCEPT !.seen = RecentUrls(@)]

Prune(l) ==
    [seen |-> IF Len(l.seen) > MaxTracked THEN Newest(RecentUrls(l.seen)) ELSE l.seen,
     session |-> Newest(l.session),
     host |-> Newest(l.host)]

\* What a URL, after the ones before it, does to the tables and the list.
\* Mutant: a URL over its host's cap still enters the list.
AdmitHostAnyway(s, url) ==
    IF Recent(Get(s.seen, url, 0)) /\ url \in Keys(s.seen) THEN s
    ELSE [s EXCEPT !.list = Append(@, url), !.seen = Put(@, url, now)]

AdmitUrl(s, url) ==
    LET host == HostOf[url]
        recent == RecentTimes(Get(s.host, host, << >>))
    IN  IF s.used + Len(s.list) >= MaxPerSession THEN s
        ELSE IF url \in Keys(s.seen) /\ Recent(Get(s.seen, url, 0)) THEN s
        ELSE IF Len(recent) >= MaxPerHost THEN [s EXCEPT !.host = Put(@, host, recent)]
        ELSE [s EXCEPT !.host = Put(@, host, Append(recent, now)),
                       !.list = Append(@, url),
                       !.seen = Put(@, url, now)]

Admit(session, urls) ==
    LET l == Prune(limiter)
        used == Get(l.session, session, 0)
    IN  FoldLeft(AdmitUrl, [seen |-> l.seen, host |-> l.host, used |-> used, list |-> << >>], urls)

\* The keys that pruning drops though their count or time still matters.
Evicted ==
    LET kept == Prune(limiter)
    IN  (Keys(limiter.session) \ Keys(kept.session))
        \cup {h \in Keys(limiter.host) \ Keys(kept.host) :
                RecentTimes(Get(limiter.host, h, << >>)) # << >>}
        \cup {u \in Keys(limiter.seen) \ Keys(kept.seen) : Recent(Get(limiter.seen, u, 0))}

-----------------------------------------------------------------------------
(* Tasks.                                                                   *)

\* A download of the session has succeeded.
StartStage2(t, segs) ==
    /\ task[t].state = "idle"
    /\ task' = [task EXCEPT ![t].state = "running",
                            ![t].pending = <<[depth |-> 0, segs |-> segs]>>]
    /\ script' = NoScript
    /\ UNCHANGED <<now, limiter, admitted, forgotten>>

\* plan_followups reads the file and scans it, if there is a script to scan; an
\* exception of the scan leaves an empty plan and the limiter as it was.
Plans(r) == r.segs # NoScript /\ r.depth < MaxDepth /\ ~Scan(r.segs).raised

Plan(t) ==
    /\ task[t].state = "running"
    /\ task[t].children = << >>
    /\ task[t].pending # << >>
    /\ LET r == Head(task[t].pending)
           s == SessionOf[t]
           a == Admit(s, Scan(r.segs).urls)
       IN  IF Plans(r)
           THEN /\ task' = [task EXCEPT ![t].pending = Tail(@), ![t].children = a.list,
                                        ![t].depth = r.depth + 1]
                /\ limiter' = [seen |-> a.seen, host |-> a.host,
                               session |-> Put(Prune(limiter).session, s, a.used + Len(a.list))]
                /\ admitted' = admitted \cup {[session |-> s, url |-> u, at |-> now] : u \in Range(a.list)}
                /\ forgotten' = forgotten \cup Evicted
                /\ script' = r.segs
                /\ UNCHANGED now
           ELSE /\ task' = [task EXCEPT ![t].pending = Tail(@)]
                /\ script' = NoScript
                /\ UNCHANGED <<now, limiter, admitted, forgotten>>

\* A follow-up is fetched.  What it is matters only if a plan can follow.
Payloads(t) == IF task[t].depth < MaxDepth THEN pool \cup {NoScript} ELSE {NoScript}

FetchChild(t, segs) ==
    /\ task[t].state = "running"
    /\ task[t].children # << >>
    /\ task' = [task EXCEPT ![t].children = Tail(@),
                            ![t].pending = Append(@, [depth |-> task[t].depth, segs |-> segs])]
    /\ script' = NoScript
    /\ UNCHANGED <<now, limiter, admitted, forgotten>>

TaskDone(t) ==
    /\ task[t].state = "running"
    /\ task[t].children = << >> /\ task[t].pending = << >>
    /\ task' = [task EXCEPT ![t].state = "done"]
    /\ script' = NoScript
    /\ UNCHANGED <<now, limiter, admitted, forgotten>>

Tick ==
    /\ now < MaxTime
    /\ now' = now + 1
    /\ script' = NoScript
    /\ UNCHANGED <<limiter, task, admitted, forgotten>>

Next ==
    /\ \/ \E t \in Tasks : \/ \E segs \in pool : StartStage2(t, segs)
                           \/ Plan(t)
                           \/ \E segs \in Payloads(t) : FetchChild(t, segs)
                           \/ TaskDone(t)
       \/ Tick
    /\ UNCHANGED pool

Spec == Init /\ [][Next]_vars

-----------------------------------------------------------------------------
(* Properties.                                                              *)

\* stage2.py, Stage2Limiter: whatever the interleaving of tasks, a session's
\* count, a URL's cooldown and a host's cap over the cooldown's window hold,
\* except for a key that eviction made the limiter forget.
BudgetsKept ==
    /\ \A s \in Sessions \ forgotten :
          Cardinality({a \in admitted : a.session = s}) <= MaxPerSession
    /\ \A a, b \in admitted :
          a.url = b.url /\ a # b /\ a.url \notin forgotten =>
             a.at >= b.at + Dedupe \/ b.at >= a.at + Dedupe
    /\ \A a \in admitted :
          HostOf[a.url] \notin forgotten =>
             Cardinality({b \in admitted : /\ HostOf[b.url] = HostOf[a.url]
                                           /\ b.at <= a.at /\ a.at < b.at + Dedupe}) <= MaxPerHost

\* stage2.py, _prune: the tables stay near _MAX_TRACKED, however many sessions,
\* URLs and hosts come by: a plan adds what one script may list.
TablesBounded ==
    /\ Len(limiter.session) <= MaxTracked + 1
    /\ Len(limiter.seen) <= MaxTracked + MaxUrls
    /\ Len(limiter.host) <= MaxTracked + MaxUrls

\* script_scan.py: of a script that a shell accepts, with one level of loops and
\* variables that the scan can follow, the scan reports only what some run of the
\* script downloads, whichever of its commands fail, wherever its names get new
\* values ("never guessed"); and if it reports nothing as skipped, met no bound
\* and knew what the loops run through, all that any run does.
ScanExact ==
    LET r == Scan(script)
        runs == RunScript(script)
        fetched == UNION {q.got : q \in runs}
        bounded == /\ \A q \in runs : q.turns <= MaxLoopValues
                   /\ \A i \in DOMAIN script : script[i].kind = "for" =>
                         Len(LoopBody(script, i)) < MaxLoopBody
    IN  IsFlat(script) /\ IsTraceable(script) /\ ~r.raised =>
          /\ Range(r.urls) \subseteq fetched
          /\ r.skipped = 0 /\ ~IsFull(r) /\ IsResolved(script) /\ bounded => fetched \subseteq Range(r.urls)

=============================================================================
