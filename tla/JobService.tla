----------------------------- MODULE JobService -----------------------------
(***************************************************************************)
(* What the download queue promises, without files, processes or polling.  *)
(* A job is submitted at most once, taken at most once, answered at most   *)
(* once and reported at most once.  A follow-up exists only because a      *)
(* successful answer listed it, and is reported only to someone who was    *)
(* told of that success.  A report may give up on the service at any time; *)
(* a report of success or failure is always the service's own answer.      *)
(***************************************************************************)
EXTENDS Naturals, Sequences

CONSTANTS Jobs,    \* job identifiers
          None     \* the parent of a job nobody listed

VARIABLES state,   \* how far the service is with a job
          from,    \* the job whose answer listed this one
          answer,  \* the service's answer: a status and the follow-ups listed
          told     \* what has been reported about a job, in order

vars == <<state, from, answer, told>>

NoAnswer == [status |-> "none", jobs |-> {}]

Init ==
    /\ state = [j \in Jobs |-> "idle"]
    /\ from = [j \in Jobs |-> None]
    /\ answer = [j \in Jobs |-> NoAnswer]
    /\ told = [j \in Jobs |-> << >>]

Lists(p, j) == answer[p].status = "ok" /\ j \in answer[p].jobs

Submit(j, p) ==
    /\ state[j] = "idle"
    /\ IF p = None THEN \A q \in Jobs : ~Lists(q, j) ELSE Lists(p, j)
    /\ state' = [state EXCEPT ![j] = "submitted"]
    /\ from' = [from EXCEPT ![j] = p]
    /\ UNCHANGED <<answer, told>>

Take(j) ==
    /\ state[j] = "submitted"
    /\ state' = [state EXCEPT ![j] = "taken"]
    /\ UNCHANGED <<from, answer, told>>

\* The follow-ups listed are new: not submitted, and in no other answer.
Answer(j, status, listed) ==
    /\ state[j] = "taken"
    /\ status = "failed" => listed = {}
    /\ \A k \in listed : state[k] = "idle" /\ \A q \in Jobs : ~Lists(q, k)
    /\ state' = [state EXCEPT ![j] = "answered"]
    /\ answer' = [answer EXCEPT ![j] = [status |-> status, jobs |-> listed]]
    /\ UNCHANGED <<from, told>>

\* Someone is waiting for j: its submitter, or whoever was told of the success
\* that listed it.
Awaited(j) ==
    \/ state[j] # "idle" /\ from[j] = None
    \/ \E p \in Jobs : Lists(p, j) /\ told[p] = <<"success">>

Report(j) ==
    /\ state[j] = "answered"
    /\ told[j] = << >>
    /\ Awaited(j)
    /\ told' = [told EXCEPT ![j] =
                  <<IF answer[j].status = "ok" THEN "success" ELSE "failed">>]
    /\ UNCHANGED <<state, from, answer>>

GiveUp(S) ==
    /\ \A j \in S : told[j] = << >> /\ Awaited(j)
    /\ told' = [j \in Jobs |-> IF j \in S THEN <<"timeout">> ELSE told[j]]
    /\ UNCHANGED <<state, from, answer>>

Next ==
    \/ \E j \in Jobs, p \in Jobs \cup {None} : Submit(j, p)
    \/ \E j \in Jobs : Take(j)
    \/ \E j \in Jobs, status \in {"ok", "failed"}, listed \in SUBSET Jobs :
          Answer(j, status, listed)
    \/ \E j \in Jobs : Report(j)
    \/ \E S \in (SUBSET Jobs) \ {{}} : GiveUp(S)

Spec == Init /\ [][Next]_vars

=============================================================================
