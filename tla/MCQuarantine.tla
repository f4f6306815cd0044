---------------------------- MODULE MCQuarantine ----------------------------
(* Instances of the quarantine for TLC.                                     *)
EXTENDS Quarantine, TLC

CONSTANTS t1, t2, t3, w1, w2, small, large

\* Three downloads of one process, as in "inline" mode.
OneProcess == [t \in {t1, t2, t3} |-> w1]

\* Two fetcher workers, one download each.
TwoWorkers == (t1 :> w1) @@ (t2 :> w2)

\* A worker that fetches alongside an in-process honeypot with two downloads.
WorkerAndHoneypot == (t1 :> w1) @@ (t2 :> w2) @@ (t3 :> w2)

\* One payload exactly at the cap, one just over it.
Sizes == (small :> 2) @@ (large :> 3)

=============================================================================
