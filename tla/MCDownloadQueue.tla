-------------------------- MODULE MCDownloadQueue --------------------------
(* Instances of the download queue for TLC.                                 *)
EXTENDS DownloadQueue, TLC

CONSTANTS s1, c1, c2

\* Two exec channels of one SSH connection share a session.
SharedSession == [c \in {c1, c2} |-> s1]

\* One channel per session, as every Telnet connection has.
OneChannel == [c \in {c1} |-> s1]

\* Workers are interchangeable: no action or property names one.
WorkerSymmetry == Permutations(Workers)

=============================================================================
