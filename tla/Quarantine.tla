----------------------------- MODULE Quarantine -----------------------------
(***************************************************************************)
(* fetch_and_quarantine (honeypot/fetcher/fetcher.py): stream a payload to *)
(* a temporary file, name it after its hash, make it and its sidecar       *)
(* read-only.  A payload stands for its bytes, and so for its sha256: two  *)
(* tasks with the same payload meet on the same final path.                *)
(*                                                                         *)
(* A task is one call.  Tasks of one process share an asyncio loop: after  *)
(* the body has arrived there is no await until the call returns, so the   *)
(* file operations of one call are not interleaved with another task of    *)
(* the same process (Busy), only with other processes and with a crash.    *)
(***************************************************************************)
EXTENDS Naturals

CONSTANTS
    Tasks,       \* calls of fetch_and_quarantine, one per job
    Procs,       \* operating system processes
    ProcOf,      \* the process a call runs in
    Payloads,    \* file contents, up to equality of sha256
    SizeOf,      \* how many bytes a payload has
    MaxSize,     \* fetcher.max_file_size_bytes
    MaxCrashes   \* bound: process crashes

ASSUME ProcAssumption == ProcOf \in [Tasks -> Procs]
ASSUME SizeAssumption == /\ SizeOf \in [Payloads -> Nat]
                         /\ MaxSize \in Nat
ASSUME CrashAssumption == MaxCrashes \in Nat

VARIABLES
    pc,       \* where a call is
    content,  \* the payload the server sends to a call
    tmp,      \* the calls whose .tmp-<job id> file exists
    size,     \* the bytes a call has written to it
    bin,      \* <sha256>.bin: absent, writable or read-only
    side,     \* <sha256>.json: absent, writable or read-only
    crashes

vars == <<pc, content, tmp, size, bin, side, crashes>>

Mode == {"absent", "writable", "readonly"}
Ended == {"success", "failed", "raised", "cancelled", "killed"}
Storing == {"unlink", "replace", "chmod", "sidecar", "seal"}

Init ==
    /\ pc = [t \in Tasks |-> "idle"]
    /\ content \in [Tasks -> Payloads]
    /\ tmp = {}
    /\ size = [t \in Tasks |-> 0]
    /\ bin = [p \in Payloads |-> "absent"]
    /\ side = [p \in Payloads |-> "absent"]
    /\ crashes = 0

\* Another call of t's process is in the part of the code without an await.
Busy(t) == \E u \in Tasks \ {t} : ProcOf[u] = ProcOf[t] /\ pc[u] \in Storing

Goto(t, label) == pc' = [pc EXCEPT ![t] = label]

-----------------------------------------------------------------------------
(* Streaming.                                                               *)

\* The protocol is not allowed or not implemented, the connection fails, the
\* destination is blocked, or the status is 400 or more: no file is made.
Refuse(t) ==
    /\ ~Busy(t)
    /\ pc[t] = "idle"
    /\ Goto(t, "failed")
    /\ UNCHANGED <<content, tmp, size, bin, side, crashes>>

Open(t) ==
    /\ ~Busy(t)
    /\ pc[t] = "idle"
    /\ tmp' = tmp \cup {t}
    /\ Goto(t, "stream")
    /\ UNCHANGED <<content, size, bin, side, crashes>>

\* Mutant: the cap is tested before the chunk is added.
FitsBefore(t, n) == size[t] <= MaxSize

\* size += len(chunk); if size > max_file_size_bytes: raise
Fits(t, n) == size[t] + n <= MaxSize

\* A chunk of n bytes arrives and is written.
Chunk(t, n) ==
    /\ ~Busy(t)
    /\ pc[t] = "stream"
    /\ size[t] + n <= SizeOf[content[t]]
    /\ Fits(t, n)
    /\ size' = [size EXCEPT ![t] = @ + n]
    /\ UNCHANGED <<pc, content, tmp, bin, side, crashes>>

\* A chunk goes over the cap: nothing is written, the handler cleans up.
TooLarge(t, n) ==
    /\ ~Busy(t)
    /\ pc[t] = "stream"
    /\ size[t] + n <= SizeOf[content[t]]
    /\ ~Fits(t, n)
    /\ tmp' = tmp \ {t}
    /\ Goto(t, "failed")
    /\ UNCHANGED <<content, size, bin, side, crashes>>

\* The transfer breaks off or runs into the total timeout.
TransferFails(t) ==
    /\ ~Busy(t)
    /\ pc[t] = "stream"
    /\ tmp' = tmp \ {t}
    /\ Goto(t, "failed")
    /\ UNCHANGED <<content, size, bin, side, crashes>>

\* The session that awaits an in-process fetch is cut off at
\* max_session_seconds.  CancelledError is no Exception: the handler that
\* removes the temporary file does not run.
Cancel(t) ==
    /\ ~Busy(t)
    /\ pc[t] = "stream"
    /\ Goto(t, "cancelled")
    /\ UNCHANGED <<content, tmp, size, bin, side, crashes>>

-----------------------------------------------------------------------------
(* Storing.                                                                 *)

\* Mutant: every capture is treated as new.
NeverPresent(p) == FALSE

\* already_quarantined = final_path.exists()
Present(p) == bin[p] # "absent"

\* The body is complete; its hash decides the final path.
Arrived(t) ==
    /\ ~Busy(t)
    /\ pc[t] = "stream"
    /\ size[t] = SizeOf[content[t]]
    /\ Goto(t, IF Present(content[t]) THEN "unlink" ELSE "replace")
    /\ UNCHANGED <<content, tmp, size, bin, side, crashes>>

\* Mutant: a duplicate's temporary file is left behind.
UnlinkForgotten(t) ==
    /\ pc[t] = "unlink"
    /\ Goto(t, "success")
    /\ UNCHANGED <<content, tmp, size, bin, side, crashes>>

\* Already on file: drop the copy, report success, write no sidecar.
Unlink(t) ==
    /\ pc[t] = "unlink"
    /\ tmp' = tmp \ {t}
    /\ Goto(t, "success")
    /\ UNCHANGED <<content, size, bin, side, crashes>>

\* os.replace succeeds whatever the mode of a file that is in its way.
Replace(t) ==
    /\ pc[t] = "replace"
    /\ tmp' = tmp \ {t}
    /\ bin' = [bin EXCEPT ![content[t]] = "writable"]
    /\ Goto(t, "chmod")
    /\ UNCHANGED <<content, size, side, crashes>>

\* Mutant: the file is not made read-only.
ChmodForgotten(t) ==
    /\ pc[t] = "chmod"
    /\ Goto(t, "sidecar")
    /\ UNCHANGED <<content, tmp, size, bin, side, crashes>>

Chmod(t) ==
    /\ pc[t] = "chmod"
    /\ bin' = [bin EXCEPT ![content[t]] = "readonly"]
    /\ Goto(t, "sidecar")
    /\ UNCHANGED <<content, tmp, size, side, crashes>>

WriteSidecar(t) ==
    /\ pc[t] = "sidecar"
    /\ side[content[t]] # "readonly"
    /\ side' = [side EXCEPT ![content[t]] = "writable"]
    /\ Goto(t, "seal")
    /\ UNCHANGED <<content, tmp, size, bin, crashes>>

\* Opening a read-only file for writing raises PermissionError, which no
\* caller catches.
SidecarDenied(t) ==
    /\ pc[t] = "sidecar"
    /\ side[content[t]] = "readonly"
    /\ Goto(t, "raised")
    /\ UNCHANGED <<content, tmp, size, bin, side, crashes>>

SealSidecar(t) ==
    /\ pc[t] = "seal"
    /\ side' = [side EXCEPT ![content[t]] = "readonly"]
    /\ Goto(t, "success")
    /\ UNCHANGED <<content, tmp, size, bin, crashes>>

\* A process dies with its calls; files stay as they are.
Crash(p) ==
    /\ crashes < MaxCrashes
    /\ crashes' = crashes + 1
    /\ pc' = [t \in Tasks |-> IF ProcOf[t] = p /\ pc[t] \notin Ended \cup {"idle"}
                              THEN "killed" ELSE pc[t]]
    /\ UNCHANGED <<content, tmp, size, bin, side>>

TaskStep(t) ==
    \/ Refuse(t)
    \/ Open(t)
    \/ \E n \in 1 .. SizeOf[content[t]] : Chunk(t, n) \/ TooLarge(t, n)
    \/ TransferFails(t)
    \/ Cancel(t)
    \/ Arrived(t)
    \/ Unlink(t)
    \/ Replace(t)
    \/ Chmod(t)
    \/ WriteSidecar(t)
    \/ SidecarDenied(t)
    \/ SealSidecar(t)

Next ==
    \/ \E t \in Tasks : TaskStep(t)
    \/ \E p \in Procs : Crash(p)

Spec == Init /\ [][Next]_vars

-----------------------------------------------------------------------------
(* Properties.                                                              *)

\* The type invariant; a stored file has no mode but those of Mode, so none is
\* ever executable (SAFETY.md, guarantee 3).
TypeOK ==
    /\ pc \in [Tasks -> {"idle", "stream"} \cup Storing \cup Ended]
    /\ content \in [Tasks -> Payloads]
    /\ tmp \subseteq Tasks
    /\ size \in [Tasks -> Nat]
    /\ bin \in [Payloads -> Mode]
    /\ side \in [Payloads -> Mode]
    /\ crashes \in 0 .. MaxCrashes

\* The streaming loop: however a payload is cut into chunks, no file in the
\* quarantine directory, temporary or final, is larger than the cap.
NothingOversized ==
    /\ \A t \in tmp : size[t] <= MaxSize
    /\ \A p \in Payloads : bin[p] # "absent" => SizeOf[p] <= MaxSize

\* A call that returns, with a capture or a failure, leaves no temporary file.
\* (A cancelled or killed call does.)
NoTmpLeft == \A t \in tmp : pc[t] \notin {"success", "failed"}

\* A call of another process has stored, or is storing, the payload of t.
RivalOf(t, u) == ProcOf[u] # ProcOf[t] /\ content[u] = content[t]

\* The comment at fetcher.py:137: a payload already on file is not written to
\* again, so no fetch ends in PermissionError, unless another process stored
\* the same payload between the test of the path and the rename.
RaisesOnlyInRace ==
    \A t \in Tasks : pc[t] = "raised" =>
       \E u \in Tasks : RivalOf(t, u) /\ pc[u] = "success"

\* The same comment without the exception for another process.
NeverRaises == \A t \in Tasks : pc[t] # "raised"

\* SAFETY.md, guarantee 3: a reported capture is on file, read-only, with a
\* read-only sidecar.
SuccessMeansSealed ==
    \A t \in Tasks : pc[t] = "success" =>
        bin[content[t]] = "readonly" /\ side[content[t]] = "readonly"

\* Guarantee 3 as far as the code keeps it, until a process has crashed: a
\* capture reported as a success is sealed unless another process is between
\* the steps of storing it, and once nobody is storing every capture is sealed,
\* also after a race that one of two processes lost with PermissionError.
SealedUnlessCrashed ==
    LET Sealed(p) == bin[p] = "readonly" /\ side[p] = "readonly"
    IN  crashes = 0 =>
          /\ \A t \in Tasks : pc[t] = "success" =>
                \/ Sealed(content[t])
                \/ \E u \in Tasks : RivalOf(t, u) /\ pc[u] \in Storing
          /\ (\A t \in Tasks : pc[t] \notin Storing) =>
                \A p \in Payloads : Present(p) => Sealed(p)

\* "Quarantine, don't touch": a read-only capture is never written to or
\* replaced, and its sidecar stays read-only; only a process that tested for
\* the path before another one sealed it can still rename over it.
SealsAreFinal ==
    [][\A p \in Payloads :
          /\ side[p] = "readonly" => side'[p] = "readonly"
          /\ bin[p] = "readonly" /\ bin'[p] # "readonly" =>
                \E t, u \in Tasks : /\ content[t] = p /\ pc[t] = "replace"
                                    /\ RivalOf(t, u) /\ pc[u] \notin {"idle", "stream"}]_vars

=============================================================================
