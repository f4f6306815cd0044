-------------------------- MODULE QuarantineProofs --------------------------
(***************************************************************************)
(* Proofs about the quarantine, for any number of processes, calls and     *)
(* payloads, any sizes and any cap.                                        *)
(***************************************************************************)
EXTENDS Quarantine, TLAPS

\* What a call has written fits under the cap; what it renames to its final
\* path is the whole payload; a temporary file belongs to a call that has not
\* returned.
Inv ==
    /\ \A t \in Tasks : size[t] <= MaxSize
    /\ \A t \in Tasks : pc[t] \in {"replace", "chmod"} => size[t] = SizeOf[content[t]]
    /\ \A p \in Payloads : bin[p] # "absent" => SizeOf[p] <= MaxSize
    /\ \A t \in tmp : pc[t] \in {"stream", "unlink", "replace", "cancelled", "killed"}

IInv == TypeOK /\ Inv

\* The empty quarantine satisfies the invariant.
LEMMA InitInv == Init => IInv
  <1> SUFFICES ASSUME Init PROVE IInv
    OBVIOUS
  <1>1. TypeOK
    BY CrashAssumption DEF Init, TypeOK, Mode
  <1>2. Inv
    BY SizeAssumption DEF Init, Inv
  <1> QED
    BY <1>1, <1>2 DEF IInv

\* Every step of a call keeps the invariant.
LEMMA TaskInv ==
    ASSUME IInv, NEW t \in Tasks, TaskStep(t)
    PROVE  IInv'
  <1> USE DEF IInv, TypeOK, Inv, Goto, Storing, Ended, Mode
  <1>0. content[t] \in Payloads /\ SizeOf[content[t]] \in Nat
    BY SizeAssumption
  <1>1. CASE Refuse(t)
    BY <1>1 DEF Refuse
  <1>2. CASE Open(t)
    BY <1>2 DEF Open
  <1>3. ASSUME NEW n \in 1 .. SizeOf[content[t]], Chunk(t, n) PROVE IInv'
    <2>1. n \in Nat /\ size[t] + n <= MaxSize
      BY <1>0, <1>3 DEF Chunk, Fits
    <2> QED
      BY <1>3, <2>1, SizeAssumption DEF Chunk
  <1>4. ASSUME NEW n \in 1 .. SizeOf[content[t]], TooLarge(t, n) PROVE IInv'
    BY <1>4 DEF TooLarge
  <1>5. CASE TransferFails(t)
    BY <1>5 DEF TransferFails
  <1>6. CASE Cancel(t)
    BY <1>6 DEF Cancel
  <1>7. CASE Arrived(t)
    BY <1>7 DEF Arrived
  <1>8. CASE Unlink(t)
    BY <1>8 DEF Unlink
  <1>9. CASE Replace(t)
    <2>1. SizeOf[content[t]] <= MaxSize
      BY <1>9 DEF Replace
    <2> QED
      BY <1>0, <1>9, <2>1 DEF Replace
  <1>10. CASE Chmod(t)
    <2>1. t \notin tmp /\ SizeOf[content[t]] <= MaxSize
      BY <1>10 DEF Chmod
    <2> QED
      BY <1>0, <1>10, <2>1 DEF Chmod
  <1>11. CASE WriteSidecar(t)
    BY <1>0, <1>11 DEF WriteSidecar
  <1>12. CASE SidecarDenied(t)
    BY <1>12 DEF SidecarDenied
  <1>13. CASE SealSidecar(t)
    BY <1>0, <1>13 DEF SealSidecar
  <1> QED
    BY <1>1, <1>2, <1>3, <1>4, <1>5, <1>6, <1>7, <1>8, <1>9, <1>10, <1>11, <1>12, <1>13
       DEF TaskStep

\* A process that dies leaves its files as they were, and the invariant holds.
LEMMA CrashInv ==
    ASSUME IInv, NEW p \in Procs, Crash(p)
    PROVE  IInv'
  BY CrashAssumption DEF IInv, TypeOK, Inv, Crash, Ended, Storing

\* The invariant holds in every reachable state.
THEOREM Inductive == Spec => []IInv
  <1>1. IInv /\ UNCHANGED vars => IInv'
    BY DEF IInv, TypeOK, Inv, vars
  <1>2. IInv /\ [Next]_vars => IInv'
    BY <1>1, TaskInv, CrashInv DEF Next
  <1> QED
    BY <1>2, InitInv, PTL DEF Spec

\* However payloads are cut into chunks and however calls, crashes and
\* cancellations interleave, no file of the quarantine exceeds the cap.
THEOREM CapHolds == Spec => []NothingOversized
  <1>1. IInv => NothingOversized
    BY DEF IInv, Inv, TypeOK, NothingOversized
  <1> QED
    BY <1>1, Inductive, PTL

\* A call that returns has removed its temporary file.
THEOREM Tidy == Spec => []NoTmpLeft
  <1>1. IInv => NoTmpLeft
    BY DEF IInv, Inv, NoTmpLeft
  <1> QED
    BY <1>1, Inductive, PTL

-----------------------------------------------------------------------------
(* Sealing.  What the modes of a capture say about the calls that made it.  *)

\* A call past the test of the final path that found it free.
Writing == {"replace", "chmod", "sidecar", "seal"}

\* The calls of one process take turns: there is no await while storing.
TakeTurns ==
    \A t, u \in Tasks :
       ProcOf[t] = ProcOf[u] /\ pc[t] \in Storing /\ pc[u] \in Storing => t = u

\* A capture comes before its sidecar, and before anyone reports or drops it.
BinFirst ==
    /\ \A p \in Payloads : side[p] # "absent" => Present(p)
    /\ \A t \in Tasks : pc[t] \in {"unlink", "chmod", "sidecar", "seal", "success"} =>
          Present(content[t])

\* A path that was free and is not any more has been taken by a rival, and a
\* rival alone can have sealed the sidecar or reported the capture since.
TakenByRival ==
    \A t \in Tasks :
       /\ pc[t] = "replace" /\ Present(content[t]) =>
             \E u \in Tasks : RivalOf(t, u) /\ pc[u] \notin {"idle", "stream"}
       /\ pc[t] \in Writing /\ side[content[t]] = "readonly" =>
             \E u \in Tasks : RivalOf(t, u) /\ pc[u] = "success"
       /\ pc[t] = "raised" => \E u \in Tasks : RivalOf(t, u) /\ pc[u] = "success"
       /\ \A u \in Tasks : pc[t] \in Writing /\ pc[u] = "success"
                              /\ content[u] = content[t] => RivalOf(t, u)

\* Before the first crash, a capture that is not sealed has a call that will
\* seal it.
WillBeSealed ==
    crashes = 0 =>
       \A p \in Payloads :
          /\ bin[p] = "writable" => \E u \in Tasks : content[u] = p /\ pc[u] = "chmod"
          /\ Present(p) /\ side[p] # "readonly" =>
                \E u \in Tasks : content[u] = p /\ pc[u] \in {"chmod", "sidecar", "seal"}

StoreInv == TakeTurns /\ BinFirst /\ TakenByRival /\ WillBeSealed

SealInv == TypeOK /\ StoreInv

\* While a payload streams in, nothing that the invariant speaks of changes.
LEMMA SealStreaming ==
    ASSUME TypeOK, StoreInv, NEW t \in Tasks, UNCHANGED <<content, bin, side, crashes>>,
           pc[t] \in {"idle", "stream"},
           \/ UNCHANGED pc
           \/ \E l \in {"stream", "failed", "cancelled"} : Goto(t, l)
    PROVE  StoreInv'
  <1> USE DEF StoreInv, TypeOK, Goto
  <1>1. TakeTurns'
    BY DEF TakeTurns, Storing
  <1>2. BinFirst'
    BY DEF BinFirst, Present
  <1>3. TakenByRival'
    BY DEF TakenByRival, Present, RivalOf, Writing
  <1>4. WillBeSealed'
    BY DEF WillBeSealed, Present
  <1> QED
    BY <1>1, <1>2, <1>3, <1>4

\* Every step of a call keeps the invariant.
LEMMA SealTask ==
    ASSUME TypeOK, StoreInv, NEW t \in Tasks, TaskStep(t)
    PROVE  StoreInv'
  <1> USE DEF Goto
  <1>0. content[t] \in Payloads
    BY DEF TypeOK
  <1>1. CASE Refuse(t)
    BY <1>1, SealStreaming DEF Refuse
  <1>2. CASE Open(t)
    BY <1>2, SealStreaming DEF Open
  <1>3. ASSUME NEW n \in 1 .. SizeOf[content[t]], Chunk(t, n) PROVE StoreInv'
    BY <1>3, SealStreaming DEF Chunk
  <1>4. ASSUME NEW n \in 1 .. SizeOf[content[t]], TooLarge(t, n) PROVE StoreInv'
    BY <1>4, SealStreaming DEF TooLarge
  <1>5. CASE TransferFails(t)
    BY <1>5, SealStreaming DEF TransferFails
  <1>6. CASE Cancel(t)
    BY <1>6, SealStreaming DEF Cancel
  <1>7. CASE Arrived(t)
    <2> USE DEF StoreInv, TypeOK, Arrived
    <2>1. \A u \in Tasks \ {t} : ProcOf[u] = ProcOf[t] => pc[u] \notin Storing
      BY <1>7 DEF Busy
    <2>2. TakeTurns'
      BY <1>7, <2>1 DEF TakeTurns, Storing
    <2>3. BinFirst'
      BY <1>7 DEF BinFirst, Present
    <2>4. TakenByRival'
      BY <1>7 DEF TakenByRival, BinFirst, Present, RivalOf, Writing
    <2>5. WillBeSealed'
      BY <1>7 DEF WillBeSealed, Present
    <2> QED
      BY <2>2, <2>3, <2>4, <2>5
  <1>8. CASE Unlink(t)
    <2> USE DEF StoreInv, TypeOK, Unlink
    <2>2. TakeTurns'
      BY <1>8 DEF TakeTurns, Storing
    <2>3. BinFirst'
      BY <1>8 DEF BinFirst, Present
    <2>4. TakenByRival'
      BY <1>8 DEF TakenByRival, TakeTurns, Present, RivalOf, Writing, Storing
    <2>5. WillBeSealed'
      BY <1>8 DEF WillBeSealed, Present
    <2> QED
      BY <2>2, <2>3, <2>4, <2>5
  <1>9. CASE Replace(t)
    <2> USE DEF StoreInv, TypeOK, Replace, Mode
    <2>2. TakeTurns'
      BY <1>9 DEF TakeTurns, Storing
    <2>3. BinFirst'
      BY <1>0, <1>9 DEF BinFirst, Present
    <2>4. TakenByRival'
      BY <1>0, <1>9 DEF TakenByRival, TakeTurns, Present, RivalOf, Writing, Storing
    <2>5. WillBeSealed'
      BY <1>0, <1>9 DEF WillBeSealed, Present
    <2> QED
      BY <2>2, <2>3, <2>4, <2>5
  <1>10. CASE Chmod(t)
    <2> USE DEF StoreInv, TypeOK, Chmod, Mode
    <2>2. TakeTurns'
      BY <1>10 DEF TakeTurns, Storing
    <2>3. BinFirst'
      BY <1>0, <1>10 DEF BinFirst, Present
    <2>4. TakenByRival'
      BY <1>0, <1>10 DEF TakenByRival, BinFirst, Present, RivalOf, Writing
    <2>5. WillBeSealed'
      BY <1>0, <1>10 DEF WillBeSealed, BinFirst, Present
    <2> QED
      BY <2>2, <2>3, <2>4, <2>5
  <1>11. CASE WriteSidecar(t)
    <2> USE DEF StoreInv, TypeOK, WriteSidecar, Mode
    <2>2. TakeTurns'
      BY <1>11 DEF TakeTurns, Storing
    <2>3. BinFirst'
      BY <1>0, <1>11 DEF BinFirst, Present
    <2>4. TakenByRival'
      BY <1>0, <1>11 DEF TakenByRival, Present, RivalOf, Writing
    <2>5. WillBeSealed'
      BY <1>0, <1>11 DEF WillBeSealed, Present
    <2> QED
      BY <2>2, <2>3, <2>4, <2>5
  <1>12. CASE SidecarDenied(t)
    <2> USE DEF StoreInv, TypeOK, SidecarDenied
    <2>2. TakeTurns'
      BY <1>12 DEF TakeTurns, Storing
    <2>3. BinFirst'
      BY <1>12 DEF BinFirst, Present
    <2>4. TakenByRival'
      BY <1>12 DEF TakenByRival, Present, RivalOf, Writing
    <2>5. WillBeSealed'
      BY <1>0, <1>12 DEF WillBeSealed, Present
    <2> QED
      BY <2>2, <2>3, <2>4, <2>5
  <1>13. CASE SealSidecar(t)
    <2> USE DEF StoreInv, TypeOK, SealSidecar, Mode
    <2>2. TakeTurns'
      BY <1>13 DEF TakeTurns, Storing
    <2>3. BinFirst'
      BY <1>0, <1>13 DEF BinFirst, Present
    <2>4. TakenByRival'
      BY <1>0, <1>13 DEF TakenByRival, TakeTurns, Present, RivalOf, Writing, Storing
    <2>5. WillBeSealed'
      BY <1>0, <1>13 DEF WillBeSealed, Present
    <2> QED
      BY <2>2, <2>3, <2>4, <2>5
  <1> QED
    BY <1>1, <1>2, <1>3, <1>4, <1>5, <1>6, <1>7, <1>8, <1>9, <1>10, <1>11, <1>12, <1>13
       DEF TaskStep

\* A crash ends calls; those that have stored a payload count as rivals still.
LEMMA SealCrash ==
    ASSUME TypeOK, StoreInv, NEW p \in Procs, Crash(p)
    PROVE  StoreInv'
  <1> USE DEF StoreInv, TypeOK, Crash, Ended
  <1>1. TakeTurns'
    BY DEF TakeTurns, Storing
  <1>2. BinFirst'
    BY DEF BinFirst, Present
  <1>3. TakenByRival'
    BY DEF TakenByRival, Present, RivalOf, Writing
  <1>4. WillBeSealed'
    <2>1. crashes' # 0
      BY CrashAssumption
    <2> QED
      BY <2>1 DEF WillBeSealed
  <1> QED
    BY <1>1, <1>2, <1>3, <1>4

\* The sealing invariant holds in every reachable state.
THEOREM SealInductive == Spec => []SealInv
  <1>1. Init => StoreInv
    BY DEF Init, StoreInv, TakeTurns, BinFirst, TakenByRival, WillBeSealed, Present,
           Storing, Writing
  <1>2. TypeOK /\ StoreInv /\ UNCHANGED vars => StoreInv'
    BY DEF vars, StoreInv, TakeTurns, BinFirst, TakenByRival, WillBeSealed, Present, RivalOf
  <1>3. TypeOK /\ StoreInv /\ [Next]_vars => StoreInv'
    BY <1>2, SealTask, SealCrash DEF Next
  <1>4. Spec => []TypeOK
    <2>1. IInv => TypeOK
      BY DEF IInv
    <2> QED
      BY <2>1, Inductive, PTL
  <1> QED
    BY <1>1, <1>3, <1>4, PTL DEF Spec, SealInv

\* fetcher.py:137: a fetch ends in PermissionError only when another process
\* has reported the same payload.
THEOREM RaceOnly == Spec => []RaisesOnlyInRace
  <1>1. SealInv => RaisesOnlyInRace
    BY DEF SealInv, StoreInv, TakenByRival, RaisesOnlyInRace
  <1> QED
    BY <1>1, SealInductive, PTL

\* Until a process crashes, reported captures are sealed or being sealed by a
\* rival, and everything is sealed once nobody is storing.
THEOREM Sealed == Spec => []SealedUnlessCrashed
  <1>1. SealInv => SealedUnlessCrashed
    <2> SUFFICES ASSUME SealInv, crashes = 0 PROVE SealedUnlessCrashed
      BY DEF SealedUnlessCrashed
    <2> USE DEF SealInv, StoreInv, TypeOK, Mode
    <2>1. ASSUME NEW t \in Tasks, pc[t] = "success",
                 ~(bin[content[t]] = "readonly" /\ side[content[t]] = "readonly")
          PROVE  \E u \in Tasks : RivalOf(t, u) /\ pc[u] \in Storing
      <3>1. Present(content[t]) /\ content[t] \in Payloads
        BY <2>1 DEF BinFirst
      <3>2. PICK u \in Tasks : /\ content[u] = content[t]
                               /\ pc[u] \in {"chmod", "sidecar", "seal"}
        BY <2>1, <3>1 DEF WillBeSealed, Present
      <3>3. RivalOf(u, t)
        BY <2>1, <3>2 DEF TakenByRival, Writing
      <3> QED
        BY <3>2, <3>3 DEF RivalOf, Storing
    <2>2. ASSUME \A t \in Tasks : pc[t] \notin Storing, NEW p \in Payloads, Present(p)
          PROVE  bin[p] = "readonly" /\ side[p] = "readonly"
      BY <2>2 DEF WillBeSealed, Present, Storing
    <2> QED
      BY <2>1, <2>2 DEF SealedUnlessCrashed
  <1> QED
    BY <1>1, SealInductive, PTL

\* No step writes to a sealed sidecar, and a sealed capture is renamed over
\* only by a call that tested for it before a rival stored it.
THEOREM Final == Spec => SealsAreFinal
  <1> DEFINE Kept == \A p \in Payloads :
          /\ side[p] = "readonly" => side'[p] = "readonly"
          /\ bin[p] = "readonly" /\ bin'[p] # "readonly" =>
                \E t, u \in Tasks : /\ content[t] = p /\ pc[t] = "replace"
                                    /\ RivalOf(t, u) /\ pc[u] \notin {"idle", "stream"}
  <1>1. ASSUME SealInv, NEW t \in Tasks, TaskStep(t) PROVE Kept
    <2> USE DEF SealInv, TypeOK
    <2>1. CASE Replace(t)
      BY <1>1, <2>1 DEF Replace, StoreInv, TakenByRival, Present
    <2>2. CASE ~Replace(t)
      BY <1>1, <2>2 DEF TaskStep, Refuse, Open, Chunk, TooLarge, TransferFails, Cancel,
         Arrived, Unlink, Chmod, WriteSidecar, SidecarDenied, SealSidecar
    <2> QED
      BY <2>1, <2>2
  <1>2. ASSUME NEW p \in Procs, Crash(p) PROVE Kept
    BY <1>2 DEF Crash
  <1>3. UNCHANGED vars => Kept
    BY DEF vars
  <1>4. SealInv /\ [Next]_vars => Kept
    BY <1>1, <1>2, <1>3 DEF Next
  <1> QED
    BY <1>4, SealInductive, PTL DEF Spec, SealsAreFinal

=============================================================================
