------------------------ MODULE TelnetListenerProofs ------------------------
(***************************************************************************)
(* Proofs about the Telnet listener, for any number of addresses and       *)
(* connections, any clients, any chunking and any credential policy.  The  *)
(* login dialogue and the limiter hold for whatever lines read_line        *)
(* returns; the last part shows which lines those are.                     *)
(***************************************************************************)
EXTENDS TelnetListener, ConnectionLimiterProofs, SequenceTheorems, WellFoundedInduction

-----------------------------------------------------------------------------
(* Type correctness, as far as the proofs need it.                          *)

States == {"reading", "busy"} \cup Closed

\* s is a sequence, whatever its elements are.
IsSequence(s) == s \in Seq({s[i] : i \in DOMAIN s})

\* c is a handler: a record with these fields.
IsHandler(c) ==
    /\ c \in [state : States, phase : {"login", "password", "shell"}, tries : 0 .. 3,
              items : {c.items}, rest : {c.rest}, iac : {c.iac}, buf : {c.buf},
              lines : {c.lines}, pipelined : {c.pipelined}]
    /\ IsSequence(c.lines)

TypeOK ==
    /\ counts \in [Ips -> Nat]
    /\ conn \in [Conns -> {conn[k] : k \in Conns}]
    /\ \A k \in Conns : IsHandler(conn[k])

\* Appending to a sequence of anything.
LEMMA AppendAny ==
    ASSUME NEW s, IsSequence(s), NEW e
    PROVE  /\ IsSequence(Append(s, e))
           /\ Len(s) \in Nat /\ Len(Append(s, e)) = Len(s) + 1
           /\ \A i \in 1 .. Len(s) : Append(s, e)[i] = s[i]
           /\ Append(s, e)[Len(s) + 1] = e
  <1> DEFINE S == {s[i] : i \in DOMAIN s} \cup {e}
             a == Append(s, e)
  <1>1. s \in Seq(S) /\ e \in S
    <2>1. Len(s) \in Nat /\ s \in [1 .. Len(s) -> {s[i] : i \in DOMAIN s}]
      BY LenProperties DEF IsSequence
    <2>2. s \in [1 .. Len(s) -> S]
      BY <2>1
    <2> QED
      BY <2>1, <2>2, SeqDef
  <1>2. /\ a \in Seq(S) /\ Len(a) = Len(s) + 1
        /\ \A i \in 1 .. Len(s) : a[i] = s[i]
        /\ a[Len(s) + 1] = e
    BY <1>1, AppendProperties
  <1>3. Len(s) \in Nat /\ Len(a) \in Nat /\ a \in [1 .. Len(a) -> S] /\ DOMAIN a = 1 .. Len(a)
    BY <1>1, <1>2, LenProperties
  <1> HIDE DEF a
  <1>4. a \in [1 .. Len(a) -> {a[i] : i \in DOMAIN a}]
    BY <1>3
  <1>5. a \in Seq({a[i] : i \in DOMAIN a})
    BY <1>3, <1>4, SeqDef
  <1> QED
    BY <1>2, <1>3, <1>5 DEF IsSequence, a

-----------------------------------------------------------------------------
(* The login dialogue.  After n failed rounds the lines read are n refused  *)
(* pairs, and then, in a shell, a pair that was accepted.                   *)

Over == {"closed", "failed"}

Refused(c, n) == ~Accepts(c.lines[2 * n - 1], c.lines[2 * n])

Dialogue(c) ==
    /\ c.tries = 3 => c.state \in Over /\ c.phase = "login"
    /\ \A n \in 1 .. c.tries : Refused(c, n)
    /\ c.phase = "login" => Len(c.lines) = 2 * c.tries
    /\ c.phase = "password" => Len(c.lines) = 2 * c.tries + 1
    /\ c.phase = "shell" => Len(c.lines) >= 2 * c.tries + 2 /\ ~Refused(c, c.tries + 1)

Handler(c) == IsHandler(c) /\ Dialogue(c)

\* d is c but for the fields that are not part of the dialogue.
SameDialogue(c, d) ==
    d.phase = c.phase /\ d.tries = c.tries /\ d.lines = c.lines

\* Assigning to a field that is not part of the dialogue.
LEMMA FieldUpdate ==
    ASSUME NEW c, IsHandler(c), NEW v,
           NEW d \in {[c EXCEPT !.items = v], [c EXCEPT !.rest = v], [c EXCEPT !.iac = v],
                      [c EXCEPT !.buf = v], [c EXCEPT !.pipelined = v]}
    PROVE  IsHandler(d) /\ SameDialogue(c, d) /\ d.state = c.state
  <1>1. CASE d = [c EXCEPT !.items = v]
    BY <1>1 DEF IsHandler, SameDialogue
  <1>2. CASE d = [c EXCEPT !.rest = v]
    BY <1>2 DEF IsHandler, SameDialogue
  <1>3. CASE d = [c EXCEPT !.iac = v]
    BY <1>3 DEF IsHandler, SameDialogue
  <1>4. CASE d = [c EXCEPT !.buf = v]
    BY <1>4 DEF IsHandler, SameDialogue
  <1>5. CASE d = [c EXCEPT !.pipelined = v]
    BY <1>5 DEF IsHandler, SameDialogue
  <1> QED
    BY <1>1, <1>2, <1>3, <1>4, <1>5

\* Assigning to the state.
LEMMA StateUpdate ==
    ASSUME NEW c, IsHandler(c), NEW v \in States
    PROVE  /\ IsHandler([c EXCEPT !.state = v])
           /\ SameDialogue(c, [c EXCEPT !.state = v])
           /\ [c EXCEPT !.state = v].state = v
  BY DEF IsHandler, SameDialogue

\* The dialogue is in order whatever else changes, as long as three failures
\* have closed the connection.
LEMMA DialogueKept ==
    ASSUME NEW c, NEW d, Dialogue(c), SameDialogue(c, d),
           d.state \in Over \/ d.state = c.state \/ c.state \notin Over
    PROVE  Dialogue(d)
  BY DEF Dialogue, SameDialogue, Refused

\* One more line, as the dialogue takes it.
LEMMA LineKept ==
    ASSUME NEW c, Handler(c), c.state = "reading", NEW line
    PROVE  /\ Handler([OnLine(c, line) EXCEPT !.lines = Append(@, line)])
           /\ [OnLine(c, line) EXCEPT !.lines = Append(@, line)].state
                 \in {"reading", "busy", "closed"}
  <1> DEFINE lines == Append(c.lines, line)
             d == [OnLine(c, line) EXCEPT !.lines = Append(@, line)]
  <1> SUFFICES Handler(d) /\ d.state \in {"reading", "busy", "closed"}
    OBVIOUS
  <1>1. /\ IsSequence(lines) /\ Len(c.lines) \in Nat /\ Len(lines) = Len(c.lines) + 1
        /\ \A i \in 1 .. Len(c.lines) : lines[i] = c.lines[i]
        /\ lines[Len(c.lines) + 1] = line
    BY AppendAny DEF Handler, IsHandler
  <1>2. c.tries \in 0 .. 2
    BY DEF Handler, IsHandler, Dialogue, Over
  <1>3. Len(c.lines) >= 2 * c.tries
    BY <1>1, <1>2 DEF Handler, IsHandler, Dialogue
  <1>4. \A n \in 1 .. c.tries : ~Accepts(lines[2 * n - 1], lines[2 * n])
    <2> SUFFICES ASSUME NEW n \in 1 .. c.tries
                 PROVE  ~Accepts(lines[2 * n - 1], lines[2 * n])
      OBVIOUS
    <2>1. 2 * n - 1 \in 1 .. Len(c.lines) /\ 2 * n \in 1 .. Len(c.lines)
      BY <1>1, <1>2, <1>3
    <2>2. ~Accepts(c.lines[2 * n - 1], c.lines[2 * n])
      BY DEF Handler, Dialogue, Refused
    <2> QED
      BY <1>1, <2>1, <2>2
  <1>5. CASE c.phase = "login"
    <2>1. d = [c EXCEPT !.phase = "password", !.lines = lines]
      BY <1>5 DEF OnLine, Handler, IsHandler
    <2> HIDE DEF lines, d
    <2>2. IsHandler(d) /\ d.lines = lines /\ d.tries = c.tries /\ d.phase = "password"
          /\ d.state = "reading"
      BY <1>1, <2>1 DEF Handler, IsHandler
    <2>3. Len(d.lines) = 2 * d.tries + 1
      BY <1>1, <1>2, <1>5, <2>2 DEF Handler, Dialogue
    <2> QED
      BY <1>2, <1>4, <2>2, <2>3 DEF Handler, Dialogue, Refused
  <1>6. CASE c.phase = "password" /\ Accepts(Last(c.lines), line)
    <2>1. d = [c EXCEPT !.phase = "shell", !.lines = lines]
      BY <1>6 DEF OnLine, Handler, IsHandler
    <2>2. Len(c.lines) = 2 * c.tries + 1
      BY <1>6 DEF Handler, Dialogue
    <2>3. lines[2 * c.tries + 1] = Last(c.lines) /\ lines[2 * c.tries + 2] = line
      BY <1>1, <1>2, <2>2 DEF Last
    <2> HIDE DEF lines, d
    <2>4. IsHandler(d) /\ d.lines = lines /\ d.tries = c.tries /\ d.phase = "shell"
          /\ d.state = "reading"
      BY <1>1, <2>1 DEF Handler, IsHandler
    <2>5. ~Refused(d, d.tries + 1)
      BY <1>2, <1>6, <2>3, <2>4 DEF Refused
    <2>6. Len(d.lines) >= 2 * d.tries + 2
      BY <1>1, <1>2, <2>2, <2>4
    <2> QED
      BY <1>2, <1>4, <2>4, <2>5, <2>6 DEF Handler, Dialogue, Refused
  <1>7. CASE c.phase = "password" /\ ~Accepts(Last(c.lines), line)
    <2> DEFINE state == IF c.tries = 2 THEN "closed" ELSE c.state
    <2>1. d = [c EXCEPT !.phase = "login", !.tries = c.tries + 1, !.state = state, !.lines = lines]
      BY <1>7 DEF OnLine, Handler, IsHandler
    <2>2. /\ c.tries + 1 \in 0 .. 3 /\ state \in States
          /\ c.tries + 1 = 3 => state \in Over
          /\ state \in {"reading", "closed"}
      BY <1>2 DEF States, Closed, Over
    <2>3. Len(c.lines) = 2 * c.tries + 1
      BY <1>7 DEF Handler, Dialogue
    <2>4. lines[2 * c.tries + 1] = Last(c.lines) /\ lines[2 * c.tries + 2] = line
      BY <1>1, <1>2, <2>3 DEF Last
    <2> HIDE DEF lines, d, state
    <2>5. /\ IsHandler(d) /\ d.lines = lines /\ d.tries = c.tries + 1 /\ d.phase = "login"
          /\ d.state = state
      BY <1>1, <2>1, <2>2 DEF Handler, IsHandler
    <2>6. \A n \in 1 .. d.tries : Refused(d, n)
      <3> SUFFICES ASSUME NEW n \in 1 .. c.tries + 1 PROVE ~Accepts(lines[2 * n - 1], lines[2 * n])
        BY <2>5 DEF Refused
      <3>1. CASE n \in 1 .. c.tries
        BY <1>4, <3>1
      <3>2. CASE n = c.tries + 1
        <4>1. 2 * n - 1 = 2 * c.tries + 1 /\ 2 * n = 2 * c.tries + 2
          BY <1>2, <3>2
        <4> QED
          BY <1>7, <2>4, <4>1
      <3> QED
        BY <1>2, <3>1, <3>2
    <2>7. Len(d.lines) = 2 * d.tries
      BY <1>1, <1>2, <2>3, <2>5
    <2> QED
      BY <2>2, <2>5, <2>6, <2>7 DEF Handler, Dialogue
  <1>8. CASE c.phase = "shell"
    <2>1. d = [c EXCEPT !.state = "busy", !.lines = lines]
      BY <1>8 DEF OnLine, Handler, IsHandler
    <2>2. /\ Len(c.lines) >= 2 * c.tries + 2
          /\ Accepts(c.lines[2 * (c.tries + 1) - 1], c.lines[2 * (c.tries + 1)])
      BY <1>8 DEF Handler, Dialogue, Refused
    <2>3. 2 * (c.tries + 1) - 1 \in 1 .. Len(c.lines) /\ 2 * (c.tries + 1) \in 1 .. Len(c.lines)
      <3>1. ASSUME NEW n \in Nat, NEW m \in Nat, m >= 2 * n + 2
            PROVE  2 * (n + 1) - 1 \in 1 .. m /\ 2 * (n + 1) \in 1 .. m
        BY <3>1
      <3>2. c.tries \in Nat /\ Len(c.lines) \in Nat /\ Len(c.lines) >= 2 * c.tries + 2
        BY <1>1, <1>2, <2>2
      <3> QED
        BY <3>1, <3>2
    <2> HIDE DEF lines, d
    <2>4. "busy" \in States
      BY DEF States
    <2>5. IsHandler(d) /\ d.lines = lines /\ d.tries = c.tries /\ d.phase = "shell"
          /\ d.state = "busy"
      BY <1>1, <1>8, <2>1, <2>4 DEF Handler, IsHandler
    <2>6. ~Refused(d, d.tries + 1)
      BY <1>1, <2>2, <2>3, <2>5 DEF Refused
    <2>7. Len(d.lines) >= 2 * d.tries + 2
      BY <1>1, <1>2, <2>2, <2>5
    <2> QED
      BY <1>2, <1>4, <2>5, <2>6, <2>7 DEF Handler, Dialogue, Refused
  <1> QED
    BY <1>5, <1>6, <1>7, <1>8 DEF Handler, IsHandler

\* A step of connection k: its handler stays in order, the others are not
\* concerned.
Moves(k) == \E d : Handler(d) /\ conn' = [conn EXCEPT ![k] = d]

DialogueInv == TypeOK /\ \A k \in Conns : Dialogue(conn[k])

\* However a handler ends or goes on, with a handler c in order.
LEMMA EndMoves ==
    ASSUME NEW k \in Conns, NEW c, Handler(c), End(k, c)
    PROVE  Moves(k)
  <1>1. CASE conn' = [conn EXCEPT ![k] = c]
    BY <1>1 DEF Moves
  <1>2. CASE c.state \in Closed /\ conn' = [conn EXCEPT ![k] = [c EXCEPT !.state = "failed"]]
    <2> DEFINE d == [c EXCEPT !.state = "failed"]
    <2>1. "failed" \in States /\ "failed" \in Over
      BY DEF States, Closed, Over
    <2>2. IsHandler(d) /\ SameDialogue(c, d) /\ d.state \in Over
      BY <2>1, StateUpdate DEF Handler
    <2> HIDE DEF d
    <2>3. Handler(d)
      BY <2>2, DialogueKept DEF Handler
    <2> QED
      BY <1>2, <2>3 DEF Moves, d
  <1> QED
    BY <1>1, <1>2 DEF End

\* A handler that is not over may go into any state.
LEMMA StateMoves ==
    ASSUME NEW c, Handler(c), c.state \notin Over, NEW v \in States
    PROVE  Handler([c EXCEPT !.state = v])
  <1> DEFINE d == [c EXCEPT !.state = v]
  <1>1. IsHandler(d) /\ SameDialogue(c, d)
    BY StateUpdate DEF Handler
  <1> HIDE DEF d
  <1>2. Handler(d)
    BY <1>1, DialogueKept DEF Handler
  <1> QED
    BY <1>2 DEF d

\* What a handler that was open goes on or ends with.
EndState == {"reading", "busy", "closed", "capped"}

Ends(k) == \E c : Handler(c) /\ c.state \in EndState /\ End(k, c)

\* A chunk arrives (telnet.py, read_line and the login loop).
LEMMA ReceiveEnds ==
    ASSUME DialogueInv, NEW k \in Conns, NEW n, Receive(k, n)
    PROVE  Ends(k)
  <1> DEFINE c == conn[k]
             r == ReadChunk(c, SubSeq(c.rest, 1, n))
             tail == SubSeq(c.rest, n + 1, Len(c.rest))
             over == c.pipelined \/ r.over
             read == [c EXCEPT !.rest = tail, !.iac = r.iac, !.pipelined = over]
  <1>1. Handler(c) /\ c.state = "reading"
    BY DEF DialogueInv, TypeOK, Handler, Receive
  <1>2. Handler(read) /\ read.state = "reading"
    <2> DEFINE c1 == [c EXCEPT !.rest = tail]
               c2 == [c1 EXCEPT !.iac = r.iac]
               c3 == [c2 EXCEPT !.pipelined = over]
    <2> HIDE DEF c, r, tail, over
    <2>1. IsHandler(c1) /\ SameDialogue(c, c1) /\ c1.state = c.state
      BY <1>1, FieldUpdate DEF Handler
    <2>2. IsHandler(c2) /\ SameDialogue(c1, c2) /\ c2.state = c1.state
      <3> HIDE DEF c1
      <3> QED
        BY <2>1, FieldUpdate
    <2>3. IsHandler(c3) /\ SameDialogue(c2, c3) /\ c3.state = c2.state
      <3> HIDE DEF c1, c2
      <3> QED
        BY <2>2, FieldUpdate
    <2>4. read = c3
      OBVIOUS
    <2> HIDE DEF c1, c2, c3, read
    <2>5. SameDialogue(c, c3) /\ c3.state = "reading"
      BY <1>1, <2>1, <2>2, <2>3 DEF SameDialogue
    <2> QED
      BY <1>1, <2>3, <2>4, <2>5, DialogueKept DEF Handler
  <1>3. \/ End(k, [read EXCEPT !.buf = r.buf])
        \/ End(k, [read EXCEPT !.state = "closed"])
        \/ End(k, [OnLine([read EXCEPT !.buf = << >>], r.buf) EXCEPT !.lines = Append(@, r.buf)])
    BY DEF Receive
  <1> HIDE DEF read, r
  <1>4. \A v : Handler([read EXCEPT !.buf = v]) /\ [read EXCEPT !.buf = v].state = "reading"
    <2> SUFFICES ASSUME NEW v
                 PROVE  Handler([read EXCEPT !.buf = v]) /\ [read EXCEPT !.buf = v].state = "reading"
      OBVIOUS
    <2> DEFINE d == [read EXCEPT !.buf = v]
    <2>1. IsHandler(d) /\ SameDialogue(read, d) /\ d.state = read.state
      BY <1>2, FieldUpdate DEF Handler
    <2> HIDE DEF d
    <2>2. Handler(d) /\ d.state = "reading"
      BY <1>2, <2>1, DialogueKept DEF Handler
    <2> QED
      BY <2>2 DEF d
  <1>5. CASE End(k, [read EXCEPT !.buf = r.buf])
    BY <1>4, <1>5 DEF Ends, EndState
  <1>6. CASE End(k, [read EXCEPT !.state = "closed"])
    <2> DEFINE d == [read EXCEPT !.state = "closed"]
    <2>1. "closed" \in States /\ read.state \notin Over
      BY <1>2 DEF Closed, States, Over
    <2>2. Handler(d) /\ d.state = "closed"
      BY <1>2, <2>1, StateMoves, StateUpdate DEF Handler
    <2> HIDE DEF d
    <2> QED
      BY <1>6, <2>2 DEF Ends, EndState, d
  <1>7. CASE End(k, [OnLine([read EXCEPT !.buf = << >>], r.buf) EXCEPT !.lines = Append(@, r.buf)])
    <2> DEFINE c0 == [read EXCEPT !.buf = << >>]
               d == [OnLine(c0, r.buf) EXCEPT !.lines = Append(@, r.buf)]
    <2>1. Handler(c0) /\ c0.state = "reading"
      BY <1>4
    <2>2. End(k, d)
      BY <1>7
    <2> HIDE DEF c0
    <2>3. Handler(d) /\ d.state \in {"reading", "busy", "closed"}
      BY <2>1, LineKept
    <2> HIDE DEF d
    <2> QED
      BY <2>2, <2>3 DEF Ends, EndState
  <1> QED
    BY <1>3, <1>5, <1>6, <1>7

Step(k) ==
    \/ \E items \in Messages[k] : Connect(k, items)
    \/ Reject(k)
    \/ ConnectFails(k)
    \/ \E n \in 1 .. MaxChunk : Receive(k, n)
    \/ \E exit \in BOOLEAN : Reply(k, exit)
    \/ Disconnect(k)
    \/ Cap(k)

\* Every step that is not a connection's first is one of an open handler.
LEMMA StepKinds ==
    ASSUME DialogueInv, NEW k \in Conns, Step(k)
    PROVE  \/ \E items \in Messages[k] : Connect(k, items)
           \/ Reject(k)
           \/ ConnectFails(k)
           \/ Open(k) /\ Ends(k)
  <1> DEFINE c == conn[k]
  <1>0. Handler(c)
    BY DEF DialogueInv, TypeOK, Handler
  <1>1. ASSUME NEW v \in EndState, Open(k), End(k, [c EXCEPT !.state = v])
        PROVE  Ends(k)
    <2> DEFINE d == [c EXCEPT !.state = v]
    <2>1. v \in States /\ c.state \notin Over
      BY <1>1 DEF EndState, States, Closed, Over, Open
    <2>2. Handler(d) /\ d.state = v
      BY <1>0, <2>1, StateMoves, StateUpdate DEF Handler
    <2>3. End(k, d)
      BY <1>1
    <2> HIDE DEF d
    <2> QED
      BY <1>1, <2>2, <2>3 DEF Ends
  <1>2. ASSUME NEW n, Receive(k, n) PROVE Open(k) /\ Ends(k)
    BY <1>2, ReceiveEnds DEF Receive, Open, Closed
  <1>3. ASSUME NEW exit \in BOOLEAN, Reply(k, exit) PROVE Open(k) /\ Ends(k)
    <2> DEFINE v == IF exit THEN "closed" ELSE "reading"
    <2>1. v \in EndState /\ Open(k) /\ End(k, [c EXCEPT !.state = v])
      BY <1>3 DEF Reply, Open, EndState, Closed
    <2> HIDE DEF v
    <2> QED
      BY <1>1, <2>1
  <1>4. CASE Disconnect(k)
    BY <1>1, <1>4 DEF Disconnect, Open, EndState, Closed
  <1>5. CASE Cap(k)
    BY <1>1, <1>5 DEF Cap, EndState
  <1> QED
    BY <1>2, <1>3, <1>4, <1>5 DEF Step

\* Every step of a connection keeps its handler in order.
LEMMA StepMoves ==
    ASSUME DialogueInv, NEW k \in Conns, Step(k)
    PROVE  Moves(k)
  <1> DEFINE c == conn[k]
  <1>0. Handler(c)
    BY DEF DialogueInv, TypeOK, Handler
  <1>1. ASSUME NEW v \in States, c.state \notin Over, conn' = [conn EXCEPT ![k].state = v]
        PROVE  Moves(k)
    BY <1>0, <1>1, StateMoves DEF Moves
  <1>2. ASSUME NEW items, Connect(k, items) PROVE Moves(k)
    <2> DEFINE c1 == [c EXCEPT !.state = "reading"]
               c2 == [c1 EXCEPT !.items = items]
               c3 == [c2 EXCEPT !.rest = Bytes(items)]
    <2>1. c.state \notin Over /\ "reading" \in States
      BY <1>2 DEF Connect, Over, States
    <2>2. Handler(c1)
      BY <1>0, <2>1, StateMoves
    <2>3. conn' = [conn EXCEPT ![k] = c3]
      BY <1>2 DEF Connect, DialogueInv, TypeOK
    <2>4. Handler(c3)
      <3> HIDE DEF c1
      <3>1. IsHandler(c2) /\ SameDialogue(c1, c2) /\ c2.state = c1.state
        BY <2>2, FieldUpdate DEF Handler
      <3> HIDE DEF c2
      <3>2. IsHandler(c3) /\ SameDialogue(c2, c3) /\ c3.state = c2.state
        BY <3>1, FieldUpdate
      <3> HIDE DEF c3
      <3>3. SameDialogue(c1, c3) /\ c3.state = c1.state
        BY <3>1, <3>2 DEF SameDialogue
      <3> QED
        BY <2>2, <3>2, <3>3, DialogueKept DEF Handler
    <2> QED
      BY <2>3, <2>4 DEF Moves
  <1>3. CASE Reject(k)
    BY <1>1, <1>3 DEF Reject, Over, States, Closed
  <1>4. CASE ConnectFails(k)
    BY <1>1, <1>4 DEF ConnectFails, Over, States, Closed
  <1>5. CASE Open(k) /\ Ends(k)
    BY <1>5, EndMoves DEF Ends
  <1> QED
    BY <1>2, <1>3, <1>4, <1>5, StepKinds

\* Every step keeps the counts numbers.
LEMMA CountsType ==
    ASSUME counts \in [Ips -> Nat], NEW k \in Conns, Step(k)
    PROVE  counts' \in [Ips -> Nat]
  <1>0. IpOf[k] \in Ips
    BY ConnAssumption
  <1>1. \/ UNCHANGED counts \/ Acquire(IpOf[k]) \/ Release(IpOf[k])
    BY DEF Step, Connect, Reject, ConnectFails, Receive, Reply, Disconnect, Cap, End
  <1> QED
    BY <1>0, <1>1 DEF Acquire, Release

\* The handlers stay in order.
THEOREM DialogueInductive == Spec => []DialogueInv
  <1>1. Init => DialogueInv
    <2> SUFFICES ASSUME Init PROVE DialogueInv
      OBVIOUS
    <2>1. counts \in [Ips -> Nat] /\ conn \in [Conns -> {conn[k] : k \in Conns}]
      BY DEF Init
    <2>2. ASSUME NEW k \in Conns PROVE IsHandler(conn[k]) /\ Dialogue(conn[k])
      <3>1. << >> \in Seq({}) /\ Len(<< >>) = 0
        BY EmptySeq
      <3>2. IsSequence(<< >>)
        BY EmptySeq DEF IsSequence
      <3>3. /\ conn[k].state = "new" /\ conn[k].phase = "login" /\ conn[k].tries = 0
            /\ conn[k].lines = << >>
        BY <2>2 DEF Init
      <3>4. IsHandler(conn[k])
        <4> DEFINE c == conn[k]
        <4>1. c = [state |-> "new", phase |-> "login", tries |-> 0, items |-> << >>,
                   rest |-> << >>, iac |-> "normal", buf |-> << >>, lines |-> << >>,
                   pipelined |-> FALSE]
          BY <2>2 DEF Init
        <4> HIDE DEF c
        <4>2. c \in [state : {"new"}, phase : {"login"}, tries : {0},
                     items : {c.items}, rest : {c.rest}, iac : {c.iac}, buf : {c.buf},
                     lines : {c.lines}, pipelined : {c.pipelined}]
          BY <4>1
        <4>3. c.lines = << >> /\ "new" \in States
          BY <4>1 DEF States, Closed
        <4>4. IsHandler(c)
          BY <3>2, <4>2, <4>3 DEF IsHandler
        <4> QED
          BY <4>4 DEF c
      <3>5. Dialogue(conn[k])
        BY <3>1, <3>3 DEF Dialogue
      <3> QED
        BY <3>4, <3>5
    <2> QED
      BY <2>1, <2>2 DEF DialogueInv, TypeOK
  <1>2. DialogueInv /\ UNCHANGED vars => DialogueInv'
    BY DEF DialogueInv, TypeOK, vars
  <1>3. ASSUME DialogueInv, NEW k \in Conns, Step(k) PROVE DialogueInv'
    <2>1. PICK d : Handler(d) /\ conn' = [conn EXCEPT ![k] = d]
      BY <1>3, StepMoves DEF Moves
    <2>2. \A j \in Conns : conn'[j] = IF j = k THEN d ELSE conn[j]
      BY <1>3, <2>1 DEF DialogueInv, TypeOK
    <2>3. conn' \in [Conns -> {conn'[j] : j \in Conns}]
      BY <1>3, <2>1, <2>2 DEF DialogueInv, TypeOK
    <2>4. \A j \in Conns : IsHandler(conn'[j]) /\ Dialogue(conn'[j])
      BY <1>3, <2>1, <2>2 DEF DialogueInv, TypeOK, Handler
    <2>5. counts' \in [Ips -> Nat]
      BY <1>3, CountsType DEF DialogueInv, TypeOK
    <2> QED
      BY <2>3, <2>4, <2>5 DEF DialogueInv, TypeOK
  <1>4. DialogueInv /\ [Next]_vars => DialogueInv'
    BY <1>2, <1>3 DEF Next, Step
  <1> QED
    BY <1>1, <1>4, PTL DEF Spec

\* Pairs of lines.
LEMMA Half ==
    ASSUME NEW n \in Nat, NEW t \in Nat
    PROVE  /\ n >= 2 * t + 2 => t + 1 \in 1 .. n \div 2
           /\ n = 2 * t \/ n = 2 * t + 1 => n \div 2 = t
  <1>1. n \div 2 \in Nat /\ 2 * (n \div 2) <= n /\ n < 2 * (n \div 2) + 2
    OBVIOUS
  <1> QED
    BY <1>1

\* Whatever the clients send and however the network cuts it, a shell is given
\* exactly after an accepted pair of successive lines, the third at the latest,
\* and three refused pairs end the dialogue.
THEOREM LoginSound == Spec => []ShellAfterLogin
  <1>1. DialogueInv => ShellAfterLogin
    <2> SUFFICES ASSUME DialogueInv, NEW k \in Conns
                 PROVE  LET lines == conn[k].lines
                            good == {n \in 1 .. Len(lines) \div 2 :
                                       Accepts(lines[2 * n - 1], lines[2 * n])}
                        IN  /\ conn[k].phase = "shell" <=> \E n \in good : n <= 3
                            /\ good = {} => Len(lines) <= 6
      BY DEF ShellAfterLogin, Accepts, IsKnownPassword
    <2> DEFINE c == conn[k]
               lines == c.lines
               good == {n \in 1 .. Len(lines) \div 2 :
                          Accepts(lines[2 * n - 1], lines[2 * n])}
    <2>1. IsHandler(c) /\ Dialogue(c) /\ Len(lines) \in Nat /\ c.tries \in 0 .. 3
      BY AppendAny DEF DialogueInv, TypeOK, IsHandler
    <2> SUFFICES /\ c.phase = "shell" <=> \E n \in good : n <= 3
                 /\ good = {} => Len(lines) <= 6
      OBVIOUS
    <2>2. \A n \in 1 .. c.tries : n \notin good
      BY <2>1 DEF Dialogue, Refused
    <2>3. CASE c.phase = "shell"
      <3>1. Len(lines) >= 2 * c.tries + 2 /\ c.tries \in 0 .. 2
        BY <2>1, <2>3 DEF Dialogue
      <3>2. c.tries + 1 \in 1 .. Len(lines) \div 2
        <4>1. c.tries \in Nat /\ Len(lines) \in Nat
          BY <2>1
        <4> HIDE DEF c, lines
        <4> QED
          BY <3>1, <4>1, Half
      <3>3. c.tries + 1 \in good
        BY <2>1, <2>3, <3>2 DEF Dialogue, Refused
      <3> HIDE DEF good
      <3> QED
        BY <2>3, <3>1, <3>3
    <2>4. CASE c.phase # "shell"
      <3>1. Len(lines) = 2 * c.tries \/ (c.tries # 3 /\ Len(lines) = 2 * c.tries + 1)
        BY <2>1, <2>4 DEF Dialogue, IsHandler
      <3>2. Len(lines) <= 6
        BY <2>1, <3>1
      <3>3. Len(lines) \div 2 = c.tries
        <4>1. c.tries \in Nat /\ Len(lines) \in Nat
          BY <2>1
        <4> HIDE DEF c, lines
        <4> QED
          BY <3>1, <4>1, Half
      <3>4. good = {}
        BY <2>2, <3>3
      <3> QED
        BY <2>4, <3>2, <3>4
    <2> QED
      BY <2>3, <2>4
  <1> QED
    BY <1>1, DialogueInductive, PTL

-----------------------------------------------------------------------------
(* The limiter.                                                             *)

\* A handler that has taken a slot and not given it back.
Holds(c) == c.state \notin Closed \/ c.state = "failed"

Holders(i) == {k \in Conns : IpOf[k] = i /\ Holds(conn[k])}

SlotInv == \A i \in Ips : Counted(counts[i], Holders(i))

\* The slots before and after the handler of connection k becomes d.
LEMMA SlotMove ==
    ASSUME TypeOK, SlotInv, NEW k \in Conns, NEW d, conn' = [conn EXCEPT ![k] = d],
           \/ (Holds(d) <=> Holds(conn[k])) /\ counts' = counts
           \/ Holds(d) /\ ~Holds(conn[k]) /\ CanAcquire(IpOf[k]) /\ Acquire(IpOf[k])
           \/ ~Holds(d) /\ Holds(conn[k]) /\ Release(IpOf[k])
    PROVE  SlotInv'
  <1>0. IpOf[k] \in Ips /\ counts \in [Ips -> Nat]
    BY ConnAssumption DEF TypeOK
  <1>1. \A j \in Conns : conn'[j] = IF j = k THEN d ELSE conn[j]
    BY DEF TypeOK
  <1>2. \A i \in Ips : i # IpOf[k] => Holders(i)' = Holders(i)
    BY <1>1 DEF Holders
  <1>3. CASE (Holds(d) <=> Holds(conn[k])) /\ counts' = counts
    <2>1. \A i \in Ips : Holders(i)' = Holders(i)
      BY <1>1, <1>3 DEF Holders
    <2> QED
      BY <1>3, <2>1 DEF SlotInv
  <1>4. CASE Holds(d) /\ ~Holds(conn[k]) /\ CanAcquire(IpOf[k]) /\ Acquire(IpOf[k])
    <2>1. k \notin Holders(IpOf[k]) /\ Holders(IpOf[k])' = Holders(IpOf[k]) \cup {k}
      BY <1>1, <1>4 DEF Holders
    <2>2. /\ Counted(counts'[IpOf[k]], Holders(IpOf[k]) \cup {k})
          /\ \A i \in Ips : i # IpOf[k] => counts'[i] = counts[i]
      BY <1>0, <1>4, <2>1, AcquireCounted DEF SlotInv
    <2> QED
      BY <1>2, <2>1, <2>2 DEF SlotInv
  <1>5. CASE ~Holds(d) /\ Holds(conn[k]) /\ Release(IpOf[k])
    <2>1. k \in Holders(IpOf[k]) /\ Holders(IpOf[k])' = Holders(IpOf[k]) \ {k}
      BY <1>1, <1>5 DEF Holders
    <2>2. /\ Counted(counts'[IpOf[k]], Holders(IpOf[k]) \ {k})
          /\ \A i \in Ips : i # IpOf[k] => counts'[i] = counts[i]
      BY <1>0, <1>5, <2>1, ReleaseCounted DEF SlotInv
    <2> QED
      BY <1>2, <2>1, <2>2 DEF SlotInv
  <1> QED
    BY <1>3, <1>4, <1>5

\* Every step keeps the counts right: a slot is given back when the handler
\* ends, unless logging the end fails, and then it is held for ever.
LEMMA SlotStep ==
    ASSUME DialogueInv, SlotInv, NEW k \in Conns, Step(k)
    PROVE  SlotInv'
  <1>0. TypeOK /\ IsHandler(conn[k]) /\ conn \in [Conns -> {conn[j] : j \in Conns}]
    BY DEF DialogueInv, TypeOK
  <1>1. ASSUME NEW items, Connect(k, items) PROVE SlotInv'
    <2> DEFINE d == [conn[k] EXCEPT !.state = "reading", !.items = items, !.rest = Bytes(items)]
    <2>1. conn' = [conn EXCEPT ![k] = d] /\ d.state = "reading"
      BY <1>0, <1>1 DEF Connect, IsHandler
    <2> HIDE DEF d
    <2>2. Holds(d) /\ ~Holds(conn[k])
      BY <1>1, <2>1 DEF Connect, Holds, Closed
    <2> QED
      BY <1>0, <1>1, <2>1, <2>2, SlotMove DEF Connect
  <1>2. CASE Reject(k)
    <2> DEFINE d == [conn[k] EXCEPT !.state = "rejected"]
    <2>1. conn' = [conn EXCEPT ![k] = d] /\ d.state = "rejected"
      BY <1>0, <1>2 DEF Reject, IsHandler
    <2> HIDE DEF d
    <2>2. ~Holds(d) /\ ~Holds(conn[k])
      BY <1>2, <2>1 DEF Reject, Holds, Closed
    <2> QED
      BY <1>0, <1>2, <2>1, <2>2, SlotMove DEF Reject
  <1>3. CASE ConnectFails(k)
    <2> DEFINE d == [conn[k] EXCEPT !.state = "failed"]
    <2>1. conn' = [conn EXCEPT ![k] = d] /\ d.state = "failed"
      BY <1>0, <1>3 DEF ConnectFails, IsHandler
    <2> HIDE DEF d
    <2>2. Holds(d) /\ ~Holds(conn[k])
      BY <1>3, <2>1 DEF ConnectFails, Holds, Closed
    <2> QED
      BY <1>0, <1>3, <2>1, <2>2, SlotMove DEF ConnectFails
  <1>4. CASE Open(k) /\ Ends(k)
    <2>1. PICK c : Handler(c) /\ c.state \in EndState /\ End(k, c)
      BY <1>4 DEF Ends
    <2>2. Holds(conn[k])
      BY <1>4 DEF Open, Holds
    <2>3. CASE conn' = [conn EXCEPT ![k] = c] /\ c.state \in Closed /\ Release(IpOf[k])
      <3>1. ~Holds(c)
        BY <2>1, <2>3 DEF Holds, EndState
      <3> QED
        BY <1>0, <2>2, <2>3, <3>1, SlotMove
    <2>4. CASE conn' = [conn EXCEPT ![k] = c] /\ c.state \notin Closed /\ counts' = counts
      BY <1>0, <2>2, <2>4, SlotMove DEF Holds
    <2>5. CASE conn' = [conn EXCEPT ![k] = [c EXCEPT !.state = "failed"]] /\ counts' = counts
      <3> DEFINE d == [c EXCEPT !.state = "failed"]
      <3>1. d.state = "failed"
        BY <2>1 DEF Handler, IsHandler
      <3> HIDE DEF d
      <3>2. Holds(d) /\ conn' = [conn EXCEPT ![k] = d]
        BY <2>5, <3>1 DEF Holds, d
      <3> QED
        BY <1>0, <2>2, <2>5, <3>2, SlotMove
    <2> QED
      BY <2>1, <2>3, <2>4, <2>5 DEF End
  <1> QED
    BY <1>1, <1>2, <1>3, <1>4, StepKinds

\* An address's count is the number of connections that hold a slot, and within
\* the cap, over any sequence of connects, failures and ends.
THEOREM SlotsExact == Spec => []SlotsAccounted
  <1>1. Init => SlotInv
    <2> SUFFICES ASSUME Init, NEW i \in Ips PROVE Counted(counts[i], Holders(i))
      BY DEF SlotInv
    <2>1. counts[i] = 0 /\ Holders(i) = {}
      BY DEF Init, Holders, Holds, Closed
    <2> QED
      BY <2>1, NoneCounted
  <1>2. SlotInv /\ UNCHANGED vars => SlotInv'
    BY DEF SlotInv, Holders, Holds, vars
  <1>3. DialogueInv /\ SlotInv /\ [Next]_vars => SlotInv'
    BY <1>2, SlotStep DEF Next, Step
  <1>4. SlotInv => SlotsAccounted
    BY DEF SlotInv, Counted, SlotsAccounted, Holders, Holds, Open
  <1> QED
    BY <1>1, <1>3, <1>4, DialogueInductive, PTL DEF Spec

-----------------------------------------------------------------------------
(* Induction and folds.  The folds of the model and their steps have names  *)
(* of their own: the provers cannot instantiate an operator parameter.      *)

\* What an item adds to what the client says, as in LinesOf.
SayItem(said, item) ==
    CASE item = "nl" -> [lines |-> Append(said.lines, said.line), line |-> << >>]
      [] item = "ff" -> [said EXCEPT !.line = Append(@, "IAC")]
      [] item \in {"r", "x"} -> [said EXCEPT !.line = Append(@, item)]
      [] OTHER -> said

ReadAll(b, w) == FoldLeft(ReadByte, b, w)
SayAll(b, w) == FoldLeft(LAMBDA said, item : SayItem(said, item), b, w)

ReadChain(b, w, n, X) ==
    \E g \in [0 .. n -> X] : /\ g[0] = b
                             /\ \A m \in 1 .. n : g[m] = ReadByte(g[m - 1], w[m])
                             /\ ReadAll(b, w) = g[n]

SayChain(b, w, n, X) ==
    \E g \in [0 .. n -> X] : /\ g[0] = b
                             /\ \A m \in 1 .. n : g[m] = SayItem(g[m - 1], w[m])
                             /\ SayAll(b, w) = g[n]

\* Induction over the naturals, in the form the provers can apply: a set of
\* naturals that is not empty has a least element.
LEMMA LeastNatural ==
    ASSUME NEW T \in SUBSET Nat, T # {}
    PROVE  \E x \in T : \A y \in T : x <= y
  <1> DEFINE R == OpToRel(<, Nat)
  <1>1. IsWellFoundedOn(R, Nat)
    BY NatLessThanWellFounded
  <1>2. \A x, y \in Nat : y < x => <<y, x>> \in R
    BY DEF OpToRel
  <1> HIDE DEF R
  <1>3. PICK x \in T : \A y \in T : <<y, x>> \notin R
    BY <1>1, WFMin
  <1>4. ASSUME NEW y \in T PROVE x <= y
    <2>1. x \in Nat /\ y \in Nat
      OBVIOUS
    <2>2. ~(y < x)
      BY <1>2, <1>3, <2>1
    <2> QED
      BY <2>1, <2>2
  <1> QED
    BY <1>4

\* What holds of 0 and passes from one place to the next holds of all.
LEMMA Climb ==
    ASSUME NEW n \in Nat, NEW P, 0 \in P, \A i \in 1 .. n : i - 1 \in P => i \in P
    PROVE  \A i \in 0 .. n : i \in P
  <1> DEFINE T == {i \in 0 .. n : i \notin P}
  <1> SUFFICES ASSUME T # {} PROVE FALSE
    OBVIOUS
  <1>1. T \in SUBSET Nat
    OBVIOUS
  <1>2. PICK x \in T : \A y \in T : x <= y
    BY ONLY <1>1, T # {}, LeastNatural
  <1>3. x \in 0 .. n /\ x \notin P
    BY ONLY <1>2 DEF T
  <1>4. x # 0
    BY ONLY <1>3, 0 \in P
  <1>5. x \in 1 .. n /\ x - 1 \in 0 .. n /\ ~(x <= x - 1)
    BY ONLY <1>3, <1>4, n \in Nat
  <1>6. x - 1 \notin T
    BY ONLY <1>2, <1>5
  <1>7. x - 1 \in P
    BY ONLY <1>5, <1>6 DEF T
  <1> QED
    BY ONLY <1>3, <1>5, <1>7, \A i \in 1 .. n : i - 1 \in P => i \in P

\* The greatest place of a set of places that holds n and none after it.
LEMMA MaxIs ==
    ASSUME NEW n \in Nat, NEW s \in SUBSET (1 .. n), n \in s
    PROVE  Max(s) = n
  <1>1. \A y \in s : n >= y
    OBVIOUS
  <1>2. \A x \in s : (\A y \in s : x >= y) => x = n
    OBVIOUS
  <1> QED
    BY <1>1, <1>2 DEF Max

\* A set of places that is not empty has a greatest one.
LEMMA MaxIn ==
    ASSUME NEW n \in Nat, NEW s \in SUBSET (1 .. n), s # {}
    PROVE  Max(s) \in s
  <1> DEFINE T == {i \in Nat : \A y \in s : y <= i}
  <1>1. T \in SUBSET Nat /\ n \in T
    OBVIOUS
  <1>2. PICK x \in T : \A y \in T : x <= y
    BY ONLY <1>1, LeastNatural
  <1>3. x \in Nat /\ \A y \in s : y \in Nat /\ y >= 1 /\ y <= x
    BY <1>2
  <1>4. x \in s
    <2> SUFFICES ASSUME x \notin s PROVE FALSE
      OBVIOUS
    <2>1. x # 0
      <3>1. PICK y \in s : TRUE
        BY ONLY s # {}
      <3> QED
        BY ONLY <1>3, <3>1
    <2>2. x - 1 \in Nat /\ \A y \in s : y <= x - 1
      BY <1>3, <2>1
    <2>3. x - 1 \in T
      BY ONLY <2>2 DEF T
    <2> QED
      BY ONLY <1>2, <1>3, <2>3
  <1>5. \E z \in s : \A y \in s : z >= y
    BY <1>3, <1>4
  <1> QED
    BY ONLY <1>5 DEF Max

\* The places of a sequence up to one of them.
LEMMA UpTo ==
    ASSUME NEW l \in Nat, NEW n \in 1 .. l
    PROVE  /\ n \in Nat /\ 1 .. n \in SUBSET (1 .. l) /\ 1 .. n # {} /\ n \in 1 .. n
           /\ (1 .. n) \ {n} = 1 .. (n - 1)
           /\ n \in 0 .. l /\ n - 1 \in 0 .. l
  <1>1. n \in Nat /\ n \in 1 .. n /\ n \in 0 .. l /\ n - 1 \in 0 .. l
    OBVIOUS
  <1>2. 1 .. n \in SUBSET (1 .. l) /\ 1 .. n # {}
    <2>1. \A i \in 1 .. n : i \in 1 .. l
      OBVIOUS
    <2> QED
      BY ONLY <1>1, <2>1
  <1>3. (1 .. n) \ {n} = 1 .. (n - 1)
    BY <1>1
  <1> QED
    BY <1>1, <1>2, <1>3

\* The recursive function behind FoldLeft exists, for a step that stays in X.
Recurs(h, n, b, G) ==
    \A s \in SUBSET (1 .. n) : h[s] = IF s = {} THEN b ELSE G[<<h[s \ {Max(s)}], Max(s)>>]

Recursive(n, X, b, G) == \E h \in [SUBSET (1 .. n) -> X] : Recurs(h, n, b, G)

\* By recursion on the number of places.
LEMMA FoldExists ==
    ASSUME NEW n \in Nat, NEW X, NEW b \in X, NEW G \in [X \X (1 .. n) -> X]
    PROVE  Recursive(n, X, b, G)
  <1> DEFINE P == {m \in 0 .. n : Recursive(m, X, b, G)}
  <1>1. 0 \in P
    <2> DEFINE h == [s \in SUBSET (1 .. 0) |-> b]
    <2>1. \A s \in SUBSET (1 .. 0) : s = {}
      OBVIOUS
    <2>2. h \in [SUBSET (1 .. 0) -> X] /\ Recurs(h, 0, b, G)
      BY <2>1 DEF Recurs
    <2>3. Recursive(0, X, b, G)
      BY <2>2 DEF Recursive
    <2> QED
      BY <2>3
  <1>2. ASSUME NEW m \in 1 .. n, m - 1 \in P PROVE m \in P
    <2>1. PICK h \in [SUBSET (1 .. (m - 1)) -> X] : Recurs(h, m - 1, b, G)
      BY <1>2 DEF Recursive
    <2>2. m \in Nat /\ m \in 0 .. n
      OBVIOUS
    <2> DEFINE k == [s \in SUBSET (1 .. m) |-> IF m \in s THEN G[<<h[s \ {m}], m>>] ELSE h[s]]
    <2>3. \A s \in SUBSET (1 .. m) : s \ {m} \in SUBSET (1 .. (m - 1)) /\ (m \notin s => s \ {m} = s)
      BY ONLY <2>2
    <2>4. k \in [SUBSET (1 .. m) -> X]
      <3>1. ASSUME NEW s \in SUBSET (1 .. m)
            PROVE  (IF m \in s THEN G[<<h[s \ {m}], m>>] ELSE h[s]) \in X
        BY ONLY <2>1, <2>3, m \in 1 .. n, G \in [X \X (1 .. n) -> X], s \in SUBSET (1 .. m)
      <3> QED
        BY <3>1
    <2>5. ASSUME NEW s \in SUBSET (1 .. m)
          PROVE  k[s] = IF s = {} THEN b ELSE G[<<k[s \ {Max(s)}], Max(s)>>]
      <3>1. CASE m \in s
        <4>1. Max(s) = m /\ s # {} /\ s \ {m} \in SUBSET (1 .. m) /\ m \notin s \ {m}
          BY <2>2, <3>1, MaxIs
        <4>2. k[s] = G[<<h[s \ {m}], m>>] /\ k[s \ {m}] = h[s \ {m}]
          BY <3>1, <4>1
        <4> HIDE DEF k
        <4> QED
          BY <4>1, <4>2
      <3>2. CASE m \notin s
        <4>1. s \in SUBSET (1 .. (m - 1))
          BY <2>3, <3>2
        <4>2. s \ {Max(s)} \in SUBSET (1 .. m) /\ m \notin s \ {Max(s)}
          BY <3>2
        <4>3. k[s] = h[s] /\ k[s \ {Max(s)}] = h[s \ {Max(s)}]
          BY <3>2, <4>2
        <4> HIDE DEF k
        <4> QED
          BY <2>1, <4>1, <4>3 DEF Recurs
      <3> QED
        BY <3>1, <3>2
    <2> HIDE DEF k
    <2>6. Recurs(k, m, b, G)
      BY <2>5 DEF Recurs
    <2>7. Recursive(m, X, b, G)
      BY ONLY <2>4, <2>6 DEF Recursive
    <2> QED
      BY <2>2, <2>7
  <1> HIDE DEF P
  <1>3. n \in P
    <2>1. n \in 0 .. n
      OBVIOUS
    <2> QED
      BY <1>1, <1>2, <2>1, Climb
  <1> QED
    BY ONLY <1>3 DEF P

\* The values such a function has on the places up to each place stay in X.
LEMMA StaysIn ==
    ASSUME NEW n \in Nat, NEW X, NEW f, f[{}] \in X,
           \A m \in 1 .. n : f[1 .. (m - 1)] \in X => f[1 .. m] \in X
    PROVE  \A m \in 0 .. n : f[1 .. m] \in X
  <1> DEFINE P == {m \in 0 .. n : f[1 .. m] \in X}
  <1>1. 0 \in P
    <2>1. 1 .. 0 = {}
      OBVIOUS
    <2> QED
      BY <2>1
  <1>2. \A m \in 1 .. n : m - 1 \in P => m \in P
    OBVIOUS
  <1> HIDE DEF P
  <1>3. \A m \in 0 .. n : m \in P
    BY <1>1, <1>2, Climb
  <1> QED
    BY <1>3 DEF P

\* The values of such a function on the places up to each place, one after the
\* other.
Follows(f, n, X, G) ==
    \A s \in SUBSET (1 .. n) :
       s # {} /\ f[s \ {Max(s)}] \in X => f[s] = G[<<f[s \ {Max(s)}], Max(s)>>]

Chained(n, X, b, G, v) ==
    \E g \in [0 .. n -> X] : /\ g[0] = b
                             /\ \A m \in 1 .. n : g[m] = G[<<g[m - 1], m>>]
                             /\ v = g[n]

\* The value on all places is the last of a sequence of steps from b.
LEMMA FoldChain ==
    ASSUME NEW n \in Nat, NEW X, NEW b \in X, NEW G \in [X \X (1 .. n) -> X],
           NEW f, f[{}] = b, Follows(f, n, X, G)
    PROVE  Chained(n, X, b, G, f[1 .. n])
  <1>1. ASSUME NEW m \in 1 .. n, f[1 .. (m - 1)] \in X
        PROVE  f[1 .. m] = G[<<f[1 .. (m - 1)], m>>] /\ f[1 .. m] \in X
    <2>1. /\ m \in Nat /\ 1 .. m \in SUBSET (1 .. n) /\ 1 .. m # {} /\ m \in 1 .. m
          /\ (1 .. m) \ {m} = 1 .. (m - 1)
      BY ONLY n \in Nat, m \in 1 .. n, UpTo
    <2>2. Max(1 .. m) = m
      BY ONLY <2>1, MaxIs
    <2>3. (1 .. m) \ {Max(1 .. m)} = 1 .. (m - 1)
      BY ONLY <2>1, <2>2
    <2>4. f[1 .. m] = G[<<f[1 .. (m - 1)], m>>]
      <3>1. f[1 .. m] = G[<<f[(1 .. m) \ {Max(1 .. m)}], Max(1 .. m)>>]
        BY <1>1, <2>1, <2>3 DEF Follows
      <3> QED
        BY ONLY <2>2, <2>3, <3>1
    <2> QED
      BY ONLY <1>1, <2>4, m \in 1 .. n, G \in [X \X (1 .. n) -> X]
  <1>2. \A m \in 0 .. n : f[1 .. m] \in X
    BY <1>1, StaysIn
  <1> DEFINE g == [m \in 0 .. n |-> f[1 .. m]]
  <1>3. g \in [0 .. n -> X]
    BY ONLY <1>2
  <1>4. g[0] = b
    <2>1. 1 .. 0 = {} /\ 0 \in 0 .. n
      BY ONLY n \in Nat
    <2> QED
      BY ONLY f[{}] = b, <2>1
  <1>5. \A m \in 1 .. n : g[m] = G[<<g[m - 1], m>>]
    <2>1. \A m \in 1 .. n : m \in 0 .. n /\ m - 1 \in 0 .. n
      BY ONLY n \in Nat
    <2> QED
      BY ONLY <1>1, <1>2, <2>1
  <1>6. f[1 .. n] = g[n]
    <2>1. n \in 0 .. n
      BY ONLY n \in Nat
    <2> QED
      BY ONLY <2>1
  <1> HIDE DEF g
  <1> QED
    BY ONLY <1>3, <1>4, <1>5, <1>6 DEF Chained

\* A sequence of steps from b.
Stepwise(n, X, b, G) ==
    \E g \in [0 .. n -> X] : g[0] = b /\ \A m \in 1 .. n : g[m] = G[<<g[m - 1], m>>]

\* Such a sequence exists for every step function on X.
LEMMA StepsExist ==
    ASSUME NEW n \in Nat, NEW X, NEW b \in X, NEW G \in [X \X (1 .. n) -> X]
    PROVE  Stepwise(n, X, b, G)
  <1>1. PICK h \in [SUBSET (1 .. n) -> X] : Recurs(h, n, b, G)
    BY FoldExists DEF Recursive
  <1>2. h[{}] = b /\ Follows(h, n, X, G)
    BY ONLY <1>1 DEF Recurs, Follows
  <1>3. Chained(n, X, b, G, h[1 .. n])
    BY ONLY <1>2, n \in Nat, b \in X, G \in [X \X (1 .. n) -> X], FoldChain
  <1> QED
    BY ONLY <1>3 DEF Chained, Stepwise

\* The bytes of a chunk, one after the other (telnet.py, read_line).
LEMMA ReadFold ==
    ASSUME NEW X, NEW b \in X, NEW n \in Nat, NEW w, DOMAIN w = 1 .. n,
           \A x \in X : \A m \in 1 .. n : ReadByte(x, w[m]) \in X
    PROVE  ReadChain(b, w, n, X)
  <1> DEFINE Op(x, y) == ReadByte(x, y)
             G == [p \in X \X (1 .. n) |-> Op(p[1], w[p[2]])]
             Body(h, s) == IF s = {} THEN b ELSE Op(h[s \ {Max(s)}], w[Max(s)])
             iter == CHOOSE f : f = [s \in SUBSET (DOMAIN w) |-> Body(f, s)]
  <1>1. \A x \in X : \A m \in 1 .. n : Op(x, w[m]) \in X
    OBVIOUS
  <1>2. ReadAll(b, w) = iter[DOMAIN w]
    BY DEF FoldLeft, MapThenFoldSet, ReadAll
  <1> HIDE DEF Op
  <1>3. G \in [X \X (1 .. n) -> X] /\ \A x \in X : \A m \in 1 .. n : G[<<x, m>>] = Op(x, w[m])
    BY ONLY <1>1
  <1> HIDE DEF G
  <1>4. \E h : h = [s \in SUBSET (1 .. n) |-> Body(h, s)]
    <2>1. PICK h \in [SUBSET (1 .. n) -> X] : Recurs(h, n, b, G)
      BY ONLY <1>3, b \in X, n \in Nat, FoldExists DEF Recursive
    <2>2. ASSUME NEW s \in SUBSET (1 .. n) PROVE h[s] = Body(h, s)
      <3>1. s # {} => Max(s) \in 1 .. n /\ h[s \ {Max(s)}] \in X
        BY ONLY <2>1, n \in Nat, s \in SUBSET (1 .. n), MaxIn
      <3>2. h[s] = IF s = {} THEN b ELSE G[<<h[s \ {Max(s)}], Max(s)>>]
        BY ONLY <2>1, s \in SUBSET (1 .. n) DEF Recurs
      <3> QED
        BY ONLY <1>3, <3>1, <3>2
    <2>3. h = [s \in SUBSET (1 .. n) |-> Body(h, s)]
      BY ONLY <2>1, <2>2
    <2> QED
      BY ONLY <2>3
  <1>5. iter = [s \in SUBSET (1 .. n) |-> Body(iter, s)]
    BY ONLY <1>4, DOMAIN w = 1 .. n
  <1>6. \A s \in SUBSET (1 .. n) : iter[s] = Body(iter, s)
    BY ONLY <1>5
  <1> HIDE DEF iter
  <1>7. iter[{}] = b
    BY ONLY <1>6
  <1>8. ASSUME NEW s \in SUBSET (1 .. n), s # {}, iter[s \ {Max(s)}] \in X
        PROVE  iter[s] = G[<<iter[s \ {Max(s)}], Max(s)>>]
    <2>1. Max(s) \in 1 .. n
      BY ONLY n \in Nat, s \in SUBSET (1 .. n), s # {}, MaxIn
    <2>2. iter[s] = Op(iter[s \ {Max(s)}], w[Max(s)])
      BY ONLY <1>6, s \in SUBSET (1 .. n), s # {}
    <2> QED
      BY ONLY <1>3, <1>8, <2>1, <2>2
  <1>9. PICK g \in [0 .. n -> X] : /\ g[0] = b
                                   /\ \A m \in 1 .. n : g[m] = G[<<g[m - 1], m>>]
                                   /\ iter[1 .. n] = g[n]
    <2>1. Follows(iter, n, X, G)
      BY ONLY <1>8 DEF Follows
    <2>2. Chained(n, X, b, G, iter[1 .. n])
      BY ONLY <1>3, <1>7, <2>1, b \in X, n \in Nat, FoldChain
    <2> QED
      BY ONLY <2>2 DEF Chained
  <1>10. \A m \in 1 .. n : g[m] = Op(g[m - 1], w[m])
    <2>1. \A m \in 1 .. n : m - 1 \in 0 .. n
      BY ONLY n \in Nat
    <2> QED
      BY ONLY <1>3, <1>9, <2>1
  <1> QED
    BY <1>2, <1>9, <1>10 DEF Op, ReadChain

\* What a client says, item by item.
LEMMA SayFold ==
    ASSUME NEW X, NEW b \in X, NEW n \in Nat, NEW w, DOMAIN w = 1 .. n,
           \A x \in X : \A m \in 1 .. n : SayItem(x, w[m]) \in X
    PROVE  SayChain(b, w, n, X)
  <1> DEFINE Op(x, y) == SayItem(x, y)
             G == [p \in X \X (1 .. n) |-> Op(p[1], w[p[2]])]
             Body(h, s) == IF s = {} THEN b ELSE Op(h[s \ {Max(s)}], w[Max(s)])
             iter == CHOOSE f : f = [s \in SUBSET (DOMAIN w) |-> Body(f, s)]
  <1>1. \A x \in X : \A m \in 1 .. n : Op(x, w[m]) \in X
    OBVIOUS
  <1>2. SayAll(b, w) = iter[DOMAIN w]
    BY DEF FoldLeft, MapThenFoldSet, SayAll
  <1> HIDE DEF Op
  <1>3. G \in [X \X (1 .. n) -> X] /\ \A x \in X : \A m \in 1 .. n : G[<<x, m>>] = Op(x, w[m])
    BY ONLY <1>1
  <1> HIDE DEF G
  <1>4. \E h : h = [s \in SUBSET (1 .. n) |-> Body(h, s)]
    <2>1. PICK h \in [SUBSET (1 .. n) -> X] : Recurs(h, n, b, G)
      BY ONLY <1>3, b \in X, n \in Nat, FoldExists DEF Recursive
    <2>2. ASSUME NEW s \in SUBSET (1 .. n) PROVE h[s] = Body(h, s)
      <3>1. s # {} => Max(s) \in 1 .. n /\ h[s \ {Max(s)}] \in X
        BY ONLY <2>1, n \in Nat, s \in SUBSET (1 .. n), MaxIn
      <3>2. h[s] = IF s = {} THEN b ELSE G[<<h[s \ {Max(s)}], Max(s)>>]
        BY ONLY <2>1, s \in SUBSET (1 .. n) DEF Recurs
      <3> QED
        BY ONLY <1>3, <3>1, <3>2
    <2>3. h = [s \in SUBSET (1 .. n) |-> Body(h, s)]
      BY ONLY <2>1, <2>2
    <2> QED
      BY ONLY <2>3
  <1>5. iter = [s \in SUBSET (1 .. n) |-> Body(iter, s)]
    BY ONLY <1>4, DOMAIN w = 1 .. n
  <1>6. \A s \in SUBSET (1 .. n) : iter[s] = Body(iter, s)
    BY ONLY <1>5
  <1> HIDE DEF iter
  <1>7. iter[{}] = b
    BY ONLY <1>6
  <1>8. ASSUME NEW s \in SUBSET (1 .. n), s # {}, iter[s \ {Max(s)}] \in X
        PROVE  iter[s] = G[<<iter[s \ {Max(s)}], Max(s)>>]
    <2>1. Max(s) \in 1 .. n
      BY ONLY n \in Nat, s \in SUBSET (1 .. n), s # {}, MaxIn
    <2>2. iter[s] = Op(iter[s \ {Max(s)}], w[Max(s)])
      BY ONLY <1>6, s \in SUBSET (1 .. n), s # {}
    <2> QED
      BY ONLY <1>3, <1>8, <2>1, <2>2
  <1>9. PICK g \in [0 .. n -> X] : /\ g[0] = b
                                   /\ \A m \in 1 .. n : g[m] = G[<<g[m - 1], m>>]
                                   /\ iter[1 .. n] = g[n]
    <2>1. Follows(iter, n, X, G)
      BY ONLY <1>8 DEF Follows
    <2>2. Chained(n, X, b, G, iter[1 .. n])
      BY ONLY <1>3, <1>7, <2>1, b \in X, n \in Nat, FoldChain
    <2> QED
      BY ONLY <2>2 DEF Chained
  <1>10. \A m \in 1 .. n : g[m] = Op(g[m - 1], w[m])
    <2>1. \A m \in 1 .. n : m - 1 \in 0 .. n
      BY ONLY n \in Nat
    <2> QED
      BY ONLY <1>3, <1>9, <2>1
  <1> QED
    BY <1>2, <1>9, <1>10 DEF Op, SayChain

-----------------------------------------------------------------------------
(* What the bytes of a stream mean, whatever the chunks (telnet.py).         *)

Byte == {"IAC", "DO", "SB", "SE", "NOP", "CR", "LF", "r", "x"}
Filter == {"normal", "iac", "cmd", "subneg", "subneg_iac"}
Decoded == [iac : Filter, line : Seq(Byte), lines : Seq(Seq(Byte))]

\* The state of the filter, the line begun and the lines after one more byte,
\* for a reader that drops nothing.
DecodeByte(s, byte) ==
    LET data == FeedData(s.iac, byte)
        fed == [s EXCEPT !.iac = FeedState(s.iac, byte)]
    IN  IF data \in {"none", "CR"} THEN fed
        ELSE IF data = "LF" THEN [fed EXCEPT !.lines = Append(s.lines, s.line), !.line = << >>]
        ELSE [fed EXCEPT !.line = Append(s.line, data)]

NothingRead == [iac |-> "normal", line |-> << >>, lines |-> << >>]

\* g goes through the bytes w.
Decodes(g, w) ==
    /\ g \in [0 .. Len(w) -> Decoded]
    /\ g[0] = NothingRead
    /\ \A m \in 1 .. Len(w) : g[m] = DecodeByte(g[m - 1], w[m])

\* The filter's next state and the data byte.
LEMMA FeedIs ==
    ASSUME NEW s \in Filter, NEW byte \in Byte
    PROVE  /\ FeedState(s, byte) \in Filter
           /\ FeedData(s, byte) \in {byte, "none"}
  <1>1. FeedState(s, byte) \in Filter
    BY DEF FeedState, Filter
  <1>2. FeedData(s, byte) \in {byte, "none"}
    BY DEF FeedData
  <1> QED
    BY ONLY <1>1, <1>2

\* The fields after one more byte.
LEMMA DecodeIs ==
    ASSUME NEW s \in Decoded, NEW byte \in Byte
    PROVE  /\ DecodeByte(s, byte) \in Decoded
           /\ DecodeByte(s, byte).iac = FeedState(s.iac, byte)
           /\ FeedData(s.iac, byte) \in {"none", "CR"} =>
                 DecodeByte(s, byte).line = s.line /\ DecodeByte(s, byte).lines = s.lines
           /\ FeedData(s.iac, byte) = "LF" =>
                 DecodeByte(s, byte).line = << >> /\ DecodeByte(s, byte).lines = Append(s.lines, s.line)
           /\ FeedData(s.iac, byte) \notin {"none", "CR", "LF"} =>
                 /\ DecodeByte(s, byte).line = Append(s.line, FeedData(s.iac, byte))
                 /\ DecodeByte(s, byte).lines = s.lines
  <1> DEFINE data == FeedData(s.iac, byte)
             next == FeedState(s.iac, byte)
             a == Append(s.lines, s.line)
             l == Append(s.line, data)
             d == DecodeByte(s, byte)
  <1>1. s.iac \in Filter /\ s.line \in Seq(Byte) /\ s.lines \in Seq(Seq(Byte))
    BY ONLY s \in Decoded DEF Decoded
  <1>2. next \in Filter /\ data \in {byte, "none"}
    BY ONLY <1>1, byte \in Byte, FeedIs
  <1>3. a \in Seq(Seq(Byte)) /\ << >> \in Seq(Byte)
    BY ONLY <1>1
  <1>4. data # "none" => l \in Seq(Byte)
    BY ONLY <1>1, <1>2, byte \in Byte
  <1>5. CASE data \in {"none", "CR"}
    <2>1. d = [s EXCEPT !.iac = next]
      BY ONLY <1>5 DEF DecodeByte
    <2> HIDE DEF d, data, next
    <2>2. d \in Decoded /\ d.iac = next /\ d.line = s.line /\ d.lines = s.lines
      BY ONLY <1>2, <2>1, s \in Decoded DEF Decoded
    <2> QED
      BY ONLY <1>5, <2>2 DEF d, data, next
  <1>6. CASE data = "LF"
    <2>1. d = [s EXCEPT !.iac = next, !.lines = a, !.line = << >>]
      BY ONLY <1>6, s \in Decoded DEF DecodeByte, Decoded
    <2> HIDE DEF d, data, next, a
    <2>2. d \in Decoded /\ d.iac = next /\ d.line = << >> /\ d.lines = a
      BY ONLY <1>2, <1>3, <2>1, s \in Decoded DEF Decoded
    <2> QED
      BY ONLY <1>6, <2>2 DEF d, data, next, a
  <1>7. CASE data \notin {"none", "CR", "LF"}
    <2>1. d = [s EXCEPT !.iac = next, !.line = l]
      BY ONLY <1>7, s \in Decoded DEF DecodeByte, Decoded
    <2> HIDE DEF d, data, next, l
    <2>2. d \in Decoded /\ d.iac = next /\ d.line = l /\ d.lines = s.lines
      BY ONLY <1>2, <1>4, <1>7, <2>1, s \in Decoded DEF Decoded
    <2> QED
      BY ONLY <1>7, <2>2 DEF d, data, next, l
  <1> QED
    BY ONLY <1>5, <1>6, <1>7

\* Every sequence of bytes can be gone through.
LEMMA DecodesExist ==
    ASSUME NEW w \in Seq(Byte)
    PROVE  \E g : Decodes(g, w)
  <1> DEFINE n == Len(w)
             G == [p \in Decoded \X (1 .. n) |-> DecodeByte(p[1], w[p[2]])]
  <1>1. n \in Nat /\ \A m \in 1 .. n : w[m] \in Byte
    BY ONLY w \in Seq(Byte), LenProperties, ElementOfSeq
  <1>2. \A x \in Decoded : \A m \in 1 .. n : DecodeByte(x, w[m]) \in Decoded
    BY ONLY <1>1, DecodeIs
  <1>3. /\ G \in [Decoded \X (1 .. n) -> Decoded]
        /\ \A x \in Decoded : \A m \in 1 .. n : G[<<x, m>>] = DecodeByte(x, w[m])
    BY ONLY <1>2
  <1> HIDE DEF G
  <1>4. NothingRead \in Decoded
    <2>1. << >> \in Seq(Byte) /\ << >> \in Seq(Seq(Byte))
      BY ONLY TRUE
    <2> QED
      BY ONLY <2>1 DEF NothingRead, Decoded, Filter
  <1>5. PICK g \in [0 .. n -> Decoded] : /\ g[0] = NothingRead
                                         /\ \A m \in 1 .. n : g[m] = G[<<g[m - 1], m>>]
    <2>1. n \in Nat /\ NothingRead \in Decoded /\ G \in [Decoded \X (1 .. n) -> Decoded]
      BY ONLY <1>1, <1>3, <1>4
    <2> HIDE DEF n
    <2>2. Stepwise(n, Decoded, NothingRead, G)
      BY ONLY <2>1, StepsExist
    <2> QED
      BY ONLY <2>2 DEF Stepwise
  <1>6. \A m \in 1 .. n : g[m] = DecodeByte(g[m - 1], w[m])
    <2>1. \A m \in 1 .. n : m - 1 \in 0 .. n
      BY ONLY <1>1
    <2> QED
      BY ONLY <1>3, <1>5, <2>1
  <1> QED
    BY ONLY <1>5, <1>6 DEF Decodes

\* t begins with s.
Continues(s, t) == Len(s) <= Len(t) /\ \A q \in 1 .. Len(s) : t[q] = s[q]

\* Lines are only added.
LEMMA LinesGrow ==
    ASSUME NEW w \in Seq(Byte), NEW g, Decodes(g, w), NEW i \in 0 .. Len(w)
    PROVE  Continues(g[i].lines, g[Len(w)].lines)
  <1> DEFINE n == Len(w)
             P == {m \in 0 .. n - i : Continues(g[i].lines, g[i + m].lines)}
  <1>1. n \in Nat /\ \A m \in 1 .. n : w[m] \in Byte
    BY ONLY w \in Seq(Byte), LenProperties, ElementOfSeq
  <1>2. /\ g \in [0 .. n -> Decoded]
        /\ \A m \in 1 .. n : g[m] = DecodeByte(g[m - 1], w[m])
    BY ONLY Decodes(g, w) DEF Decodes
  <1>3. \A m \in 0 .. n : g[m] \in Decoded /\ g[m].lines \in Seq(Seq(Byte)) /\ Len(g[m].lines) \in Nat
    <2>1. \A m \in 0 .. n : g[m] \in Decoded
      BY ONLY <1>2
    <2>2. \A x \in Decoded : x.lines \in Seq(Seq(Byte))
      BY ONLY DEF Decoded
    <2>3. \A s \in Seq(Seq(Byte)) : Len(s) \in Nat
      BY ONLY LenProperties
    <2> QED
      BY ONLY <2>1, <2>2, <2>3
  <1> HIDE DEF n
  <1>4. i \in Nat /\ n - i \in Nat /\ i + (n - i) = n /\ n - i \in 0 .. n - i
    BY ONLY <1>1, i \in 0 .. Len(w) DEF n
  <1>5. 0 \in P
    <2>1. i + 0 = i /\ 0 \in 0 .. n - i
      BY ONLY <1>4
    <2>2. Continues(g[i].lines, g[i].lines)
      <3>1. Len(g[i].lines) \in Nat
        BY ONLY <1>3, i \in 0 .. Len(w) DEF n
      <3> QED
        BY ONLY <3>1 DEF Continues
    <2> QED
      BY ONLY <2>1, <2>2
  <1>6. ASSUME NEW m \in 1 .. n - i, m - 1 \in P PROVE m \in P
    <2> DEFINE s == g[i].lines
               x == g[i + (m - 1)]
               y == g[i + m]
    <2>1. /\ i + m \in 1 .. n /\ i + (m - 1) \in 0 .. n /\ (i + m) - 1 = i + (m - 1)
          /\ i + m \in 0 .. n /\ m \in 0 .. n - i
      BY ONLY <1>1, <1>4, m \in 1 .. n - i
    <2>2. y = DecodeByte(x, w[i + m]) /\ w[i + m] \in Byte
      BY ONLY <1>1, <1>2, <2>1
    <2>3. x \in Decoded /\ x.lines \in Seq(Seq(Byte)) /\ x.line \in Seq(Byte) /\ Len(x.lines) \in Nat
      BY ONLY <1>3, <2>1 DEF Decoded
    <2>4. s \in Seq(Seq(Byte)) /\ Len(s) \in Nat
      BY ONLY <1>3, i \in 0 .. Len(w) DEF n
    <2>5. Continues(s, x.lines)
      BY ONLY <1>6
    <2> HIDE DEF s, x, y
    <2>6. y.lines = x.lines \/ y.lines = Append(x.lines, x.line)
      BY ONLY <2>2, <2>3, DecodeIs
    <2>7. Continues(s, y.lines)
      <3>1. CASE y.lines = x.lines
        BY ONLY <2>5, <3>1
      <3>2. CASE y.lines = Append(x.lines, x.line)
        <4>1. /\ Len(y.lines) = Len(x.lines) + 1
              /\ \A q \in 1 .. Len(x.lines) : y.lines[q] = x.lines[q]
          BY ONLY <2>3, <3>2, AppendProperties
        <4> QED
          BY ONLY <2>3, <2>4, <2>5, <4>1 DEF Continues
      <3> QED
        BY ONLY <2>6, <3>1, <3>2
    <2> QED
      BY ONLY <2>1, <2>7 DEF s, y
  <1> HIDE DEF P
  <1>7. n - i \in P
    BY ONLY <1>4, <1>5, <1>6, Climb
  <1> QED
    BY ONLY <1>4, <1>7 DEF P, n

-----------------------------------------------------------------------------
(* What the items of a client are as bytes.                                 *)

\* The bytes of an item.
LEMMA EncodeIs ==
    ASSUME NEW item \in Item
    PROVE  Encode(item) \in Seq(Byte) /\ Len(Encode(item)) \in 1 .. 5
  <1>0. "IAC" \in Byte /\ "DO" \in Byte /\ "SB" \in Byte /\ "SE" \in Byte /\ "NOP" \in Byte
        /\ "CR" \in Byte /\ "LF" \in Byte /\ "r" \in Byte /\ "x" \in Byte
    BY ONLY DEF Byte
  <1>1. CASE item = "ff"
    <2>1. Encode(item) = <<"IAC", "IAC">>
      BY ONLY <1>1 DEF Encode
    <2> QED
      BY ONLY <1>0, <2>1
  <1>2. CASE item = "nl"
    <2>1. Encode(item) = <<"CR", "LF">>
      BY ONLY <1>2 DEF Encode
    <2> QED
      BY ONLY <1>0, <2>1
  <1>3. CASE item = "do"
    <2>1. Encode(item) = <<"IAC", "DO", "LF">>
      BY ONLY <1>3 DEF Encode
    <2> QED
      BY ONLY <1>0, <2>1
  <1>4. CASE item = "sb"
    <2>1. Encode(item) = <<"IAC", "SB", "LF", "IAC", "SE">>
      BY ONLY <1>4 DEF Encode
    <2> QED
      BY ONLY <1>0, <2>1
  <1>5. CASE item = "nop"
    <2>1. Encode(item) = <<"IAC", "NOP">>
      BY ONLY <1>5 DEF Encode
    <2> QED
      BY ONLY <1>0, <2>1
  <1>6. CASE item \in {"r", "x"}
    <2>1. Encode(item) = <<item>>
      BY ONLY <1>6 DEF Encode
    <2>2. item \in Byte
      BY ONLY <1>0, <1>6
    <2> QED
      BY ONLY <2>1, <2>2
  <1> QED
    BY ONLY <1>1, <1>2, <1>3, <1>4, <1>5, <1>6, item \in Item DEF Item

\* The bytes of the items, item by item.
Spells(F, items) ==
    /\ F \in [0 .. Len(items) -> Seq(Byte)]
    /\ F[0] = << >>
    /\ \A m \in 1 .. Len(items) : F[m] = F[m - 1] \o Encode(items[m])
    /\ Bytes(items) = F[Len(items)]

\* Every sequence of items is spelt out so.
LEMMA BytesAre ==
    ASSUME NEW items \in Seq(Item)
    PROVE  \E F : Spells(F, items)
  <1> DEFINE n == Len(items)
             E == [i \in DOMAIN items |-> Encode(items[i])]
             X == Seq(Byte)
             G == [p \in X \X (1 .. n) |-> p[1] \o E[p[2]]]
             Body(f) == [i \in 1 .. n |-> IF i = 1 THEN E[i] ELSE f[i - 1] \o E[i]]
             flatten == CHOOSE f : f = Body(f)
  <1>1. n \in Nat /\ DOMAIN items = 1 .. n /\ \A m \in 1 .. n : items[m] \in Item
    BY ONLY items \in Seq(Item), LenProperties, ElementOfSeq
  <1>2. /\ DOMAIN E = 1 .. n /\ \A m \in 1 .. n : E[m] = Encode(items[m]) /\ E[m] \in X
    BY ONLY <1>1, EncodeIs
  <1>3. E \in Seq(X) /\ Len(E) = n
    <2>1. E \in [1 .. n -> X]
      BY ONLY <1>1, <1>2
    <2> HIDE DEF E, X, n
    <2> QED
      BY ONLY <1>1, <2>1
  <1>4. Bytes(items) = IF n = 0 THEN E ELSE flatten[n]
    <2>1. Bytes(items) = FlattenSeq(E)
      BY ONLY DEF Bytes
    <2> HIDE DEF E, n
    <2>2. FlattenSeq(E) = IF Len(E) = 0 THEN E ELSE
             LET f[i \in 1 .. Len(E)] == IF i = 1 THEN E[i] ELSE f[i - 1] \o E[i] IN f[Len(E)]
      BY ONLY DEF FlattenSeq
    <2> QED
      BY ONLY <1>3, <2>1, <2>2
  <1> HIDE DEF E, n, X
  <1>5. << >> \in X /\ \A x \in X : \A m \in 1 .. n : x \o E[m] \in X
    <2>1. \A x \in X : \A y \in X : x \o y \in X
      BY ONLY ConcatProperties DEF X
    <2>2. << >> \in X
      BY ONLY DEF X
    <2> QED
      BY ONLY <1>2, <2>1, <2>2
  <1>6. /\ G \in [X \X (1 .. n) -> X]
        /\ \A x \in X : \A m \in 1 .. n : G[<<x, m>>] = x \o E[m]
    BY ONLY <1>5
  <1> HIDE DEF G
  <1>7. PICK g \in [0 .. n -> X] : g[0] = << >> /\ \A m \in 1 .. n : g[m] = G[<<g[m - 1], m>>]
    <2>1. Stepwise(n, X, << >>, G)
      BY ONLY <1>1, <1>5, <1>6, StepsExist
    <2> QED
      BY ONLY <2>1 DEF Stepwise
  <1>8. \A m \in 1 .. n : g[m] = g[m - 1] \o E[m]
    <2>1. \A m \in 1 .. n : m - 1 \in 0 .. n
      BY ONLY <1>1
    <2> QED
      BY ONLY <1>6, <1>7, <2>1
  <1>9. CASE n = 0
    <2>1. E = << >>
      BY ONLY <1>3, <1>9, EmptySeq
    <2>2. Bytes(items) = g[n]
      BY ONLY <1>4, <1>7, <1>9, <2>1
    <2>3. \A m \in 1 .. n : g[m] = g[m - 1] \o Encode(items[m])
      BY ONLY <1>2, <1>8
    <2> QED
      BY ONLY <1>7, <2>2, <2>3 DEF Spells, n, X
  <1>10. CASE n # 0
    <2> DEFINE h == [i \in 1 .. n |-> g[i]]
    <2>0. g[1] = E[1]
      <3>1. 1 \in 1 .. n /\ 1 - 1 = 0
        BY ONLY <1>1, <1>10
      <3>2. g[1] = g[1 - 1] \o E[1] /\ E[1] \in X
        BY ONLY <1>2, <1>8, <3>1
      <3>3. g[1] = << >> \o E[1]
        BY ONLY <1>7, <3>1, <3>2
      <3> QED
        BY ONLY <3>2, <3>3, ConcatEmptySeq DEF X
    <2>1. h = Body(h)
      <3>1. ASSUME NEW i \in 1 .. n PROVE g[i] = IF i = 1 THEN E[i] ELSE h[i - 1] \o E[i]
        <4>1. CASE i = 1
          BY ONLY <2>0, <4>1
        <4>2. CASE i # 1
          <5>1. i - 1 \in 1 .. n
            BY ONLY <1>1, <4>2, i \in 1 .. n
          <5> QED
            BY ONLY <1>8, <4>2, <5>1
        <4> QED
          BY ONLY <4>1, <4>2
      <3> QED
        BY ONLY <3>1
    <2>2. flatten = Body(flatten)
      <3>1. \E f : f = Body(f)
        BY ONLY <2>1
      <3> QED
        BY ONLY <3>1
    <2> HIDE DEF flatten
    <2>3. \A i \in 1 .. n : flatten[i] = IF i = 1 THEN E[i] ELSE flatten[i - 1] \o E[i]
      BY ONLY <2>2
    <2> DEFINE P == {i \in 0 .. n : i > 0 => flatten[i] = g[i]}
    <2>4. \A i \in 1 .. n : i - 1 \in P => i \in P
      <3> SUFFICES ASSUME NEW i \in 1 .. n, i - 1 \in P PROVE i \in 0 .. n /\ flatten[i] = g[i]
        OBVIOUS
      <3>1. i \in 0 .. n /\ i \in Nat
        BY ONLY <1>1, i \in 1 .. n
      <3>2. CASE i = 1
        <4>1. flatten[1] = E[1]
          BY ONLY <2>3, <3>2, i \in 1 .. n
        <4> QED
          BY ONLY <2>0, <3>1, <3>2, <4>1
      <3>3. CASE i # 1
        <4>1. i - 1 > 0
          BY ONLY <3>3, i \in 1 .. n, <1>1
        <4>2. flatten[i - 1] = g[i - 1]
          BY ONLY <4>1, i - 1 \in P
        <4>3. flatten[i] = flatten[i - 1] \o E[i] /\ g[i] = g[i - 1] \o E[i]
          BY ONLY <1>8, <2>3, <3>3, i \in 1 .. n
        <4> QED
          BY ONLY <3>1, <4>2, <4>3
      <3> QED
        BY ONLY <3>2, <3>3
    <2>5. 0 \in P
      BY ONLY <1>1
    <2> HIDE DEF P
    <2>6. n \in P
      <3>1. n \in 0 .. n
        BY ONLY <1>1
      <3> QED
        BY ONLY <1>1, <2>4, <2>5, <3>1, Climb
    <2>7. Bytes(items) = g[n]
      BY ONLY <1>1, <1>4, <1>10, <2>6 DEF P
    <2>8. \A m \in 1 .. n : g[m] = g[m - 1] \o Encode(items[m])
      BY ONLY <1>2, <1>8
    <2> QED
      BY ONLY <1>7, <2>7, <2>8 DEF Spells, n, X
  <1> QED
    BY ONLY <1>9, <1>10

\* The filter on the bytes that items have.
LEMMA FeedTable ==
    /\ FeedState("normal", "IAC") = "iac" /\ FeedData("normal", "IAC") = "none"
    /\ FeedState("iac", "IAC") = "normal" /\ FeedData("iac", "IAC") = "IAC"
    /\ FeedState("iac", "DO") = "cmd" /\ FeedData("iac", "DO") = "none"
    /\ FeedState("iac", "SB") = "subneg" /\ FeedData("iac", "SB") = "none"
    /\ FeedState("iac", "NOP") = "normal" /\ FeedData("iac", "NOP") = "none"
    /\ FeedState("cmd", "LF") = "normal" /\ FeedData("cmd", "LF") = "none"
    /\ FeedState("subneg", "LF") = "subneg" /\ FeedData("subneg", "LF") = "none"
    /\ FeedState("subneg", "IAC") = "subneg_iac" /\ FeedData("subneg", "IAC") = "none"
    /\ FeedState("subneg_iac", "SE") = "normal" /\ FeedData("subneg_iac", "SE") = "none"
    /\ \A b \in {"CR", "LF", "r", "x"} : FeedState("normal", b) = "normal" /\ FeedData("normal", b) = b
  BY DEF FeedState, FeedData

\* Of the bytes read so far t has the lines of s, and the filter is in state q.
AsIn(s, t, q) == t \in Decoded /\ t.iac = q /\ t.line = s.line /\ t.lines = s.lines

\* A byte that is no data.
LEMMA QuietByte ==
    ASSUME NEW s, NEW t, NEW p, AsIn(s, t, p), NEW byte \in Byte, NEW q, FeedState(p, byte) = q,
           FeedData(p, byte) \in {"none", "CR"}
    PROVE  AsIn(s, DecodeByte(t, byte), q)
  <1>1. t \in Decoded /\ t.iac = p
    BY DEF AsIn
  <1> QED
    BY <1>1, DecodeIs DEF AsIn

\* A byte that is data.
LEMMA DataByte ==
    ASSUME NEW s, NEW t, NEW p, AsIn(s, t, p), NEW byte \in Byte, NEW q, FeedState(p, byte) = q,
           FeedData(p, byte) = byte, byte \notin {"none", "CR", "LF"}
    PROVE  LET u == DecodeByte(t, byte)
           IN  u \in Decoded /\ u.iac = q /\ u.lines = s.lines /\ u.line = Append(s.line, byte)
  <1>1. t \in Decoded /\ t.iac = p /\ t.line = s.line /\ t.lines = s.lines
    BY ONLY AsIn(s, t, p) DEF AsIn
  <1>2. FeedData(t.iac, byte) = byte /\ FeedState(t.iac, byte) = q
    BY ONLY <1>1, FeedState(p, byte) = q, FeedData(p, byte) = byte
  <1>3. /\ DecodeByte(t, byte) \in Decoded /\ DecodeByte(t, byte).iac = q
        /\ DecodeByte(t, byte).lines = t.lines /\ DecodeByte(t, byte).line = Append(t.line, byte)
    BY ONLY <1>1, <1>2, byte \in Byte, byte \notin {"none", "CR", "LF"}, DecodeIs
  <1> QED
    BY ONLY <1>1, <1>3

\* A line feed.
LEMMA LineByte ==
    ASSUME NEW s, NEW t, NEW p, AsIn(s, t, p), NEW byte \in Byte, NEW q, FeedState(p, byte) = q,
           FeedData(p, byte) = "LF"
    PROVE  LET u == DecodeByte(t, byte)
           IN  u \in Decoded /\ u.iac = q /\ u.lines = Append(s.lines, s.line) /\ u.line = << >>
  <1>1. t \in Decoded /\ t.iac = p /\ t.line = s.line /\ t.lines = s.lines
    BY ONLY AsIn(s, t, p) DEF AsIn
  <1>2. FeedData(t.iac, byte) = "LF" /\ FeedState(t.iac, byte) = q
    BY ONLY <1>1, FeedState(p, byte) = q, FeedData(p, byte) = "LF"
  <1>3. /\ DecodeByte(t, byte) \in Decoded /\ DecodeByte(t, byte).iac = q
        /\ DecodeByte(t, byte).lines = Append(t.lines, t.line) /\ DecodeByte(t, byte).line = << >>
    BY ONLY <1>1, <1>2, byte \in Byte, DecodeIs
  <1> QED
    BY ONLY <1>1, <1>3

\* t is what is read after an item that is read from s.
After(s, t, item) ==
    /\ t \in Decoded /\ t.iac = "normal"
    /\ item = "nl" => t.lines = Append(s.lines, s.line) /\ t.line = << >>
    /\ item = "ff" => t.lines = s.lines /\ t.line = Append(s.line, "IAC")
    /\ item \in {"r", "x"} => t.lines = s.lines /\ t.line = Append(s.line, item)
    /\ item \notin {"nl", "ff", "r", "x"} => t.lines = s.lines /\ t.line = s.line

\* f goes through the bytes of an item from s.
Through(f, s, item) ==
    f[0] = s /\ \A j \in 1 .. Len(Encode(item)) : f[j] = DecodeByte(f[j - 1], Encode(item)[j])

\* The bytes of an item, decoded, are the item (RFC 854).
LEMMA ItemDecoded ==
    ASSUME NEW s \in Decoded, s.iac = "normal", NEW item \in Item, NEW f, Through(f, s, item)
    PROVE  After(s, f[Len(Encode(item))], item)
  <1> DEFINE w == Encode(item)
  <1>0. "IAC" \in Byte /\ "DO" \in Byte /\ "SB" \in Byte /\ "SE" \in Byte /\ "NOP" \in Byte
        /\ "CR" \in Byte /\ "LF" \in Byte /\ "r" \in Byte /\ "x" \in Byte
    BY ONLY DEF Byte
  <1>1. AsIn(s, s, "normal")
    BY DEF AsIn
  <1>2. f[0] = s /\ \A j \in 1 .. Len(w) : f[j] = DecodeByte(f[j - 1], w[j])
    BY ONLY Through(f, s, item) DEF Through
  <1>3. CASE item = "ff"
    <2>1. w = <<"IAC", "IAC">>
      BY ONLY <1>3 DEF Encode
    <2> HIDE DEF w
    <2>2. Len(w) = 2 /\ f[1] = DecodeByte(s, "IAC") /\ f[2] = DecodeByte(f[1], "IAC")
      BY ONLY <1>2, <2>1
    <2>3. AsIn(s, f[1], "iac")
      BY ONLY <1>0, <1>1, <2>2, FeedTable, QuietByte
    <2>5. /\ f[2] \in Decoded /\ f[2].iac = "normal" /\ f[2].lines = s.lines
          /\ f[2].line = Append(s.line, "IAC")
      <3>1. "IAC" \notin {"none", "CR", "LF"}
        BY ONLY TRUE
      <3>2. FeedState("iac", "IAC") = "normal" /\ FeedData("iac", "IAC") = "IAC"
        BY ONLY FeedTable
      <3> DEFINE a == f[1]
                 u == DecodeByte(a, "IAC")
      <3> HIDE DEF a
      <3>3. u \in Decoded /\ u.iac = "normal" /\ u.lines = s.lines /\ u.line = Append(s.line, "IAC")
        BY ONLY <1>0, <2>3, <3>1, <3>2, DataByte DEF a
      <3> QED
        BY ONLY <2>2, <3>3 DEF a
    <2> QED
      BY ONLY <1>3, <2>2, <2>5 DEF After, w
  <1>4. CASE item = "nl"
    <2>1. w = <<"CR", "LF">>
      BY ONLY <1>4 DEF Encode
    <2> HIDE DEF w
    <2>2. Len(w) = 2 /\ f[1] = DecodeByte(s, "CR") /\ f[2] = DecodeByte(f[1], "LF")
      BY ONLY <1>2, <2>1
    <2>3. AsIn(s, f[1], "normal")
      BY ONLY <1>0, <1>1, <2>2, FeedTable, QuietByte
    <2>5. /\ f[2] \in Decoded /\ f[2].iac = "normal" /\ f[2].lines = Append(s.lines, s.line)
          /\ f[2].line = << >>
      <3>1. FeedState("normal", "LF") = "normal" /\ FeedData("normal", "LF") = "LF"
        BY ONLY FeedTable
      <3> DEFINE a == f[1]
                 u == DecodeByte(a, "LF")
      <3> HIDE DEF a
      <3>2. u \in Decoded /\ u.iac = "normal" /\ u.lines = Append(s.lines, s.line) /\ u.line = << >>
        BY ONLY <1>0, <2>3, <3>1, LineByte DEF a
      <3> QED
        BY ONLY <2>2, <3>2 DEF a
    <2> QED
      BY ONLY <1>4, <2>2, <2>5 DEF After, w
  <1>5. CASE item = "do"
    <2>1. w = <<"IAC", "DO", "LF">>
      BY ONLY <1>5 DEF Encode
    <2> HIDE DEF w
    <2>2. /\ Len(w) = 3 /\ f[1] = DecodeByte(s, "IAC") /\ f[2] = DecodeByte(f[1], "DO")
          /\ f[3] = DecodeByte(f[2], "LF")
      BY ONLY <1>2, <2>1
    <2>3. AsIn(s, f[1], "iac")
      BY ONLY <1>0, <1>1, <2>2, FeedTable, QuietByte
    <2>4. AsIn(s, f[2], "cmd")
      BY ONLY <1>0, <2>2, <2>3, FeedTable, QuietByte
    <2>5. AsIn(s, f[3], "normal")
      BY ONLY <1>0, <2>2, <2>4, FeedTable, QuietByte
    <2> QED
      BY ONLY <1>5, <2>2, <2>5 DEF After, AsIn, w
  <1>6. CASE item = "sb"
    <2>1. w = <<"IAC", "SB", "LF", "IAC", "SE">>
      BY ONLY <1>6 DEF Encode
    <2> HIDE DEF w
    <2>2. /\ Len(w) = 5 /\ f[1] = DecodeByte(s, "IAC") /\ f[2] = DecodeByte(f[1], "SB")
          /\ f[3] = DecodeByte(f[2], "LF") /\ f[4] = DecodeByte(f[3], "IAC")
          /\ f[5] = DecodeByte(f[4], "SE")
      BY ONLY <1>2, <2>1
    <2>3. AsIn(s, f[1], "iac")
      BY ONLY <1>0, <1>1, <2>2, FeedTable, QuietByte
    <2>4. AsIn(s, f[2], "subneg")
      BY ONLY <1>0, <2>2, <2>3, FeedTable, QuietByte
    <2>5. AsIn(s, f[3], "subneg")
      BY ONLY <1>0, <2>2, <2>4, FeedTable, QuietByte
    <2>6. AsIn(s, f[4], "subneg_iac")
      BY ONLY <1>0, <2>2, <2>5, FeedTable, QuietByte
    <2>7. AsIn(s, f[5], "normal")
      BY ONLY <1>0, <2>2, <2>6, FeedTable, QuietByte
    <2> QED
      BY ONLY <1>6, <2>2, <2>7 DEF After, AsIn, w
  <1>7. CASE item = "nop"
    <2>1. w = <<"IAC", "NOP">>
      BY ONLY <1>7 DEF Encode
    <2> HIDE DEF w
    <2>2. Len(w) = 2 /\ f[1] = DecodeByte(s, "IAC") /\ f[2] = DecodeByte(f[1], "NOP")
      BY ONLY <1>2, <2>1
    <2>3. AsIn(s, f[1], "iac")
      BY ONLY <1>0, <1>1, <2>2, FeedTable, QuietByte
    <2>4. AsIn(s, f[2], "normal")
      BY ONLY <1>0, <2>2, <2>3, FeedTable, QuietByte
    <2> QED
      BY ONLY <1>7, <2>2, <2>4 DEF After, AsIn, w
  <1>8. CASE item \in {"r", "x"}
    <2>1. w = <<item>> /\ item \in Byte
      BY ONLY <1>0, <1>8 DEF Encode
    <2> HIDE DEF w
    <2>2. Len(w) = 1 /\ f[1] = DecodeByte(s, item)
      BY ONLY <1>2, <2>1
    <2>3. FeedState("normal", item) = "normal" /\ FeedData("normal", item) = item
      BY ONLY <1>8, FeedTable
    <2>4. /\ f[1] \in Decoded /\ f[1].iac = "normal" /\ f[1].lines = s.lines
          /\ f[1].line = Append(s.line, item)
      BY ONLY <1>8, <2>1, <2>2, <2>3, s \in Decoded, s.iac = "normal", DecodeIs
    <2> QED
      BY ONLY <1>8, <2>2, <2>4 DEF After, w
  <1> QED
    BY ONLY <1>3, <1>4, <1>5, <1>6, <1>7, <1>8, item \in Item DEF Item

\* What the client has said, as records.
Said == [lines : Seq(Seq(Byte)), line : Seq(Byte)]

\* The fields after one more item.
LEMMA SayIs ==
    ASSUME NEW x \in Said, NEW item \in Item
    PROVE  /\ SayItem(x, item) \in Said
           /\ item = "nl" =>
                 SayItem(x, item).lines = Append(x.lines, x.line) /\ SayItem(x, item).line = << >>
           /\ item = "ff" =>
                 SayItem(x, item).lines = x.lines /\ SayItem(x, item).line = Append(x.line, "IAC")
           /\ item \in {"r", "x"} =>
                 SayItem(x, item).lines = x.lines /\ SayItem(x, item).line = Append(x.line, item)
           /\ item \notin {"nl", "ff", "r", "x"} =>
                 SayItem(x, item).lines = x.lines /\ SayItem(x, item).line = x.line
  <1> DEFINE y == SayItem(x, item)
  <1>1. x.lines \in Seq(Seq(Byte)) /\ x.line \in Seq(Byte)
    BY ONLY x \in Said DEF Said
  <1>2. /\ << >> \in Seq(Byte) /\ Append(x.lines, x.line) \in Seq(Seq(Byte))
        /\ \A b \in Byte : Append(x.line, b) \in Seq(Byte)
        /\ "IAC" \in Byte /\ "r" \in Byte /\ "x" \in Byte
    <2>1. "IAC" \in Byte /\ "r" \in Byte /\ "x" \in Byte
      BY ONLY DEF Byte
    <2> QED
      BY ONLY <1>1, <2>1
  <1>3. CASE item = "nl"
    <2>1. y = [lines |-> Append(x.lines, x.line), line |-> << >>]
      BY ONLY <1>3 DEF SayItem
    <2> HIDE DEF y
    <2>2. y \in Said /\ y.lines = Append(x.lines, x.line) /\ y.line = << >>
      BY ONLY <1>2, <2>1 DEF Said
    <2> QED
      BY ONLY <1>3, <2>2 DEF y
  <1>4. CASE item = "ff"
    <2>1. y = [x EXCEPT !.line = Append(x.line, "IAC")]
      BY ONLY <1>4, x \in Said DEF SayItem, Said
    <2> HIDE DEF y
    <2>2. y \in Said /\ y.lines = x.lines /\ y.line = Append(x.line, "IAC")
      BY ONLY <1>2, <2>1, x \in Said DEF Said
    <2> QED
      BY ONLY <1>4, <2>2 DEF y
  <1>5. CASE item \in {"r", "x"}
    <2>1. y = [x EXCEPT !.line = Append(x.line, item)]
      BY ONLY <1>5, x \in Said DEF SayItem, Said
    <2> HIDE DEF y
    <2>2. y \in Said /\ y.lines = x.lines /\ y.line = Append(x.line, item)
      BY ONLY <1>2, <1>5, <2>1, x \in Said DEF Said
    <2> QED
      BY ONLY <1>5, <2>2 DEF y
  <1>6. CASE item \notin {"nl", "ff", "r", "x"}
    <2>1. y = x
      BY ONLY <1>6 DEF SayItem
    <2> HIDE DEF y
    <2> QED
      BY ONLY <1>6, <2>1, x \in Said DEF y
  <1> QED
    BY ONLY <1>3, <1>4, <1>5, <1>6

\* A stream's own lines are the ones the client means (telnet.py, _IacFilter).
LEMMA StreamDecoded ==
    ASSUME NEW items \in Seq(Item), NEW g, Decodes(g, Bytes(items))
    PROVE  /\ Bytes(items) \in Seq(Byte)
           /\ LinesOf(items) = g[Len(Bytes(items))].lines
  <1> DEFINE n == Len(items)
             w == Bytes(items)
             b == [lines |-> << >>, line |-> << >>]
  <1>1. n \in Nat /\ DOMAIN items = 1 .. n /\ \A m \in 1 .. n : items[m] \in Item
    BY ONLY items \in Seq(Item), LenProperties, ElementOfSeq
  <1>2. PICK F : Spells(F, items)
    BY ONLY items \in Seq(Item), BytesAre
  <1>3. /\ F \in [0 .. n -> Seq(Byte)] /\ F[0] = << >>
        /\ \A m \in 1 .. n : F[m] = F[m - 1] \o Encode(items[m])
        /\ w = F[n]
    BY ONLY <1>2 DEF Spells
  <1>4. b \in Said
    <2>1. << >> \in Seq(Byte) /\ << >> \in Seq(Seq(Byte))
      BY ONLY TRUE
    <2> QED
      BY ONLY <2>1 DEF Said
  <1>5. LinesOf(items) = SayAll(b, items).lines
    BY ONLY DEF LinesOf, SayAll, SayItem, FoldLeft, MapThenFoldSet
  <1>6. PICK h \in [0 .. n -> Said] : /\ h[0] = b
                                      /\ \A m \in 1 .. n : h[m] = SayItem(h[m - 1], items[m])
                                      /\ SayAll(b, items) = h[n]
    <2>1. \A x \in Said : \A m \in 1 .. n : SayItem(x, items[m]) \in Said
      BY ONLY <1>1, SayIs
    <2> HIDE DEF b, n
    <2>2. SayChain(b, items, n, Said)
      BY ONLY <1>1, <1>4, <2>1, SayFold
    <2> QED
      BY ONLY <2>2 DEF SayChain
  <1>7. b.lines = << >> /\ b.line = << >>
    BY ONLY TRUE
  <1> HIDE DEF n, b
  <1>8. \A m \in 0 .. n : F[m] \in Seq(Byte) /\ Len(F[m]) \in Nat
    BY ONLY <1>3
  <1>9. n \in 0 .. n /\ w \in Seq(Byte)
    BY ONLY <1>1, <1>3, <1>8
  \* Up to item i: every way through F[i] has read what the client has said.
  <1> DEFINE Good(i, k) == \A j \in 1 .. Len(F[i]) : k[j] = DecodeByte(k[j - 1], F[i][j])
             Agree(i, k) == /\ k[Len(F[i])] \in Decoded
                            /\ k[Len(F[i])].iac = "normal"
                            /\ k[Len(F[i])].line = h[i].line
                            /\ k[Len(F[i])].lines = h[i].lines
             P == {i \in 0 .. n : \A k : k[0] = NothingRead /\ Good(i, k) => Agree(i, k)}
  <1>10. 0 \in P
    <2>1. Len(F[0]) = 0 /\ 0 \in 0 .. n
      BY ONLY <1>1, <1>3
    <2>2. /\ NothingRead \in Decoded /\ NothingRead.iac = "normal"
          /\ NothingRead.line = << >> /\ NothingRead.lines = << >>
      <3>1. g \in [0 .. Len(w) -> Decoded] /\ g[0] = NothingRead /\ 0 \in 0 .. Len(w)
        BY ONLY <1>9, Decodes(g, Bytes(items)) DEF Decodes
      <3> QED
        BY ONLY <3>1 DEF NothingRead
    <2>3. h[0].line = << >> /\ h[0].lines = << >>
      BY ONLY <1>6, <1>7
    <2> QED
      BY ONLY <2>1, <2>2, <2>3
  <1>11. ASSUME NEW i \in 1 .. n, i - 1 \in P PROVE i \in P
    <2>1. i \in 0 .. n /\ i - 1 \in 0 .. n
      BY ONLY <1>1, i \in 1 .. n
    <2> HIDE DEF Good, Agree
    <2> SUFFICES ASSUME NEW k, k[0] = NothingRead, Good(i, k) PROVE Agree(i, k)
      BY <2>1
    <2>2. \A y : y[0] = NothingRead /\ Good(i - 1, y) => Agree(i - 1, y)
      BY ONLY <1>11
    <2> USE DEF Good, Agree
    <2> HIDE DEF P
    <2> DEFINE v == Encode(items[i])
               a == F[i - 1]
               L == Len(F[i - 1])
    <2>3. F[i] = a \o v /\ items[i] \in Item
      BY ONLY <1>1, <1>3, i \in 1 .. n
    <2>4. a \in Seq(Byte) /\ L \in Nat
      BY ONLY <1>8, <2>1
    <2>5. /\ i \in 0 .. n /\ i - 1 \in 0 .. n /\ items[i] \in Item
          /\ F[i] = F[i - 1] \o v /\ F[i - 1] \in Seq(Byte) /\ L \in Nat
      BY ONLY <2>1, <2>3, <2>4
    <2>6. v \in Seq(Byte) /\ Len(v) \in Nat
      BY ONLY <2>5, EncodeIs
    <2>7. /\ Len(F[i]) = L + Len(v)
          /\ \A j \in 1 .. L : F[i][j] = F[i - 1][j]
          /\ \A j \in 1 .. Len(v) : F[i][L + j] = v[j]
      <3>1. /\ Len(F[i]) = L + Len(v)
            /\ \A j \in 1 .. L + Len(v) : F[i][j] = IF j <= L THEN F[i - 1][j] ELSE v[j - L]
        <4> HIDE DEF a, v
        <4>1. /\ Len(a \o v) = Len(a) + Len(v)
              /\ \A j \in 1 .. Len(a) + Len(v) : (a \o v)[j] = IF j <= Len(a) THEN a[j] ELSE v[j - Len(a)]
          BY ONLY <2>6, <2>4, ConcatProperties
        <4> QED
          BY ONLY <2>3, <4>1 DEF a
      <3> HIDE DEF L, v
      <3>2. \A j \in 1 .. L : j \in 1 .. L + Len(v) /\ j <= L
        BY ONLY <2>5, <2>6
      <3>3. \A j \in 1 .. Len(v) : L + j \in 1 .. L + Len(v) /\ ~(L + j <= L) /\ (L + j) - L = j
        BY ONLY <2>5, <2>6
      <3> QED
        BY ONLY <3>1, <3>2, <3>3
    <2> HIDE DEF L, v
    <2>8. \A j \in 1 .. L : j \in 1 .. L + Len(v)
      BY ONLY <2>5, <2>6
    <2>9. Good(i - 1, k)
      BY ONLY <2>7, <2>8, Good(i, k) DEF L
    <2>10. /\ k[L] \in Decoded /\ k[L].iac = "normal" /\ k[L].line = h[i - 1].line
          /\ k[L].lines = h[i - 1].lines
      BY ONLY <2>2, <2>9, k[0] = NothingRead DEF L
    <2> DEFINE f == [j \in 0 .. Len(v) |-> k[L + j]]
    <2>11. Through(f, k[L], items[i])
      <3>1. f[0] = k[L]
        <4>1. 0 \in 0 .. Len(v) /\ L + 0 = L
          BY ONLY <2>5, <2>6
        <4> QED
          BY ONLY <4>1
      <3>2. ASSUME NEW j \in 1 .. Len(v) PROVE f[j] = DecodeByte(f[j - 1], v[j])
        <4>1. /\ j \in 0 .. Len(v) /\ j - 1 \in 0 .. Len(v) /\ L + j \in 1 .. L + Len(v)
              /\ (L + j) - 1 = L + (j - 1)
          BY ONLY <2>5, <2>6, j \in 1 .. Len(v)
        <4>2. k[L + j] = DecodeByte(k[L + (j - 1)], v[j])
          BY ONLY <2>7, <4>1, Good(i, k), j \in 1 .. Len(v)
        <4> QED
          BY ONLY <4>1, <4>2
      <3> HIDE DEF f
      <3> QED
        BY ONLY <3>1, <3>2 DEF Through, v
    <2>12. f[Len(v)] = k[Len(F[i])]
      <3>1. Len(v) \in 0 .. Len(v)
        BY ONLY <2>6
      <3> QED
        BY ONLY <2>7, <3>1
    <2> HIDE DEF f
    <2>13. After(k[L], f[Len(v)], items[i])
      BY ONLY <2>5, <2>10, <2>11, ItemDecoded DEF v
    <2>14. h[i - 1] \in Said /\ h[i] = SayItem(h[i - 1], items[i])
      BY ONLY <1>6, <2>5, i \in 1 .. n
    <2>15. /\ k[Len(F[i])] \in Decoded /\ k[Len(F[i])].iac = "normal"
           /\ k[Len(F[i])].line = h[i].line /\ k[Len(F[i])].lines = h[i].lines
      <3> DEFINE t == f[Len(v)]
                 s == k[L]
                 item == items[i]
                 x == h[i - 1]
                 y == h[i]
      <3>1. s.line = x.line /\ s.lines = x.lines
        BY ONLY <2>10
      <3>2. /\ t \in Decoded /\ t.iac = "normal"
            /\ item = "nl" => t.lines = Append(s.lines, s.line) /\ t.line = << >>
            /\ item = "ff" => t.lines = s.lines /\ t.line = Append(s.line, "IAC")
            /\ item \in {"r", "x"} => t.lines = s.lines /\ t.line = Append(s.line, item)
            /\ item \notin {"nl", "ff", "r", "x"} => t.lines = s.lines /\ t.line = s.line
        BY ONLY <2>13 DEF After
      <3>3. /\ item = "nl" => y.lines = Append(x.lines, x.line) /\ y.line = << >>
            /\ item = "ff" => y.lines = x.lines /\ y.line = Append(x.line, "IAC")
            /\ item \in {"r", "x"} => y.lines = x.lines /\ y.line = Append(x.line, item)
            /\ item \notin {"nl", "ff", "r", "x"} => y.lines = x.lines /\ y.line = x.line
        <4>1. x \in Said /\ item \in Item /\ y = SayItem(x, item)
          BY ONLY <2>5, <2>14
        <4> HIDE DEF x, item, y
        <4> QED
          BY ONLY <4>1, SayIs
      <3> HIDE DEF t, s, item, x, y
      <3>4. t.line = y.line /\ t.lines = y.lines
        <4>1. CASE item = "nl"
          BY ONLY <3>1, <3>2, <3>3, <4>1
        <4>2. CASE item = "ff"
          BY ONLY <3>1, <3>2, <3>3, <4>2
        <4>3. CASE item \in {"r", "x"}
          BY ONLY <3>1, <3>2, <3>3, <4>3
        <4>4. CASE item \notin {"nl", "ff", "r", "x"}
          BY ONLY <3>1, <3>2, <3>3, <4>4
        <4> QED
          BY ONLY <4>1, <4>2, <4>3, <4>4
      <3> QED
        BY ONLY <2>12, <3>2, <3>4 DEF t, y
    <2> QED
      BY ONLY <2>15
  <1>12. \A k : k[0] = NothingRead /\ Good(n, k) => Agree(n, k)
    <2> HIDE DEF P
    <2>1. n \in P
      BY ONLY <1>1, <1>9, <1>10, <1>11, Climb
    <2> QED
      BY ONLY <2>1 DEF P
  <1>13. g[0] = NothingRead /\ Good(n, g)
    BY ONLY <1>3, Decodes(g, Bytes(items)) DEF Decodes
  <1>14. g[Len(F[n])].lines = h[n].lines
    BY ONLY <1>12, <1>13
  <1> QED
    BY ONLY <1>3, <1>5, <1>6, <1>9, <1>14

-----------------------------------------------------------------------------
(* A chunk against the stream.                                              *)

Reading == [iac : Filter, buf : Seq(Byte), end : {"no", "line", "oversized"}, over : BOOLEAN]

\* The fields after one more byte of a chunk.
LEMMA ReadIs ==
    ASSUME NEW r \in Reading, NEW byte \in Byte
    PROVE  /\ ReadByte(r, byte) \in Reading
           /\ r.end # "no" => ReadByte(r, byte).over /\ ReadByte(r, byte).end # "no"
           /\ r.end = "no" =>
                 /\ ReadByte(r, byte).iac = FeedState(r.iac, byte)
                 /\ ReadByte(r, byte).over = r.over
                 /\ FeedData(r.iac, byte) \in {"none", "CR"} =>
                       ReadByte(r, byte).end = "no" /\ ReadByte(r, byte).buf = r.buf
                 /\ FeedData(r.iac, byte) = "LF" =>
                       ReadByte(r, byte).end = "line" /\ ReadByte(r, byte).buf = r.buf
                 /\ FeedData(r.iac, byte) \notin {"none", "CR", "LF"} =>
                       \/ ReadByte(r, byte).end = "oversized"
                       \/ /\ ReadByte(r, byte).end = "no"
                          /\ ReadByte(r, byte).buf = Append(r.buf, FeedData(r.iac, byte))
  <1> DEFINE data == FeedData(r.iac, byte)
             next == FeedState(r.iac, byte)
             l == Append(r.buf, data)
             d == ReadByte(r, byte)
  <1>1. r.iac \in Filter /\ r.buf \in Seq(Byte)
    BY ONLY r \in Reading DEF Reading
  <1>2. next \in Filter /\ data \in {byte, "none"}
    BY ONLY <1>1, byte \in Byte, FeedIs
  <1>3. data # "none" => l \in Seq(Byte)
    BY ONLY <1>1, <1>2, byte \in Byte
  <1>4. CASE r.end # "no"
    <2>1. d = [r EXCEPT !.over = TRUE]
      BY ONLY <1>4 DEF ReadByte
    <2> HIDE DEF d, data, next
    <2>2. d \in Reading /\ d.over = TRUE /\ d.end = r.end
      BY ONLY <2>1, r \in Reading DEF Reading
    <2> QED
      BY ONLY <1>4, <2>2 DEF d
  <1>5. CASE r.end = "no" /\ data \in {"none", "CR"}
    <2>1. d = [r EXCEPT !.iac = next]
      BY ONLY <1>5 DEF ReadByte
    <2> HIDE DEF d, data, next
    <2>2. d \in Reading /\ d.iac = next /\ d.over = r.over /\ d.end = "no" /\ d.buf = r.buf
      BY ONLY <1>2, <1>5, <2>1, r \in Reading DEF Reading
    <2> QED
      BY ONLY <1>5, <2>2 DEF d, data, next
  <1>6. CASE r.end = "no" /\ data = "LF"
    <2>1. d = [r EXCEPT !.iac = next, !.end = "line"]
      BY ONLY <1>6 DEF ReadByte
    <2> HIDE DEF d, data, next
    <2>2. d \in Reading /\ d.iac = next /\ d.over = r.over /\ d.end = "line" /\ d.buf = r.buf
      BY ONLY <1>2, <2>1, r \in Reading DEF Reading
    <2> QED
      BY ONLY <1>6, <2>2 DEF d, data, next
  <1>7. CASE r.end = "no" /\ data \notin {"none", "CR", "LF"} /\ Len(r.buf) >= MaxLine
    <2>1. d = [r EXCEPT !.iac = next, !.end = "oversized"]
      BY ONLY <1>7 DEF ReadByte
    <2> HIDE DEF d, data, next
    <2>2. d \in Reading /\ d.iac = next /\ d.over = r.over /\ d.end = "oversized"
      BY ONLY <1>2, <2>1, r \in Reading DEF Reading
    <2> QED
      BY ONLY <1>7, <2>2 DEF d, data, next
  <1>8. CASE r.end = "no" /\ data \notin {"none", "CR", "LF"} /\ ~(Len(r.buf) >= MaxLine)
    <2>1. d = [r EXCEPT !.iac = next, !.buf = l]
      BY ONLY <1>8, r \in Reading DEF ReadByte, Reading
    <2> HIDE DEF d, data, next, l
    <2>2. d \in Reading /\ d.iac = next /\ d.over = r.over /\ d.end = "no" /\ d.buf = l
      BY ONLY <1>2, <1>3, <1>8, <2>1, r \in Reading DEF Reading
    <2> QED
      BY ONLY <1>8, <2>2 DEF d, data, next, l
  <1> QED
    BY ONLY <1>4, <1>5, <1>6, <1>7, <1>8

\* r is what is read of a chunk between the places of the stream where s and t
\* have been decoded, as long as nothing follows the end of a line.
Tracks(r, s, t) ==
    /\ r.over => r.end # "no"
    /\ r.end = "no" => r.iac = t.iac /\ r.buf = t.line /\ t.lines = s.lines
    /\ r.end = "line" /\ ~r.over =>
          r.iac = t.iac /\ t.line = << >> /\ t.lines = Append(s.lines, r.buf)

\* One more byte, for the chunk and for the stream.
LEMMA TracksByte ==
    ASSUME NEW r \in Reading, NEW s, NEW t \in Decoded, Tracks(r, s, t), NEW byte \in Byte
    PROVE  Tracks(ReadByte(r, byte), s, DecodeByte(t, byte))
  <1> DEFINE u == ReadByte(r, byte)
             v == DecodeByte(t, byte)
             data == FeedData(t.iac, byte)
  <1>1. CASE r.end # "no"
    <2>1. u.over /\ u.end # "no"
      BY ONLY <1>1, r \in Reading, byte \in Byte, ReadIs
    <2> HIDE DEF u, v
    <2>2. Tracks(u, s, v)
      BY ONLY <2>1 DEF Tracks
    <2> QED
      BY ONLY <2>2 DEF u, v
  <1>2. CASE r.end = "no"
    <2>1. ~r.over /\ r.iac = t.iac /\ r.buf = t.line /\ t.lines = s.lines
      BY ONLY <1>2, Tracks(r, s, t) DEF Tracks
    <2>2. r.over = FALSE
      BY ONLY <2>1, r \in Reading DEF Reading
    <2>3. /\ u.iac = FeedState(t.iac, byte) /\ u.over = FALSE
          /\ data \in {"none", "CR"} => u.end = "no" /\ u.buf = t.line
          /\ data = "LF" => u.end = "line" /\ u.buf = t.line
          /\ data \notin {"none", "CR", "LF"} =>
                u.end = "oversized" \/ (u.end = "no" /\ u.buf = Append(t.line, data))
      <3>1. /\ u.iac = FeedState(r.iac, byte) /\ u.over = r.over
            /\ FeedData(r.iac, byte) \in {"none", "CR"} => u.end = "no" /\ u.buf = r.buf
            /\ FeedData(r.iac, byte) = "LF" => u.end = "line" /\ u.buf = r.buf
            /\ FeedData(r.iac, byte) \notin {"none", "CR", "LF"} =>
                  u.end = "oversized" \/ (u.end = "no" /\ u.buf = Append(r.buf, FeedData(r.iac, byte)))
        BY ONLY <1>2, r \in Reading, byte \in Byte, ReadIs
      <3> HIDE DEF u
      <3> QED
        BY ONLY <2>1, <2>2, <3>1
    <2>4. /\ v.iac = FeedState(t.iac, byte)
          /\ data \in {"none", "CR"} => v.line = t.line /\ v.lines = t.lines
          /\ data = "LF" => v.line = << >> /\ v.lines = Append(t.lines, t.line)
          /\ data \notin {"none", "CR", "LF"} => v.line = Append(t.line, data) /\ v.lines = t.lines
      BY ONLY t \in Decoded, byte \in Byte, DecodeIs
    <2> HIDE DEF u, v, data
    <2>5. Tracks(u, s, v)
      <3>1. CASE data \in {"none", "CR"}
        BY ONLY <2>1, <2>3, <2>4, <3>1 DEF Tracks
      <3>2. CASE data = "LF"
        <4>1. u.end = "line" /\ u.buf = t.line /\ v.line = << >> /\ v.lines = Append(s.lines, u.buf)
          BY ONLY <2>1, <2>3, <2>4, <3>2
        <4> QED
          BY ONLY <2>3, <2>4, <4>1 DEF Tracks
      <3>3. CASE data \notin {"none", "CR", "LF"}
        BY ONLY <2>1, <2>3, <2>4, <3>3 DEF Tracks
      <3> QED
        BY ONLY <3>1, <3>2, <3>3
    <2> QED
      BY ONLY <2>5 DEF u, v
  <1> QED
    BY ONLY <1>1, <1>2

\* k goes through the bytes w from s.
Passes(k, s, w) ==
    /\ k \in [0 .. Len(w) -> Decoded] /\ k[0] = s
    /\ \A j \in 1 .. Len(w) : k[j] = DecodeByte(k[j - 1], w[j])

\* What read_line makes of a chunk that begins where s has been decoded.
LEMMA ChunkRead ==
    ASSUME NEW c, NEW s \in Decoded, c.iac = s.iac, c.buf = s.line,
           NEW w \in Seq(Byte), NEW k, Passes(k, s, w)
    PROVE  ReadChunk(c, w) \in Reading /\ Tracks(ReadChunk(c, w), s, k[Len(w)])
  <1> DEFINE n == Len(w)
             b == [iac |-> c.iac, buf |-> c.buf, end |-> "no", over |-> FALSE]
  <1>1. n \in Nat /\ DOMAIN w = 1 .. n /\ \A m \in 1 .. n : w[m] \in Byte
    BY ONLY w \in Seq(Byte), LenProperties, ElementOfSeq
  <1>2. ReadChunk(c, w) = ReadAll(b, w)
    BY ONLY DEF ReadChunk, ReadAll
  <1>3. b \in Reading /\ Tracks(b, s, s)
    <2>1. c.iac \in Filter /\ c.buf \in Seq(Byte)
      BY ONLY s \in Decoded, c.iac = s.iac, c.buf = s.line DEF Decoded
    <2>2. b \in Reading
      BY ONLY <2>1 DEF Reading
    <2>3. b.iac = s.iac /\ b.buf = s.line /\ b.end = "no" /\ b.over = FALSE
      BY ONLY c.iac = s.iac, c.buf = s.line
    <2> HIDE DEF b
    <2> QED
      BY ONLY <2>2, <2>3 DEF Tracks
  <1>4. /\ k \in [0 .. n -> Decoded] /\ k[0] = s
        /\ \A j \in 1 .. n : k[j] = DecodeByte(k[j - 1], w[j])
    BY ONLY Passes(k, s, w) DEF Passes
  <1> HIDE DEF n, b
  <1>5. PICK f \in [0 .. n -> Reading] : /\ f[0] = b
                                         /\ \A m \in 1 .. n : f[m] = ReadByte(f[m - 1], w[m])
                                         /\ ReadAll(b, w) = f[n]
    <2>1. \A x \in Reading : \A m \in 1 .. n : ReadByte(x, w[m]) \in Reading
      BY ONLY <1>1, ReadIs
    <2>2. ReadChain(b, w, n, Reading)
      BY ONLY <1>1, <1>3, <2>1, ReadFold
    <2> QED
      BY ONLY <2>2 DEF ReadChain
  <1> DEFINE P == {m \in 0 .. n : Tracks(f[m], s, k[m])}
  <1>6. 0 \in P
    <2>1. 0 \in 0 .. n
      BY ONLY <1>1
    <2> QED
      BY ONLY <1>3, <1>4, <1>5, <2>1
  <1>7. ASSUME NEW m \in 1 .. n, m - 1 \in P PROVE m \in P
    <2>1. m \in 0 .. n /\ m - 1 \in 0 .. n
      BY ONLY <1>1, m \in 1 .. n
    <2>2. f[m - 1] \in Reading /\ k[m - 1] \in Decoded /\ w[m] \in Byte
      BY ONLY <1>1, <1>4, <1>5, <2>1, m \in 1 .. n
    <2>3. Tracks(f[m - 1], s, k[m - 1])
      BY ONLY <1>7
    <2>4. f[m] = ReadByte(f[m - 1], w[m]) /\ k[m] = DecodeByte(k[m - 1], w[m])
      BY ONLY <1>4, <1>5, m \in 1 .. n
    <2> DEFINE x == f[m - 1]
               y == k[m - 1]
               z == w[m]
    <2> HIDE DEF x, y, z
    <2>5. Tracks(ReadByte(x, z), s, DecodeByte(y, z))
      BY ONLY <2>2, <2>3, TracksByte DEF x, y, z
    <2>6. Tracks(f[m], s, k[m])
      BY ONLY <2>4, <2>5 DEF x, y, z
    <2> QED
      BY ONLY <2>1, <2>6
  <1> HIDE DEF P
  <1>8. n \in 0 .. n
    BY ONLY <1>1
  <1>9. n \in P
    BY ONLY <1>1, <1>6, <1>7, <1>8, Climb
  <1> QED
    BY ONLY <1>2, <1>5, <1>8, <1>9 DEF P, n

-----------------------------------------------------------------------------
(* The lines of a connection.                                               *)

\* What comes after a beginning.
LEMMA RestIs ==
    ASSUME NEW S, NEW w \in Seq(S), NEW p \in 0 .. Len(w)
    PROVE  /\ SubSeq(w, p + 1, Len(w)) \in Seq(S)
           /\ Len(SubSeq(w, p + 1, Len(w))) = Len(w) - p
           /\ \A i \in 1 .. Len(w) - p : SubSeq(w, p + 1, Len(w))[i] = w[p + i]
  <1> DEFINE N == Len(w)
             s == SubSeq(w, p + 1, N)
  <1>1. N \in Nat /\ p \in Nat /\ \A i \in 1 .. N : w[i] \in S
    BY ONLY w \in Seq(S), p \in 0 .. Len(w), LenProperties, ElementOfSeq
  <1> HIDE DEF N
  <1>2. p + 1 \in Int /\ N \in Int /\ p <= N /\ \A i \in p + 1 .. N : w[i] \in S
    <2>1. \A i \in p + 1 .. N : i \in 1 .. N
      BY ONLY <1>1
    <2> QED
      BY ONLY <1>1, <2>1, p \in 0 .. Len(w) DEF N
  <1>3. /\ s \in Seq(S) /\ Len(s) = IF p + 1 <= N THEN N - (p + 1) + 1 ELSE 0
        /\ \A i \in 1 .. N - (p + 1) + 1 : s[i] = w[(p + 1) + i - 1]
    BY ONLY <1>2, SubSeqProperties
  <1> HIDE DEF s
  <1>4. Len(s) = N - p /\ N - (p + 1) + 1 = N - p
    BY ONLY <1>1, <1>2, <1>3
  <1>5. \A i \in 1 .. N - p : (p + 1) + i - 1 = p + i
    BY ONLY <1>1
  <1> QED
    BY ONLY <1>3, <1>4, <1>5 DEF s, N

\* A beginning.
LEMMA FrontIs ==
    ASSUME NEW S, NEW w \in Seq(S), NEW n \in 0 .. Len(w)
    PROVE  /\ SubSeq(w, 1, n) \in Seq(S)
           /\ Len(SubSeq(w, 1, n)) = n
           /\ \A i \in 1 .. n : SubSeq(w, 1, n)[i] = w[i]
  <1> DEFINE s == SubSeq(w, 1, n)
  <1>1. Len(w) \in Nat /\ n \in Nat /\ n \in Int /\ n <= Len(w) /\ 1 \in Int
    BY ONLY w \in Seq(S), n \in 0 .. Len(w), LenProperties
  <1>2. \A i \in 1 .. n : w[i] \in S
    <2>1. \A i \in 1 .. n : i \in 1 .. Len(w)
      BY ONLY <1>1
    <2> QED
      BY ONLY <2>1, w \in Seq(S), ElementOfSeq
  <1>3. /\ s \in Seq(S) /\ Len(s) = IF 1 <= n THEN n - 1 + 1 ELSE 0
        /\ \A i \in 1 .. n - 1 + 1 : s[i] = w[1 + i - 1]
    BY ONLY <1>1, <1>2, SubSeqProperties
  <1> HIDE DEF s
  <1>4. Len(s) = n /\ n - 1 + 1 = n
    BY ONLY <1>1, <1>3
  <1>5. \A i \in 1 .. n : 1 + i - 1 = i
    BY ONLY <1>1
  <1> QED
    BY ONLY <1>3, <1>4, <1>5 DEF s

\* A sequence that continues another has it as a prefix.
LEMMA ContinuesPrefix ==
    ASSUME NEW S, NEW s \in Seq(S), NEW t \in Seq(S), Continues(s, t)
    PROVE  IsPrefix(s, t)
  <1> DEFINE n == Len(s)
             a == SubSeq(s, 1, n)
             b == SubSeq(t, 1, n)
  <1>1. n \in Nat /\ Len(t) \in Nat /\ n <= Len(t) /\ \A i \in 1 .. n : t[i] = s[i]
    BY ONLY s \in Seq(S), t \in Seq(S), LenProperties, Continues(s, t) DEF Continues
  <1> HIDE DEF n
  <1>2. n \in 0 .. Len(s) /\ n \in 0 .. Len(t)
    BY ONLY <1>1 DEF n
  <1>3. /\ a \in Seq(S) /\ Len(a) = n /\ \A i \in 1 .. n : a[i] = s[i]
    BY ONLY <1>2, s \in Seq(S), FrontIs
  <1>4. /\ b \in Seq(S) /\ Len(b) = n /\ \A i \in 1 .. n : b[i] = t[i]
    BY ONLY <1>2, t \in Seq(S), FrontIs
  <1> HIDE DEF a, b
  <1>5. a = b
    <2>1. \A i \in 1 .. Len(a) : a[i] = b[i]
      BY ONLY <1>1, <1>3, <1>4
    <2> QED
      BY ONLY <1>3, <1>4, <2>1, SeqEqual
  <1> QED
    BY ONLY <1>1, <1>5 DEF IsPrefix, a, b, n

\* A handler whose lines are those of the first p bytes of its client, and which
\* goes on from there if it is open.
Place(c, g, p) ==
    LET w == Bytes(c.items)
    IN  /\ Decodes(g, w) /\ p \in 0 .. Len(w)
        /\ c.lines = g[p].lines
        /\ c.state \notin Closed =>
              c.rest = SubSeq(w, p + 1, Len(w)) /\ c.iac = g[p].iac /\ c.buf = g[p].line

\* As long as no chunk went on after a line feed, a handler is at a place of
\* its stream.
Faithful(c) ==
    /\ c.items \in Seq(Item)
    /\ c.state = "new" => c.iac = "normal" /\ c.buf = << >> /\ c.lines = << >>
    /\ ~c.pipelined => \E g, p : Place(c, g, p)

\* A faithful handler that was not pipelined has whole lines.
LEMMA FaithfulLines ==
    ASSUME NEW c, Faithful(c), ~c.pipelined
    PROVE  IsPrefix(c.lines, LinesOf(c.items))
  <1> DEFINE items == c.items
             w == Bytes(items)
             N == Len(w)
  <1>1. PICK g, p : Place(c, g, p)
    BY DEF Faithful
  <1>2. items \in Seq(Item) /\ Decodes(g, w) /\ p \in 0 .. N /\ c.lines = g[p].lines
    BY ONLY <1>1, Faithful(c) DEF Faithful, Place
  <1>3. w \in Seq(Byte) /\ LinesOf(items) = g[N].lines
    <2> HIDE DEF items
    <2> QED
      BY ONLY <1>2, StreamDecoded
  <1> HIDE DEF w, items
  <1>4. N \in Nat /\ N \in 0 .. N
    BY ONLY <1>3, LenProperties
  <1>5. Continues(g[p].lines, g[N].lines)
    BY ONLY <1>2, <1>3, LinesGrow
  <1>6. g[p].lines \in Seq(Seq(Byte)) /\ g[N].lines \in Seq(Seq(Byte))
    <2>1. g \in [0 .. N -> Decoded]
      BY ONLY <1>2 DEF Decodes
    <2>2. g[p] \in Decoded /\ g[N] \in Decoded
      BY ONLY <1>2, <1>4, <2>1
    <2> QED
      BY ONLY <2>2 DEF Decoded
  <1>7. IsPrefix(g[p].lines, g[N].lines)
    BY ONLY <1>5, <1>6, ContinuesPrefix
  <1> QED
    BY ONLY <1>2, <1>3, <1>7 DEF items

\* d has read what c has.
SameReading(c, d) ==
    /\ d.items = c.items /\ d.rest = c.rest /\ d.iac = c.iac /\ d.buf = c.buf
    /\ d.lines = c.lines /\ d.pipelined = c.pipelined

\* A handler that only changes its state.
LEMMA ReadingKept ==
    ASSUME NEW c, Faithful(c), NEW d, SameReading(c, d), d.state # "new",
           d.state \in Closed \/ c.state \notin Closed
    PROVE  Faithful(d)
  <1>1. ASSUME ~d.pipelined PROVE \E g, p : Place(d, g, p)
    <2>1. PICK g, p : Place(c, g, p)
      BY <1>1 DEF Faithful, SameReading
    <2>2. Place(d, g, p)
      BY <2>1 DEF Place, SameReading
    <2> QED
      BY ONLY <2>2
  <1> QED
    BY <1>1 DEF Faithful, SameReading

\* Assigning to the state.
LEMMA StateRead ==
    ASSUME NEW c, IsHandler(c), NEW v \in States
    PROVE  SameReading(c, [c EXCEPT !.state = v]) /\ [c EXCEPT !.state = v].state = v
  BY DEF IsHandler, SameReading

\* What read_line makes of a chunk of n bytes: more of a line, the end of the
\* session, or a line.
ReadOn(c, d, n) ==
    LET r == ReadChunk(c, SubSeq(c.rest, 1, n))
        tail == SubSeq(c.rest, n + 1, Len(c.rest))
    IN  /\ d.items = c.items /\ d.state # "new"
        /\ ~d.pipelined => ~c.pipelined /\ ~r.over
        /\ \/ d.state \in Closed /\ d.lines = c.lines
           \/ /\ r.end = "no"
              /\ d.rest = tail /\ d.iac = r.iac /\ d.buf = r.buf /\ d.lines = c.lines
           \/ /\ r.end = "line"
              /\ d.rest = tail /\ d.iac = r.iac /\ d.buf = << >> /\ d.lines = Append(c.lines, r.buf)

\* An open handler that reads a chunk so stays faithful to its stream.
LEMMA ReadOnFaithful ==
    ASSUME NEW c, Faithful(c), c.state \notin Closed, NEW n \in Nat, n <= Len(c.rest),
           NEW d, ReadOn(c, d, n)
    PROVE  Faithful(d)
  <1> DEFINE w == Bytes(c.items)
             N == Len(w)
             rest == c.rest
             chunk == SubSeq(rest, 1, n)
             tail == SubSeq(rest, n + 1, Len(rest))
             r == ReadChunk(c, chunk)
  <1>1. /\ d.items = c.items /\ d.state # "new"
        /\ ~d.pipelined => ~c.pipelined /\ ~r.over
        /\ \/ d.state \in Closed /\ d.lines = c.lines
           \/ /\ r.end = "no"
              /\ d.rest = tail /\ d.iac = r.iac /\ d.buf = r.buf /\ d.lines = c.lines
           \/ /\ r.end = "line"
              /\ d.rest = tail /\ d.iac = r.iac /\ d.buf = << >> /\ d.lines = Append(c.lines, r.buf)
    BY ONLY ReadOn(c, d, n) DEF ReadOn
  <1>2. ASSUME ~d.pipelined PROVE \E g, p : Place(d, g, p)
    <2>1. PICK g, p : Place(c, g, p)
      BY ONLY <1>1, <1>2, Faithful(c) DEF Faithful
    <2>2. /\ Decodes(g, w) /\ p \in 0 .. N /\ c.lines = g[p].lines
          /\ rest = SubSeq(w, p + 1, N) /\ c.iac = g[p].iac /\ c.buf = g[p].line
      BY ONLY <2>1, c.state \notin Closed DEF Place
    <2>3. ~r.over
      BY ONLY <1>1, <1>2
    <2>4. w \in Seq(Byte)
      <3> DEFINE items == c.items
      <3>1. items \in Seq(Item)
        BY ONLY Faithful(c) DEF Faithful
      <3>2. Decodes(g, Bytes(items))
        BY ONLY <2>2
      <3> HIDE DEF items
      <3>3. Bytes(items) \in Seq(Byte)
        BY ONLY <3>1, <3>2, StreamDecoded
      <3> QED
        BY ONLY <3>3 DEF items
    <2>5. /\ g \in [0 .. N -> Decoded]
          /\ \A m \in 1 .. N : g[m] = DecodeByte(g[m - 1], w[m])
      BY ONLY <2>2 DEF Decodes
    <2> HIDE DEF w
    <2>6. N \in Nat /\ p \in Nat /\ p <= N
      BY ONLY <2>2, <2>4, LenProperties
    <2>7. /\ rest \in Seq(Byte) /\ Len(rest) = N - p
          /\ \A i \in 1 .. N - p : rest[i] = w[p + i]
      BY ONLY <2>2, <2>4, RestIs
    <2> HIDE DEF N, rest, r
    <2>8. n \in 0 .. Len(rest) /\ p + n \in 0 .. N /\ Len(rest) \in Nat
      BY ONLY <2>6, <2>7, n \in Nat, n <= Len(c.rest) DEF rest
    <2>9. /\ chunk \in Seq(Byte) /\ Len(chunk) = n
          /\ \A j \in 1 .. n : chunk[j] = w[p + j]
      <3>1. /\ chunk \in Seq(Byte) /\ Len(chunk) = n
            /\ \A j \in 1 .. n : chunk[j] = rest[j]
        BY ONLY <2>7, <2>8, FrontIs
      <3> HIDE DEF chunk
      <3>2. \A j \in 1 .. n : j \in 1 .. N - p
        BY ONLY <2>6, <2>7, <2>8
      <3> QED
        BY ONLY <2>7, <3>1, <3>2
    <2>10. tail = SubSeq(w, (p + n) + 1, N)
      <3> DEFINE u == SubSeq(w, (p + n) + 1, N)
      <3>1. /\ u \in Seq(Byte) /\ Len(u) = N - (p + n)
            /\ \A i \in 1 .. N - (p + n) : u[i] = w[(p + n) + i]
        BY ONLY <2>4, <2>8, RestIs DEF N
      <3>2. /\ tail \in Seq(Byte) /\ Len(tail) = Len(rest) - n
            /\ \A i \in 1 .. Len(rest) - n : tail[i] = rest[n + i]
        BY ONLY <2>7, <2>8, RestIs
      <3> HIDE DEF u, tail
      <3>3. Len(u) = Len(tail)
        BY ONLY <2>6, <2>7, <3>1, <3>2, n \in Nat
      <3>4. ASSUME NEW i \in 1 .. Len(u) PROVE u[i] = tail[i]
        <4>1. /\ i \in 1 .. N - (p + n) /\ i \in 1 .. Len(rest) - n /\ n + i \in 1 .. N - p
              /\ p + (n + i) = (p + n) + i
          BY ONLY <2>6, <2>7, <2>8, <3>1, n \in Nat, i \in 1 .. Len(u)
        <4>2. u[i] = w[(p + n) + i] /\ tail[i] = rest[n + i] /\ rest[n + i] = w[p + (n + i)]
          BY ONLY <2>7, <3>1, <3>2, <4>1
        <4> QED
          BY ONLY <4>1, <4>2
      <3>5. u = tail
        BY ONLY <3>1, <3>2, <3>3, <3>4, SeqEqual
      <3> QED
        BY ONLY <3>5 DEF u
    <2> DEFINE k == [j \in 0 .. n |-> g[p + j]]
               q == p + n
    <2>11. Passes(k, g[p], chunk)
      <3>1. k \in [0 .. n -> Decoded]
        <4>1. \A j \in 0 .. n : p + j \in 0 .. N
          BY ONLY <2>6, <2>8, n \in Nat
        <4> QED
          BY ONLY <2>5, <4>1
      <3>2. k[0] = g[p]
        <4>1. 0 \in 0 .. n /\ p + 0 = p
          BY ONLY <2>6, n \in Nat
        <4> QED
          BY ONLY <4>1
      <3>3. ASSUME NEW j \in 1 .. n PROVE k[j] = DecodeByte(k[j - 1], chunk[j])
        <4>1. /\ j \in 0 .. n /\ j - 1 \in 0 .. n /\ p + j \in 1 .. N /\ (p + j) - 1 = p + (j - 1)
          BY ONLY <2>6, <2>8, n \in Nat, j \in 1 .. n
        <4>2. g[p + j] = DecodeByte(g[p + (j - 1)], w[p + j]) /\ chunk[j] = w[p + j]
          BY ONLY <2>5, <2>9, <4>1, j \in 1 .. n
        <4> HIDE DEF chunk
        <4> QED
          BY ONLY <4>1, <4>2
      <3> HIDE DEF k, chunk
      <3> QED
        BY ONLY <2>9, <3>1, <3>2, <3>3 DEF Passes
    <2>12. k[Len(chunk)] = g[q]
      <3>1. n \in 0 .. n
        BY ONLY n \in Nat
      <3> HIDE DEF chunk
      <3> QED
        BY ONLY <2>9, <3>1
    <2> HIDE DEF k, chunk, q
    <2>13. Tracks(r, g[p], g[q])
      <3> DEFINE s == g[p]
      <3>1. s \in Decoded
        BY ONLY <2>2, <2>5
      <3>2. c.iac = s.iac /\ c.buf = s.line /\ Passes(k, s, chunk)
        BY ONLY <2>2, <2>11
      <3> HIDE DEF s
      <3>3. Tracks(ReadChunk(c, chunk), s, k[Len(chunk)])
        BY ONLY <2>9, <3>1, <3>2, ChunkRead
      <3> QED
        BY ONLY <2>12, <3>3 DEF r, s
    <2>14. q \in 0 .. N /\ tail = SubSeq(w, q + 1, N)
      BY ONLY <2>8, <2>10 DEF q
    <2> HIDE DEF tail
    <2>15. CASE d.state \in Closed /\ d.lines = c.lines
      <3>1. Place(d, g, p)
        BY ONLY <1>1, <2>2, <2>15 DEF Place, w, N
      <3> QED
        BY ONLY <3>1
    <2>16. CASE r.end = "no" /\ d.rest = tail /\ d.iac = r.iac /\ d.buf = r.buf /\ d.lines = c.lines
      <3>1. r.iac = g[q].iac /\ r.buf = g[q].line /\ g[q].lines = g[p].lines
        BY ONLY <2>13, <2>16 DEF Tracks
      <3>2. Place(d, g, q)
        BY ONLY <1>1, <2>2, <2>14, <2>16, <3>1 DEF Place, w, N
      <3> QED
        BY ONLY <3>2
    <2>17. CASE /\ r.end = "line" /\ d.rest = tail /\ d.iac = r.iac /\ d.buf = << >>
                /\ d.lines = Append(c.lines, r.buf)
      <3>1. r.iac = g[q].iac /\ g[q].line = << >> /\ g[q].lines = Append(g[p].lines, r.buf)
        BY ONLY <2>3, <2>13, <2>17 DEF Tracks
      <3>2. Place(d, g, q)
        BY ONLY <1>1, <2>2, <2>14, <2>17, <3>1 DEF Place, w, N
      <3> QED
        BY ONLY <3>2
    <2> QED
      BY ONLY <1>1, <2>15, <2>16, <2>17 DEF tail
  <1> QED
    BY ONLY <1>1, <1>2, Faithful(c) DEF Faithful

\* A line changes nothing of what has been read but the lines.
LEMMA LineRead ==
    ASSUME NEW c, IsHandler(c), c.state = "reading", NEW line
    PROVE  LET d == [OnLine(c, line) EXCEPT !.lines = Append(@, line)]
           IN  /\ d.items = c.items /\ d.rest = c.rest /\ d.iac = c.iac /\ d.buf = c.buf
               /\ d.pipelined = c.pipelined /\ d.lines = Append(c.lines, line)
               /\ d.state # "new"
  <1> DEFINE lines == Append(c.lines, line)
             d == [OnLine(c, line) EXCEPT !.lines = Append(@, line)]
             state == IF c.tries = 2 THEN "closed" ELSE c.state
  <1>1. CASE c.phase = "login"
    <2>1. d = [c EXCEPT !.phase = "password", !.lines = lines]
      BY <1>1 DEF OnLine, IsHandler
    <2> HIDE DEF lines, d
    <2>2. /\ d.items = c.items /\ d.rest = c.rest /\ d.iac = c.iac /\ d.buf = c.buf
          /\ d.pipelined = c.pipelined /\ d.lines = lines /\ d.state = "reading"
      BY <2>1 DEF IsHandler
    <2> QED
      BY ONLY <2>2 DEF d, lines
  <1>2. CASE c.phase = "password" /\ Accepts(Last(c.lines), line)
    <2>1. d = [c EXCEPT !.phase = "shell", !.lines = lines]
      BY <1>2 DEF OnLine, IsHandler
    <2> HIDE DEF lines, d
    <2>2. /\ d.items = c.items /\ d.rest = c.rest /\ d.iac = c.iac /\ d.buf = c.buf
          /\ d.pipelined = c.pipelined /\ d.lines = lines /\ d.state = "reading"
      BY <2>1 DEF IsHandler
    <2> QED
      BY ONLY <2>2 DEF d, lines
  <1>3. CASE c.phase = "password" /\ ~Accepts(Last(c.lines), line)
    <2>1. d = [c EXCEPT !.phase = "login", !.tries = c.tries + 1, !.state = state, !.lines = lines]
      BY <1>3 DEF OnLine, IsHandler
    <2>2. state # "new"
      OBVIOUS
    <2> HIDE DEF lines, d, state
    <2>3. /\ d.items = c.items /\ d.rest = c.rest /\ d.iac = c.iac /\ d.buf = c.buf
          /\ d.pipelined = c.pipelined /\ d.lines = lines /\ d.state = state
      BY <2>1 DEF IsHandler
    <2> QED
      BY ONLY <2>2, <2>3 DEF d, lines
  <1>4. CASE c.phase = "shell"
    <2>1. d = [c EXCEPT !.state = "busy", !.lines = lines]
      BY <1>4 DEF OnLine, IsHandler
    <2> HIDE DEF lines, d
    <2>2. /\ d.items = c.items /\ d.rest = c.rest /\ d.iac = c.iac /\ d.buf = c.buf
          /\ d.pipelined = c.pipelined /\ d.lines = lines /\ d.state = "busy"
      BY <2>1 DEF IsHandler
    <2> QED
      BY ONLY <2>2 DEF d, lines
  <1> QED
    BY <1>1, <1>2, <1>3, <1>4 DEF IsHandler

\* A faithful handler after a step of connection k.
Reads(k) == \E d : Faithful(d) /\ conn' = [conn EXCEPT ![k] = d]

\* However a handler ends or goes on.
LEMMA EndReads ==
    ASSUME NEW k \in Conns, NEW c, IsHandler(c), Faithful(c), End(k, c)
    PROVE  Reads(k)
  <1>1. CASE conn' = [conn EXCEPT ![k] = c]
    BY <1>1 DEF Reads
  <1>2. CASE c.state \in Closed /\ conn' = [conn EXCEPT ![k] = [c EXCEPT !.state = "failed"]]
    <2> DEFINE d == [c EXCEPT !.state = "failed"]
    <2>1. "failed" \in States /\ "failed" \in Closed
      BY DEF States, Closed
    <2>2. SameReading(c, d) /\ d.state = "failed"
      BY <2>1, StateRead
    <2> HIDE DEF d
    <2>3. Faithful(d)
      BY <2>1, <2>2, ReadingKept
    <2> QED
      BY <1>2, <2>3 DEF Reads, d
  <1> QED
    BY <1>1, <1>2 DEF End

\* An open handler that goes into another state, and may end there.
LEMMA StateReads ==
    ASSUME NEW k \in Conns, IsHandler(conn[k]), Faithful(conn[k]), Open(k), NEW v \in EndState,
           End(k, [conn[k] EXCEPT !.state = v])
    PROVE  Reads(k)
  <1> DEFINE c == conn[k]
             d == [c EXCEPT !.state = v]
  <1>1. v \in States /\ v # "new" /\ c.state \notin Closed
    BY DEF EndState, States, Closed, Open
  <1>2. IsHandler(d)
    BY <1>1, StateUpdate
  <1>3. SameReading(c, d) /\ d.state = v
    BY <1>1, StateRead
  <1>4. End(k, d)
    OBVIOUS
  <1> HIDE DEF d
  <1>5. Faithful(d)
    BY <1>1, <1>3, ReadingKept
  <1> QED
    BY ONLY <1>2, <1>4, <1>5, k \in Conns, EndReads

\* A chunk arrives (telnet.py, read_line).
LEMMA ReceiveReads ==
    ASSUME DialogueInv, NEW k \in Conns, Faithful(conn[k]), NEW n \in Nat, Receive(k, n)
    PROVE  Reads(k)
  <1> DEFINE c == conn[k]
             r == ReadChunk(c, SubSeq(c.rest, 1, n))
             tail == SubSeq(c.rest, n + 1, Len(c.rest))
             over == c.pipelined \/ r.over
             read == [c EXCEPT !.rest = tail, !.iac = r.iac, !.pipelined = over]
  <1>1. IsHandler(c) /\ Dialogue(c) /\ c.state = "reading" /\ n <= Len(c.rest)
    BY DEF DialogueInv, TypeOK, Receive
  <1>2. c.state \notin Closed
    BY ONLY <1>1 DEF Closed
  <1>3. \/ r.end = "no" /\ End(k, [read EXCEPT !.buf = r.buf])
        \/ r.end = "oversized" /\ End(k, [read EXCEPT !.state = "closed"])
        \/ r.end = "line" /\ End(k, [OnLine([read EXCEPT !.buf = << >>], r.buf) EXCEPT
                                       !.lines = Append(@, r.buf)])
    BY DEF Receive
  <1>4. ~over => ~c.pipelined /\ ~r.over
    OBVIOUS
  <1>5. ASSUME NEW d, IsHandler(d), End(k, d), d.items = c.items, d.state # "new",
               d.pipelined = over,
               \/ d.state \in Closed /\ d.lines = c.lines
               \/ /\ r.end = "no"
                  /\ d.rest = tail /\ d.iac = r.iac /\ d.buf = r.buf /\ d.lines = c.lines
               \/ /\ r.end = "line"
                  /\ d.rest = tail /\ d.iac = r.iac /\ d.buf = << >> /\ d.lines = Append(c.lines, r.buf)
        PROVE  Reads(k)
    <2>0. ~d.pipelined => ~c.pipelined /\ ~r.over
      <3> HIDE DEF over, r
      <3> QED
        BY ONLY <1>4, <1>5
    <2>1. ReadOn(c, d, n)
      BY ONLY <1>5, <2>0 DEF ReadOn
    <2> HIDE DEF c
    <2>2. Faithful(d)
      BY ONLY <1>1, <1>2, <2>1, Faithful(conn[k]), n \in Nat, ReadOnFaithful DEF c
    <2> QED
      BY ONLY <1>5, <2>2, k \in Conns, EndReads
  <1> HIDE DEF c, r, tail, over
  <1>6. /\ IsHandler(read) /\ read.state = "reading" /\ read.items = c.items /\ read.rest = tail
        /\ read.iac = r.iac /\ read.buf = c.buf /\ read.lines = c.lines /\ read.pipelined = over
        /\ SameDialogue(c, read)
    BY <1>1 DEF IsHandler, SameDialogue
  <1> HIDE DEF read
  <1>7. \A v : LET d == [read EXCEPT !.buf = v]
               IN  /\ IsHandler(d) /\ d.state = "reading" /\ d.items = c.items /\ d.rest = tail
                   /\ d.iac = r.iac /\ d.buf = v /\ d.lines = c.lines /\ d.pipelined = over
                   /\ SameDialogue(c, d)
    BY <1>6 DEF IsHandler, SameDialogue
  <1>8. CASE r.end = "no" /\ End(k, [read EXCEPT !.buf = r.buf])
    <2> DEFINE d == [read EXCEPT !.buf = r.buf]
    <2>1. /\ IsHandler(d) /\ d.state = "reading" /\ d.items = c.items /\ d.rest = tail
          /\ d.iac = r.iac /\ d.buf = r.buf /\ d.lines = c.lines /\ d.pipelined = over
      BY ONLY <1>7
    <2>2. End(k, d)
      BY ONLY <1>8
    <2> HIDE DEF d
    <2>3. d.state # "new"
      BY ONLY <2>1
    <2> QED
      BY ONLY <1>5, <1>8, <2>1, <2>2, <2>3
  <1>9. CASE End(k, [read EXCEPT !.state = "closed"])
    <2> DEFINE d == [read EXCEPT !.state = "closed"]
    <2>1. "closed" \in States /\ "closed" \in Closed
      BY ONLY DEF Closed, States
    <2>2. IsHandler(d) /\ SameReading(read, d) /\ d.state = "closed"
      BY ONLY <1>6, <2>1, StateUpdate, StateRead
    <2>3. End(k, d)
      BY ONLY <1>9
    <2> HIDE DEF d
    <2>4. d.state # "new" /\ d.items = c.items /\ d.lines = c.lines /\ d.pipelined = over
      BY ONLY <1>6, <2>2 DEF SameReading
    <2> QED
      BY ONLY <1>5, <2>1, <2>2, <2>3, <2>4
  <1>10. CASE r.end = "line" /\ End(k, [OnLine([read EXCEPT !.buf = << >>], r.buf) EXCEPT
                                          !.lines = Append(@, r.buf)])
    <2> DEFINE c0 == [read EXCEPT !.buf = << >>]
               d == [OnLine(c0, r.buf) EXCEPT !.lines = Append(@, r.buf)]
    <2>1. /\ IsHandler(c0) /\ c0.state = "reading" /\ c0.items = c.items /\ c0.rest = tail
          /\ c0.iac = r.iac /\ c0.buf = << >> /\ c0.lines = c.lines /\ c0.pipelined = over
          /\ SameDialogue(c, c0)
      BY ONLY <1>7
    <2>2. End(k, d)
      BY ONLY <1>10
    <2> HIDE DEF c0
    <2>3. /\ d.items = c0.items /\ d.rest = c0.rest /\ d.iac = c0.iac /\ d.buf = c0.buf
          /\ d.pipelined = c0.pipelined /\ d.lines = Append(c0.lines, r.buf)
          /\ d.state # "new"
      BY ONLY <2>1, LineRead
    <2>4. IsHandler(d)
      <3>1. Handler(c0)
        BY ONLY <1>1, <2>1, DialogueKept DEF Handler
      <3>2. Handler(d)
        BY ONLY <2>1, <3>1, LineKept
      <3> QED
        BY ONLY <3>2 DEF Handler
    <2> HIDE DEF d
    <2> QED
      BY ONLY <1>5, <1>10, <2>1, <2>2, <2>3, <2>4
  <1> QED
    BY ONLY <1>3, <1>8, <1>9, <1>10

\* A stream of which nothing has been read.
LEMMA StreamBegins ==
    ASSUME NEW items \in Seq(Item)
    PROVE  LET w == Bytes(items)
           IN  /\ 0 \in 0 .. Len(w) /\ w = SubSeq(w, 0 + 1, Len(w))
               /\ \E g : Decodes(g, w) /\ g[0].iac = "normal" /\ g[0].line = << >> /\ g[0].lines = << >>
  <1> DEFINE w == Bytes(items)
  <1>1. w \in Seq(Byte)
    <2>1. PICK F : Spells(F, items)
      BY ONLY items \in Seq(Item), BytesAre
    <2>2. F \in [0 .. Len(items) -> Seq(Byte)] /\ w = F[Len(items)]
      BY ONLY <2>1 DEF Spells
    <2>3. Len(items) \in 0 .. Len(items)
      BY ONLY items \in Seq(Item), LenProperties
    <2> QED
      BY ONLY <2>2, <2>3
  <1> HIDE DEF w
  <1>2. Len(w) \in Nat /\ 0 \in 0 .. Len(w) /\ Len(w) \in 0 .. Len(w) /\ 0 + 1 = 1
    BY ONLY <1>1, LenProperties
  <1>3. w = SubSeq(w, 0 + 1, Len(w))
    <2> DEFINE u == SubSeq(w, 1, Len(w))
    <2>1. u \in Seq(Byte) /\ Len(u) = Len(w) /\ \A i \in 1 .. Len(w) : u[i] = w[i]
      BY ONLY <1>1, <1>2, FrontIs
    <2> HIDE DEF u
    <2>2. w = u
      BY ONLY <1>1, <2>1, SeqEqual
    <2> QED
      BY ONLY <1>2, <2>2 DEF u
  <1>4. PICK g : Decodes(g, w)
    BY ONLY <1>1, DecodesExist
  <1>5. g[0].iac = "normal" /\ g[0].line = << >> /\ g[0].lines = << >>
    BY ONLY <1>4 DEF Decodes, NothingRead
  <1> QED
    BY ONLY <1>2, <1>3, <1>4, <1>5 DEF w

\* A handler that has read nothing is faithful.
LEMMA FreshFaithful ==
    ASSUME NEW d, d.items \in Seq(Item), d.iac = "normal", d.buf = << >>, d.lines = << >>,
           d.state \notin Closed => d.rest = Bytes(d.items)
    PROVE  Faithful(d)
  <1> DEFINE items == d.items
             w == Bytes(items)
  <1>1. /\ 0 \in 0 .. Len(w) /\ w = SubSeq(w, 0 + 1, Len(w))
        /\ \E g : Decodes(g, w) /\ g[0].iac = "normal" /\ g[0].line = << >> /\ g[0].lines = << >>
    BY ONLY d.items \in Seq(Item), StreamBegins
  <1>2. PICK g : Decodes(g, w) /\ g[0].iac = "normal" /\ g[0].line = << >> /\ g[0].lines = << >>
    BY ONLY <1>1
  <1>3. Place(d, g, 0)
    <2>1. d.state \notin Closed => d.rest = SubSeq(w, 0 + 1, Len(w))
      BY ONLY <1>1, d.state \notin Closed => d.rest = Bytes(d.items)
    <2>2. d.iac = g[0].iac /\ d.buf = g[0].line /\ d.lines = g[0].lines
      BY ONLY <1>2, d.iac = "normal", d.buf = << >>, d.lines = << >>
    <2> QED
      BY ONLY <1>1, <1>2, <2>1, <2>2 DEF Place
  <1> QED
    BY <1>3 DEF Faithful

\* Every step of a connection keeps its handler faithful.
LEMMA StepReads ==
    ASSUME DialogueInv, NEW k \in Conns, Faithful(conn[k]), Step(k)
    PROVE  Reads(k)
  <1> DEFINE c == conn[k]
  <1>0. IsHandler(c) /\ conn \in [Conns -> {conn[j] : j \in Conns}]
    BY DEF DialogueInv, TypeOK
  <1>1. ASSUME NEW items \in Messages[k], Connect(k, items) PROVE Reads(k)
    <2> DEFINE d == [c EXCEPT !.state = "reading", !.items = items, !.rest = Bytes(items)]
    <2>1. items \in Seq(Item)
      BY ConnAssumption
    <2>2. conn' = [conn EXCEPT ![k] = d]
      BY <1>0, <1>1 DEF Connect
    <2>3. c.iac = "normal" /\ c.buf = << >> /\ c.lines = << >>
      BY <1>1 DEF Connect, Faithful
    <2> HIDE DEF c
    <2>4. /\ d.items = items /\ d.rest = Bytes(items) /\ d.iac = c.iac /\ d.buf = c.buf
          /\ d.lines = c.lines
      BY <1>0 DEF IsHandler
    <2> HIDE DEF d
    <2>5. Faithful(d)
      BY ONLY <2>1, <2>3, <2>4, FreshFaithful
    <2> QED
      BY ONLY <2>2, <2>5 DEF Reads
  <1>2. ASSUME NEW v \in {"rejected", "failed"}, conn' = [conn EXCEPT ![k].state = v] PROVE Reads(k)
    <2> DEFINE d == [c EXCEPT !.state = v]
    <2>1. v \in States /\ v \in Closed /\ v # "new"
      BY ONLY <1>2 DEF States, Closed
    <2>2. conn' = [conn EXCEPT ![k] = d]
      BY ONLY <1>0, <1>2
    <2> HIDE DEF c
    <2>3. SameReading(c, d) /\ d.state = v
      BY ONLY <1>0, <2>1, StateRead
    <2> HIDE DEF d
    <2>4. Faithful(d)
      BY ONLY <2>1, <2>3, Faithful(conn[k]), ReadingKept DEF c
    <2> QED
      BY ONLY <2>2, <2>4 DEF Reads
  <1>3. CASE Reject(k)
    BY ONLY <1>2, <1>3 DEF Reject
  <1>4. CASE ConnectFails(k)
    BY ONLY <1>2, <1>4 DEF ConnectFails
  <1>5. ASSUME NEW n \in 1 .. MaxChunk, Receive(k, n) PROVE Reads(k)
    <2>1. n \in Nat
      BY LineAssumption
    <2> QED
      BY ONLY <1>5, <2>1, DialogueInv, k \in Conns, Faithful(conn[k]), ReceiveReads
  <1>6. ASSUME NEW exit \in BOOLEAN, Reply(k, exit) PROVE Reads(k)
    <2> DEFINE v == IF exit THEN "closed" ELSE "reading"
    <2>1. v \in EndState /\ Open(k) /\ End(k, [conn[k] EXCEPT !.state = v])
      BY <1>6 DEF Reply, Open, EndState, Closed
    <2> HIDE DEF v
    <2> QED
      BY ONLY <1>0, <2>1, k \in Conns, Faithful(conn[k]), StateReads
  <1>7. CASE Disconnect(k)
    <2>1. "closed" \in EndState /\ Open(k) /\ End(k, [conn[k] EXCEPT !.state = "closed"])
      BY <1>7 DEF Disconnect, Open, EndState, Closed
    <2> QED
      BY ONLY <1>0, <2>1, k \in Conns, Faithful(conn[k]), StateReads
  <1>8. CASE Cap(k)
    <2>1. "capped" \in EndState /\ Open(k) /\ End(k, [conn[k] EXCEPT !.state = "capped"])
      BY <1>8 DEF Cap, EndState
    <2> QED
      BY ONLY <1>0, <2>1, k \in Conns, Faithful(conn[k]), StateReads
  <1> QED
    BY ONLY <1>1, <1>3, <1>4, <1>5, <1>6, <1>7, <1>8, Step(k) DEF Step

ReadInv == \A k \in Conns : Faithful(conn[k])

\* telnet.py:35: however the network cuts what a client sends, and whatever
\* commands are embedded in it, the lines read are a prefix of the lines the
\* client meant, as long as none of its chunks goes on after a line feed.
THEOREM LinesIntact == Spec => []LinesWhole
  <1>1. Init => ReadInv
    <2> SUFFICES ASSUME Init, NEW k \in Conns PROVE Faithful(conn[k])
      BY DEF ReadInv
    <2>1. /\ conn[k].items = << >> /\ conn[k].iac = "normal" /\ conn[k].buf = << >>
          /\ conn[k].lines = << >> /\ conn[k].state = "new"
      BY DEF Init
    <2>2. conn[k].items \in Seq(Item) /\ conn[k].state \in Closed
      BY <2>1 DEF Closed
    <2> DEFINE c == conn[k]
    <2> HIDE DEF c
    <2>3. Faithful(c)
      BY ONLY <2>1, <2>2, FreshFaithful DEF c
    <2> QED
      BY ONLY <2>3 DEF c
  <1>2. ReadInv /\ UNCHANGED vars => ReadInv'
    BY DEF ReadInv, vars
  <1>3. ASSUME DialogueInv, ReadInv, NEW k \in Conns, Step(k) PROVE ReadInv'
    <2>1. PICK d : Faithful(d) /\ conn' = [conn EXCEPT ![k] = d]
      BY ONLY <1>3, StepReads DEF Reads, ReadInv
    <2>2. \A j \in Conns : conn'[j] = IF j = k THEN d ELSE conn[j]
      BY <1>3, <2>1 DEF DialogueInv, TypeOK
    <2>3. ASSUME NEW j \in Conns PROVE Faithful(conn'[j])
      BY ONLY <1>3, <2>1, <2>2, <2>3 DEF ReadInv
    <2> QED
      BY <2>3 DEF ReadInv
  <1>4. DialogueInv /\ ReadInv /\ [Next]_vars => ReadInv'
    BY <1>2, <1>3 DEF Next, Step
  <1>5. ReadInv => LinesWhole
    BY FaithfulLines DEF ReadInv, LinesWhole
  <1> QED
    BY <1>1, <1>4, <1>5, DialogueInductive, PTL DEF Spec

=============================================================================
