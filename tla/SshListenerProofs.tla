------------------------- MODULE SshListenerProofs -------------------------
(***************************************************************************)
(* Proofs about the SSH listener, for any number of addresses, connections *)
(* and channels, any command lines and any limits.                         *)
(***************************************************************************)
EXTENDS SshListener, ConnectionLimiterProofs, SequenceTheorems

-----------------------------------------------------------------------------
(* Type correctness.  A task that waits for a download is inside a line.    *)

InsideLine == \A h \in Channels : chan[h].state = "fetch" => chan[h].rest # << >>

TypeInv == TypeOK /\ InsideLine

TaskState == {"unopened", "ready", "running", "fetch", "ended", "capped", "raised",
              "failed"}
Segments == Seq({"cmd", "wget", "exit"})

\* Assigning to one field of a channel's task.
LEMMA ChanUpdate ==
    ASSUME NEW f \in [Channels -> Chan], NEW h \in Channels
    PROVE  /\ \A v \in TaskState : [f EXCEPT ![h].state = v] \in [Channels -> Chan]
           /\ \A v \in {"exec", "shell"} : [f EXCEPT ![h].kind = v] \in [Channels -> Chan]
           /\ \A v \in Segments : [f EXCEPT ![h].rest = v] \in [Channels -> Chan]
           /\ \A v \in Nat : [f EXCEPT ![h].commands = v] \in [Channels -> Chan]
           /\ \A v \in BOOLEAN : [f EXCEPT ![h].cut = v] \in [Channels -> Chan]
  <1>1. f[h] \in Chan
    OBVIOUS
  <1>2. \A v \in TaskState : [f[h] EXCEPT !.state = v] \in Chan
    BY <1>1 DEF Chan, TaskState
  <1>3. \A v \in {"exec", "shell"} : [f[h] EXCEPT !.kind = v] \in Chan
    BY <1>1 DEF Chan
  <1>4. \A v \in Segments : [f[h] EXCEPT !.rest = v] \in Chan
    BY <1>1 DEF Chan, Segments
  <1>5. \A v \in Nat : [f[h] EXCEPT !.commands = v] \in Chan
    BY <1>1 DEF Chan
  <1>6. \A v \in BOOLEAN : [f[h] EXCEPT !.cut = v] \in Chan
    BY <1>1 DEF Chan
  <1> QED
    BY <1>2, <1>3, <1>4, <1>5, <1>6

\* Assigning to one field of a session.
LEMMA SessionUpdate ==
    ASSUME NEW s \in Session
    PROVE  /\ \A v \in BOOLEAN : /\ [s EXCEPT !.closed = v] \in Session
                                 /\ [s EXCEPT !.transcript = v] \in Session
                                 /\ [s EXCEPT !.logins = v] \in Session
                                 /\ [s EXCEPT !.key = v] \in Session
                                 /\ [s EXCEPT !.none = v] \in Session
                                 /\ [s EXCEPT !.authenticated = v] \in Session
                                 /\ [s EXCEPT !.should_exit = v] \in Session
           /\ \A v \in Nat : /\ [s EXCEPT !.closings = v] \in Session
                             /\ [s EXCEPT !.versions = v] \in Session
           /\ \A e \in Event : [s EXCEPT !.lost = @ \cup {e}] \in Session
  BY DEF Session

\* What a step makes of the server object of a connection.
LEMMA ServerUpdate ==
    ASSUME NEW s \in Server
    PROVE  /\ [s EXCEPT !.tried = TRUE] \in Server
           /\ Reported(s) \in Server
           /\ [Reported(s) EXCEPT !.user = TRUE] \in Server
           /\ [Reported(s) EXCEPT !.limited = FALSE] \in Server
  <1>1. Reported(s) \in Server
    <2>1. (s.reported \/ Unreported(s)) \in BOOLEAN
      OBVIOUS
    <2> QED
      BY <2>1 DEF Reported, Server
  <1> HIDE DEF Reported
  <1>2. \A t \in Server : /\ [t EXCEPT !.tried = TRUE] \in Server
                          /\ [t EXCEPT !.user = TRUE] \in Server
                          /\ [t EXCEPT !.limited = FALSE] \in Server
    BY DEF Server
  <1> QED
    BY <1>1, <1>2

\* A segment has been handled: what is left of the line is still a line.
LEMMA AfterSegmentType ==
    ASSUME TypeOK, NEW h \in Channels, chan[h].rest # << >>,
           NEW segment \in {"cmd", "wget", "exit"}, AfterSegment(h, segment)
    PROVE  session' \in [Conns -> Session] /\ chan' \in [Channels -> Chan]
  <1> DEFINE rest == Tail(chan[h].rest)
             stops == Stops(session[ConnOf[h]], segment)
             left == IF stops THEN << >> ELSE rest
             dropped == stops /\ rest # << >> /\ segment # "exit"
  <1>1. rest \in Seq({"cmd", "wget", "exit"})
    BY HeadTailProperties DEF TypeOK, Chan
  <1>2. left \in Seq({"cmd", "wget", "exit"})
    BY <1>1
  <1>3. session' = [session EXCEPT ![ConnOf[h]].should_exit = @ \/ segment = "exit"]
    BY DEF AfterSegment
  <1>4. chan' = [chan EXCEPT ![h].state = "running", ![h].rest = left,
                             ![h].cut = @ \/ dropped]
    BY DEF AfterSegment
  <1> HIDE DEF rest, stops, left, dropped
  <1>5. session' \in [Conns -> Session]
    <2>1. ConnOf[h] \in Conns /\ session[ConnOf[h]] \in Session
      BY ConnAssumption DEF TypeOK
    <2>2. [session[ConnOf[h]] EXCEPT !.should_exit = @ \/ segment = "exit"] \in Session
      BY <2>1, SessionUpdate
    <2> QED
      BY <1>3, <2>1, <2>2 DEF TypeOK
  <1>6. [chan EXCEPT ![h].state = "running", ![h].rest = left][h].cut \in BOOLEAN
    BY DEF TypeOK, Chan
  <1>7. chan' \in [Channels -> Chan]
    BY <1>2, <1>4, <1>6, ChanUpdate DEF TypeOK, TaskState, Segments
  <1> QED
    BY <1>5, <1>7

\* Disconnecting keeps a session a session, whether or not it is logged.
LEMMA OnDisconnectType ==
    ASSUME NEW s \in Session
    PROVE  OnDisconnect(s) \in Session /\ OnDisconnectRaises(s) \in Session
  <1>1. [s EXCEPT !.closed = TRUE] \in Session
    BY SessionUpdate
  <1>2. [s EXCEPT !.closed = TRUE].closings + 1 \in Nat
    BY <1>1 DEF Session
  <1>3. [s EXCEPT !.closed = TRUE, !.closings = @ + 1] \in Session
    BY <1>1, <1>2, SessionUpdate
  <1>4. [s EXCEPT !.closed = TRUE, !.closings = @ + 1, !.transcript = FALSE] \in Session
    BY <1>3, SessionUpdate
  <1>5. [s EXCEPT !.closed = TRUE, !.lost = @ \cup {"closed"}] \in Session
    BY <1>1, SessionUpdate DEF Event
  <1> QED
    BY <1>4, <1>5 DEF OnDisconnect, OnDisconnectRaises

\* What the end of a task makes of its session.
LEMMA FinishEffect ==
    ASSUME TypeOK, NEW h \in Channels, NEW state, Finish(h, state)
    PROVE  \/ session' = session
           \/ session' = [session EXCEPT ![ConnOf[h]] = OnDisconnect(session[ConnOf[h]])]
           \/ /\ ~session[ConnOf[h]].closed
              /\ session' = [session EXCEPT ![ConnOf[h]] = OnDisconnectRaises(session[ConnOf[h]])]
  BY ConnAssumption DEF Finish, TypeOK

\* Ending a task keeps the types.
LEMMA FinishType ==
    ASSUME TypeOK, NEW h \in Channels, NEW state \in {"ended", "capped", "raised", "failed"},
           Finish(h, state)
    PROVE  session' \in [Conns -> Session] /\ chan' \in [Channels -> Chan]
  <1>1. chan' \in [Channels -> Chan]
    BY EmptySeq, ChanUpdate DEF Finish, TypeOK, TaskState, Segments
  <1>2. ConnOf[h] \in Conns /\ session[ConnOf[h]] \in Session
    BY ConnAssumption DEF TypeOK
  <1>3. /\ OnDisconnect(session[ConnOf[h]]) \in Session
        /\ OnDisconnectRaises(session[ConnOf[h]]) \in Session
    BY <1>2, OnDisconnectType
  <1>4. session' \in [Conns -> Session]
    BY <1>2, <1>3, FinishEffect DEF TypeOK
  <1> QED
    BY <1>1, <1>4

\* What connection_lost logs first keeps the session a session.
LEMMA LeftType ==
    ASSUME TypeOK, NEW k \in Conns
    PROVE  /\ VersionEvents(k) \in Nat
           /\ LeftWithoutTrying(server[k]) \in BOOLEAN
           /\ Left(k) \in Session
  <1>1. VersionEvents(k) \in Nat /\ LeftWithoutTrying(server[k]) \in BOOLEAN
    BY DEF VersionEvents, LeftWithoutTrying, TypeOK, Session
  <1>2. [session[k] EXCEPT !.versions = VersionEvents(k)] \in Session
    BY <1>1, SessionUpdate DEF TypeOK
  <1> QED
    BY <1>1, <1>2, SessionUpdate DEF Left

\* Every callback of a connection keeps the types.
LEMMA TypeConn ==
    ASSUME TypeOK, NEW k \in Conns, ConnStep(k)
    PROVE  TypeOK'
  <1>0. IpOf[k] \in Ips
    BY ConnAssumption
  <1>1. CASE ConnectionMade(k)
    <2>1. counts' \in [Ips -> Nat]
      BY <1>0, <1>1 DEF ConnectionMade, Acquire, TypeOK
    <2>2. [server[k] EXCEPT !.limited = TRUE, !.session = TRUE] \in Server
      BY DEF TypeOK, Server
    <2>3. server' \in [Conns -> Server]
      BY <1>1, <2>2 DEF ConnectionMade, TypeOK
    <2> QED
      BY <1>1, <2>1, <2>3 DEF ConnectionMade, TypeOK
  <1>1a. CASE ConnectionMadeFails(k)
    <2>1. counts' \in [Ips -> Nat]
      BY <1>0, <1>1a DEF ConnectionMadeFails, Acquire, TypeOK
    <2>2. PICK created \in BOOLEAN :
             server' = [server EXCEPT ![k].limited = TRUE, ![k].session = created]
      BY <1>1a DEF ConnectionMadeFails
    <2>3. [server[k] EXCEPT !.limited = TRUE, !.session = created] \in Server
      BY DEF TypeOK, Server
    <2>4. server' \in [Conns -> Server]
      BY <2>2, <2>3 DEF TypeOK
    <2> QED
      BY <1>1a, <2>1, <2>4 DEF ConnectionMadeFails, TypeOK
  <1>2. CASE ConnectionRejected(k)
    BY <1>2 DEF ConnectionRejected, TypeOK
  <1>3. CASE VersionArrives(k)
    BY <1>3 DEF VersionArrives, TypeOK, Server
  <1>4. CASE BeginAuth(k)
    <2>1. server' \in [Conns -> Server]
      BY <1>4, ServerUpdate DEF BeginAuth, TypeOK
    <2>2. VersionEvents(k) \in Nat
      BY LeftType
    <2>3. session' \in [Conns -> Session]
      BY <1>4, <2>2, SessionUpdate DEF BeginAuth, TypeOK
    <2> QED
      BY <1>4, <2>1, <2>3 DEF BeginAuth, TypeOK
  <1>5. CASE ValidatePublicKey(k)
    <2> DEFINE n == IF server[k].keys < MaxKeys THEN server[k].keys + 1 ELSE server[k].keys
    <2>1. n \in 0 .. MaxKeys
      BY KeysAssumption DEF TypeOK, Server
    <2>2. server' = [server EXCEPT ![k].tried = TRUE, ![k].keys = n]
      BY <1>5 DEF ValidatePublicKey, TypeOK
    <2>3. server' \in [Conns -> Server]
      <3> HIDE DEF n
      <3>1. server \in [Conns -> Server]
        BY DEF TypeOK
      <3>2. [server[k] EXCEPT !.tried = TRUE, !.keys = n] \in Server
        BY ONLY <2>1, <3>1, k \in Conns DEF Server
      <3>3. server' = [server EXCEPT ![k] = [server[k] EXCEPT !.tried = TRUE, !.keys = n]]
        BY ONLY <2>2, <3>1, k \in Conns
      <3> QED
        BY ONLY <3>1, <3>2, <3>3
    <2>4. session' \in [Conns -> Session]
      <3>1. (session[k].key \/ server[k].keys < MaxKeys) \in BOOLEAN
        OBVIOUS
      <3>2. [session[k] EXCEPT !.key = session[k].key \/ server[k].keys < MaxKeys] \in Session
        BY <3>1, SessionUpdate DEF TypeOK
      <3> QED
        BY <1>5, <3>2 DEF ValidatePublicKey, TypeOK
    <2> QED
      BY <1>5, <2>3, <2>4 DEF ValidatePublicKey, TypeOK
  <1>6. CASE ValidatePassword(k)
    <2>1. server' \in [Conns -> Server]
      BY <1>6, ServerUpdate DEF ValidatePassword, TypeOK
    <2>2. session' \in [Conns -> Session]
      <3>1. PICK accepted \in BOOLEAN :
               session' = [session EXCEPT ![k].logins = TRUE, ![k].authenticated = accepted]
        BY <1>6 DEF ValidatePassword
      <3>2. [session[k] EXCEPT !.logins = TRUE, !.authenticated = accepted] \in Session
        BY SessionUpdate DEF TypeOK
      <3> QED
        BY <3>1, <3>2 DEF TypeOK
    <2> QED
      BY <1>6, <2>1, <2>2 DEF ValidatePassword, TypeOK
  <1>7. CASE ConnectionLost(k)
    <2>1. counts' \in [Ips -> Nat]
      BY <1>0, <1>7 DEF ConnectionLost, Release, TypeOK
    <2>2. server' \in [Conns -> Server]
      BY <1>7, ServerUpdate DEF ConnectionLost, TypeOK
    <2>3. session' \in [Conns -> Session]
      BY <1>7, LeftType, OnDisconnectType DEF ConnectionLost, TypeOK
    <2> QED
      BY <1>7, <2>1, <2>2, <2>3 DEF ConnectionLost, TypeOK
  <1>8. CASE ConnectionLostFails(k)
    <2>1. server' \in [Conns -> Server]
      BY <1>8, ServerUpdate DEF ConnectionLostFails, TypeOK
    <2>2. session[k] \in Session
      BY DEF TypeOK
    <2>3. [session[k] EXCEPT !.versions = VersionEvents(k)] \in Session
      BY <2>2, LeftType, SessionUpdate
    <2>4. /\ [session[k] EXCEPT !.lost = @ \cup {"version"}] \in Session
          /\ [session[k] EXCEPT !.versions = VersionEvents(k),
                                !.lost = @ \cup {"none"}] \in Session
          /\ OnDisconnectRaises(Left(k)) \in Session
      BY <2>2, <2>3, LeftType, OnDisconnectType, SessionUpdate DEF Event
    <2>5. session' \in [Conns -> Session]
      BY <1>8, <2>4 DEF ConnectionLostFails, TypeOK
    <2> QED
      BY <1>8, <2>1, <2>5 DEF ConnectionLostFails, TypeOK
  <1>9. CASE AuthFails(k)
    <2>1. server[k] \in Server /\ session[k] \in Session
      BY DEF TypeOK
    <2>2. /\ [session[k] EXCEPT !.lost = @ \cup {"version"}] \in Session
          /\ [session[k] EXCEPT !.lost = @ \cup {"credential"}] \in Session
      BY <2>1, SessionUpdate DEF Event
    <2>3. session' \in [Conns -> Session]
      BY <1>9, <2>2 DEF AuthFails, TypeOK
    <2>4. server[k].keys < MaxKeys =>
             [server[k] EXCEPT !.tried = TRUE, !.keys = @ + 1] \in Server
      <3> DEFINE n == server[k].keys + 1
      <3>1. server[k].keys < MaxKeys => n \in 0 .. MaxKeys
        BY <2>1, KeysAssumption DEF Server
      <3>2. [server[k] EXCEPT !.tried = TRUE, !.keys = @ + 1] =
            [server[k] EXCEPT !.tried = TRUE, !.keys = n]
        BY ONLY <2>1 DEF Server
      <3> HIDE DEF n
      <3>3. n \in 0 .. MaxKeys => [server[k] EXCEPT !.tried = TRUE, !.keys = n] \in Server
        BY ONLY <2>1 DEF Server
      <3> QED
        BY <3>1, <3>2, <3>3
    <2>5. server' \in [Conns -> Server]
      <3>1. \/ server' = [server EXCEPT ![k] = Reported(server[k])]
            \/ server[k].keys < MaxKeys
               /\ server' = [server EXCEPT ![k] = [server[k] EXCEPT !.tried = TRUE, !.keys = @ + 1]]
            \/ server' = [server EXCEPT ![k] = [server[k] EXCEPT !.tried = TRUE]]
        BY <1>9, <2>1 DEF AuthFails, TypeOK
      <3>2. Reported(server[k]) \in Server /\ [server[k] EXCEPT !.tried = TRUE] \in Server
        BY <2>1, ServerUpdate
      <3> QED
        BY <2>4, <3>1, <3>2 DEF TypeOK
    <2> QED
      BY <1>9, <2>3, <2>5 DEF AuthFails, TypeOK
  <1> QED
    BY <1>1, <1>1a, <1>2, <1>3, <1>4, <1>5, <1>6, <1>7, <1>8, <1>9 DEF ConnStep

\* Every step of a channel's task keeps the types.
LEMMA TypeChannel ==
    ASSUME TypeInv, NEW h \in Channels, ChannelStep(h)
    PROVE  TypeInv'
  <1> USE DEF TypeInv
  <1> DEFINE Typed == session' \in [Conns -> Session] /\ chan' \in [Channels -> Chan]
             Ends(state) == state \in {"ended", "capped", "raised", "failed"} /\ Finish(h, state)
  <1>0. \A state : Ends(state) => TypeInv'
    <2> SUFFICES ASSUME NEW state, Ends(state) PROVE TypeInv'
      OBVIOUS
    <2>1. Typed
      BY FinishType
    <2>2. InsideLine'
      BY DEF Finish, InsideLine, TypeOK, Chan
    <2> QED
      BY <2>1, <2>2 DEF Finish, TypeOK
  <1>1. ASSUME NEW kind \in Kinds, OpenChannel(h, kind) PROVE TypeInv'
    <2>1. chan' \in [Channels -> Chan]
      BY <1>1, LineAssumption, ChanUpdate DEF OpenChannel, TypeOK, TaskState
    <2>2. InsideLine'
      BY <1>1 DEF OpenChannel, InsideLine, TypeOK, Chan
    <2> QED
      BY <1>1, <2>1, <2>2 DEF OpenChannel, TypeOK
  <1>2. ASSUME NEW line \in Lines, Receive(h, line) PROVE TypeInv'
    <2>1. line \in Segments
      BY LineAssumption DEF Segments
    <2>2. chan' \in [Channels -> Chan]
      <3> DEFINE n == chan[h].commands + 1
      <3>1. n \in Nat
        BY DEF TypeOK, Chan
      <3>2. chan' = [chan EXCEPT ![h].state = "running", ![h].rest = line, ![h].commands = n]
        BY <1>2 DEF Receive, TypeOK, Chan
      <3> HIDE DEF n
      <3> QED
        BY <2>1, <3>1, <3>2, ChanUpdate DEF TypeOK, TaskState
    <2>3. InsideLine'
      BY <1>2 DEF Receive, InsideLine, TypeOK, Chan
    <2> QED
      BY <1>2, <2>2, <2>3 DEF Receive, TypeOK
  <1>3. CASE RunSegment(h)
    <2>1. Head(chan[h].rest) \in {"cmd", "wget", "exit"}
      BY <1>3, HeadTailProperties DEF RunSegment, TypeOK, Chan
    <2>2. Typed
      BY <1>3, <2>1, AfterSegmentType DEF RunSegment
    <2>3. InsideLine'
      BY <1>3 DEF RunSegment, AfterSegment, InsideLine, TypeOK, Chan
    <2> QED
      BY <1>3, <2>2, <2>3 DEF RunSegment, TypeOK
  <1>4. CASE StartFetch(h)
    <2>1. chan' \in [Channels -> Chan]
      BY <1>4, ChanUpdate DEF StartFetch, TypeOK, TaskState
    <2>2. InsideLine'
      BY <1>4 DEF StartFetch, InsideLine, TypeOK, Chan
    <2> QED
      BY <1>4, <2>1, <2>2 DEF StartFetch, TypeOK
  <1>5. CASE EndFetch(h)
    <2>1. chan[h].rest # << >>
      BY <1>5 DEF EndFetch, InsideLine
    <2>2. Typed
      BY <1>5, <2>1, AfterSegmentType DEF EndFetch
    <2>3. InsideLine'
      BY <1>5 DEF EndFetch, AfterSegment, InsideLine, TypeOK, Chan
    <2> QED
      BY <1>5, <2>2, <2>3 DEF EndFetch, TypeOK
  <1>6. CASE Reply(h)
    <2>1. CASE Finish(h, "ended")
      BY <1>0, <2>1
    <2>2. CASE ~Finish(h, "ended")
      <3>1. chan' = [chan EXCEPT ![h].state = "ready"] /\ UNCHANGED <<counts, conn, server, session>>
        BY <1>6, <2>2 DEF Reply
      <3>2. chan' \in [Channels -> Chan]
        BY <3>1, ChanUpdate DEF TypeOK, TaskState
      <3>3. InsideLine'
        BY <3>1 DEF InsideLine, TypeOK, Chan
      <3> QED
        BY <3>1, <3>2, <3>3 DEF TypeOK
    <2> QED
      BY <2>1, <2>2
  <1>7. CASE Raise(h)
    BY <1>0, <1>7 DEF Raise
  <1>8. CASE EndOfInput(h)
    BY <1>0, <1>8 DEF EndOfInput
  <1>9. CASE Cap(h)
    BY <1>0, <1>9 DEF Cap
  <1>10. CASE LogFails(h)
    BY <1>0, <1>10 DEF LogFails
  <1> QED
    BY <1>1, <1>2, <1>3, <1>4, <1>5, <1>6, <1>7, <1>8, <1>9, <1>10 DEF ChannelStep

\* The SSH listener's variables keep their types.
THEOREM TypeCorrect == Spec => [](TypeOK /\ InsideLine)
  <1>1. Init => TypeInv
    <2> SUFFICES ASSUME Init PROVE TypeInv
      OBVIOUS
    <2>1. /\ counts \in [Ips -> Nat]
          /\ conn \in [Conns -> {"new", "open", "broken", "rejected", "lost", "failed"}]
      BY DEF Init
    <2>2. server \in [Conns -> Server]
      BY KeysAssumption DEF Init, Server
    <2>3. session \in [Conns -> Session]
      BY DEF Init, Session
    <2>4. chan \in [Channels -> Chan]
      BY EmptySeq DEF Init, Chan
    <2>5. InsideLine
      BY DEF Init, InsideLine
    <2> QED
      BY <2>1, <2>2, <2>3, <2>4, <2>5 DEF TypeInv, TypeOK
  <1>2. TypeInv /\ UNCHANGED vars => TypeInv'
    BY DEF TypeInv, TypeOK, InsideLine, vars
  <1>3. ASSUME TypeInv, NEW k \in Conns, ConnStep(k) PROVE TypeInv'
    <2>1. UNCHANGED chan
      BY <1>3 DEF ConnStep, ConnectionMade, ConnectionMadeFails, ConnectionRejected,
         VersionArrives, BeginAuth, ValidatePublicKey, ValidatePassword, AuthFails,
         ConnectionLost, ConnectionLostFails
    <2> QED
      BY <1>3, <2>1, TypeConn DEF TypeInv, InsideLine
  <1>4. TypeInv /\ [Next]_vars => TypeInv'
    BY <1>2, <1>3, TypeChannel DEF Next
  <1> QED
    BY <1>1, <1>4, PTL DEF Spec, TypeInv

-----------------------------------------------------------------------------
(* The events of a session, in terms of a connection's state c, its server  *)
(* object v and its session s.                                              *)

\* session.closed is logged when _closed is set, unless that write fails, at
\* the latest with the connection; logging it closes the transcript.
ClosedEvents(c, v, s) ==
    /\ s.closings = IF s.closed /\ "closed" \notin s.lost THEN 1 ELSE 0
    /\ "closed" \in s.lost => s.closed
    /\ c = "lost" /\ v.session => s.closed
    /\ s.closings > 0 => ~s.transcript

\* session.client_version is logged when _client_version_reported is set, unless
\* that write fails, for a version that arrived, at the latest with the
\* connection; only a connection with a session gets that far.
VersionReports(c, v, s) ==
    /\ s.versions = IF v.reported /\ "version" \notin s.lost THEN 1 ELSE 0
    /\ "version" \in s.lost => v.reported
    /\ c = "lost" /\ v.version => v.reported
    /\ c = "open" \/ v.version \/ v.user => v.session
    /\ c = "new" => ~v.session

\* _credential_tried stands for a login event, a logged key or the failed write
\* of one; the "none" probe is logged by connection_lost alone.
AuthEvents(c, v, s) ==
    /\ v.tried <=> s.logins \/ s.key \/ "credential" \in s.lost
    /\ v.keys > 0 => s.key \/ "credential" \in s.lost
    /\ s.none => c \in {"lost", "failed"} /\ LeftWithoutTrying(v)
    /\ c = "lost" /\ LeftWithoutTrying(v) => s.none

\* connection_lost stops short of release only at a write that failed.
FailedEvents(c, s) == c = "failed" => s.lost \cap {"version", "none", "closed"} # {}

Accounted(c, v, s) == /\ ClosedEvents(c, v, s)
                      /\ VersionReports(c, v, s)
                      /\ AuthEvents(c, v, s)
                      /\ FailedEvents(c, s)

EventInv == \A k \in Conns : Accounted(conn[k], server[k], session[k])

\* A connection's callback concerns its own session only.
LEMMA OtherSessions ==
    ASSUME TypeOK, NEW k \in Conns, ConnStep(k), NEW o \in Conns, o # k
    PROVE  conn'[o] = conn[o] /\ server'[o] = server[o] /\ session'[o] = session[o]
  BY DEF ConnStep, ConnectionMade, ConnectionMadeFails, ConnectionRejected, VersionArrives,
         BeginAuth, ValidatePublicKey, ValidatePassword, AuthFails, ConnectionLost,
         ConnectionLostFails, TypeOK

\* What on_disconnect does to a session when it can log it.
LEMMA OnDisconnectEffect ==
    ASSUME NEW s \in Session
    PROVE  /\ OnDisconnect(s).closed
           /\ OnDisconnect(s).closings = IF s.closed THEN s.closings ELSE s.closings + 1
           /\ OnDisconnect(s).transcript <=> s.closed /\ s.transcript
           /\ OnDisconnect(s).versions = s.versions /\ OnDisconnect(s).logins = s.logins
           /\ OnDisconnect(s).key = s.key /\ OnDisconnect(s).none = s.none
           /\ OnDisconnect(s).lost = s.lost
  BY DEF OnDisconnect, Session

\* What it does when it cannot.
LEMMA OnDisconnectRaisesEffect ==
    ASSUME NEW s \in Session
    PROVE  /\ OnDisconnectRaises(s).closed
           /\ OnDisconnectRaises(s).closings = s.closings
           /\ OnDisconnectRaises(s).transcript = s.transcript
           /\ OnDisconnectRaises(s).versions = s.versions
           /\ OnDisconnectRaises(s).logins = s.logins
           /\ OnDisconnectRaises(s).key = s.key /\ OnDisconnectRaises(s).none = s.none
           /\ OnDisconnectRaises(s).lost = s.lost \cup {"closed"}
  BY DEF OnDisconnectRaises, Session

\* What connection_lost has logged before on_disconnect.
LEMMA LeftEffect ==
    ASSUME TypeOK, NEW k \in Conns
    PROVE  /\ Left(k) \in Session
           /\ Left(k).versions = VersionEvents(k)
           /\ Left(k).none = LeftWithoutTrying(server[k])
           /\ Left(k).closed = session[k].closed /\ Left(k).closings = session[k].closings
           /\ Left(k).transcript = session[k].transcript
           /\ Left(k).logins = session[k].logins /\ Left(k).key = session[k].key
           /\ Left(k).lost = session[k].lost
  BY LeftType DEF Left, TypeOK, Session

\* The server object once its version is reported.
LEMMA ReportedEffect ==
    ASSUME NEW v \in Server
    PROVE  /\ Reported(v).reported <=> v.reported \/ Unreported(v)
           /\ Reported(v).version = v.version /\ Reported(v).user = v.user
           /\ Reported(v).tried = v.tried /\ Reported(v).keys = v.keys
           /\ Reported(v).session = v.session
  BY DEF Reported, Server

\* A session's events stay accounted for when its connection ends.
LEMMA EventLost ==
    ASSUME TypeOK, EventInv, NEW k \in Conns, ConnectionLost(k)
    PROVE  Accounted(conn'[k], server'[k], session'[k])
  <1>0. Accounted(conn[k], server[k], session[k]) /\ server[k] \in Server /\ session[k] \in Session
    BY DEF EventInv, TypeOK
  <1>1. conn'[k] = "lost" /\ conn[k] \in {"open", "broken"}
    BY DEF ConnectionLost, TypeOK
  <1>2. LET v == Reported(server[k])
        IN  /\ server'[k].reported = v.reported /\ server'[k].version = v.version
            /\ server'[k].user = v.user /\ server'[k].tried = v.tried
            /\ server'[k].keys = v.keys /\ server'[k].session = v.session
    <2>1. Reported(server[k]) \in Server
      BY <1>0, ServerUpdate
    <2>2. server'[k] = [Reported(server[k]) EXCEPT !.limited = FALSE]
      BY DEF ConnectionLost, TypeOK
    <2> QED
      BY <2>1, <2>2 DEF Server
  <1>3. CASE server[k].session
    <2>1. session'[k] = OnDisconnect(Left(k))
      BY <1>3 DEF ConnectionLost, TypeOK
    <2>2. /\ session'[k].closed
          /\ session'[k].closings = IF session[k].closed THEN session[k].closings
                                                         ELSE session[k].closings + 1
          /\ session'[k].transcript <=> session[k].closed /\ session[k].transcript
          /\ session'[k].versions = VersionEvents(k)
          /\ session'[k].none = LeftWithoutTrying(server[k])
          /\ session'[k].logins = session[k].logins /\ session'[k].key = session[k].key
          /\ session'[k].lost = session[k].lost
      BY <2>1, LeftEffect, OnDisconnectEffect
    <2>3. ClosedEvents(conn'[k], server'[k], session'[k])
      BY <1>0, <2>2 DEF Accounted, ClosedEvents, Session
    <2>4. VersionReports(conn'[k], server'[k], session'[k])
      BY <1>0, <1>1, <1>2, <1>3, <2>2, ReportedEffect
         DEF Accounted, VersionReports, VersionEvents, Unreported, Session, Server
    <2>5. AuthEvents(conn'[k], server'[k], session'[k])
      BY <1>0, <1>1, <1>2, <2>2, ReportedEffect DEF Accounted, AuthEvents, LeftWithoutTrying
    <2> QED
      BY <1>1, <2>3, <2>4, <2>5 DEF Accounted, FailedEvents
  <1>4. CASE ~server[k].session
    <2>1. session'[k] = session[k]
      BY <1>4 DEF ConnectionLost, TypeOK
    <2>2. ~Unreported(server[k]) /\ ~server[k].version /\ ~server[k].user
      BY <1>0, <1>4 DEF Accounted, VersionReports, Unreported
    <2> QED
      BY <1>0, <1>1, <1>2, <1>4, <2>1, <2>2, ReportedEffect
         DEF Accounted, ClosedEvents, VersionReports, AuthEvents, FailedEvents, LeftWithoutTrying,
             Server
  <1> QED
    BY <1>3, <1>4

\* They do too when connection_lost cannot log one of them.
LEMMA EventLostFails ==
    ASSUME TypeOK, EventInv, NEW k \in Conns, ConnectionLostFails(k)
    PROVE  Accounted(conn'[k], server'[k], session'[k])
  <1>0. Accounted(conn[k], server[k], session[k]) /\ server[k] \in Server /\ session[k] \in Session
    BY DEF EventInv, TypeOK
  <1>1. conn'[k] = "failed" /\ conn[k] \in {"open", "broken"} /\ server[k].session
    BY DEF ConnectionLostFails, TypeOK
  <1>2. server'[k] = Reported(server[k])
    BY DEF ConnectionLostFails, TypeOK
  <1>3. ~session[k].none
    BY <1>0, <1>1 DEF Accounted, AuthEvents
  <1>4. VersionEvents(k) = IF Reported(server[k]).reported /\ "version" \notin session[k].lost
                           THEN 1 ELSE 0
    BY <1>0, ReportedEffect DEF Accounted, VersionReports, VersionEvents, Unreported, Session, Server
  <1>5. CASE Unreported(server[k]) /\ session' = [session EXCEPT ![k].lost = @ \cup {"version"}]
    <2>1. /\ session'[k].closed = session[k].closed /\ session'[k].closings = session[k].closings
          /\ session'[k].transcript = session[k].transcript
          /\ session'[k].versions = session[k].versions /\ session'[k].none = session[k].none
          /\ session'[k].logins = session[k].logins /\ session'[k].key = session[k].key
          /\ session'[k].lost = session[k].lost \cup {"version"}
      BY <1>0, <1>5 DEF TypeOK, Session
    <2>2. session[k].versions = 0
      BY <1>0, <1>5 DEF Accounted, VersionReports, Unreported
    <2>3. ClosedEvents(conn'[k], server'[k], session'[k])
      BY <1>0, <1>1, <2>1 DEF Accounted, ClosedEvents
    <2>4. VersionReports(conn'[k], server'[k], session'[k])
      BY <1>0, <1>1, <1>2, <1>5, <2>1, <2>2, ReportedEffect
         DEF Accounted, VersionReports, Unreported
    <2>5. AuthEvents(conn'[k], server'[k], session'[k])
      BY <1>0, <1>1, <1>2, <1>3, <2>1, ReportedEffect DEF Accounted, AuthEvents
    <2>6. FailedEvents(conn'[k], session'[k])
      BY <2>1 DEF FailedEvents
    <2> QED
      BY <2>3, <2>4, <2>5, <2>6 DEF Accounted
  <1>6. CASE session' = [session EXCEPT ![k].versions = VersionEvents(k),
                                        ![k].lost = @ \cup {"none"}]
    <2>1. /\ session'[k].closed = session[k].closed /\ session'[k].closings = session[k].closings
          /\ session'[k].transcript = session[k].transcript
          /\ session'[k].versions = VersionEvents(k) /\ session'[k].none = session[k].none
          /\ session'[k].logins = session[k].logins /\ session'[k].key = session[k].key
          /\ session'[k].lost = session[k].lost \cup {"none"}
      BY <1>0, <1>6 DEF TypeOK, Session
    <2>3. ClosedEvents(conn'[k], server'[k], session'[k])
      BY <1>0, <1>1, <2>1 DEF Accounted, ClosedEvents
    <2>4. VersionReports(conn'[k], server'[k], session'[k])
      BY <1>0, <1>1, <1>2, <1>4, <2>1, ReportedEffect
         DEF Accounted, VersionReports, Unreported
    <2>5. AuthEvents(conn'[k], server'[k], session'[k])
      BY <1>0, <1>1, <1>2, <1>3, <2>1, ReportedEffect DEF Accounted, AuthEvents
    <2>6. FailedEvents(conn'[k], session'[k])
      BY <2>1 DEF FailedEvents
    <2> QED
      BY <2>3, <2>4, <2>5, <2>6 DEF Accounted
  <1>7. CASE ~session[k].closed /\ session' = [session EXCEPT ![k] = OnDisconnectRaises(Left(k))]
    <2>1. session'[k] = OnDisconnectRaises(Left(k))
      BY <1>7 DEF TypeOK
    <2>2. /\ session'[k].closed
          /\ session'[k].closings = session[k].closings
          /\ session'[k].transcript = session[k].transcript
          /\ session'[k].versions = VersionEvents(k)
          /\ session'[k].none = LeftWithoutTrying(server[k])
          /\ session'[k].logins = session[k].logins /\ session'[k].key = session[k].key
          /\ session'[k].lost = session[k].lost \cup {"closed"}
      BY <2>1, LeftEffect, OnDisconnectRaisesEffect
    <2>3. ClosedEvents(conn'[k], server'[k], session'[k])
      BY <1>0, <1>7, <2>2 DEF Accounted, ClosedEvents
    <2>4. VersionReports(conn'[k], server'[k], session'[k])
      BY <1>0, <1>1, <1>2, <1>4, <2>2, ReportedEffect
         DEF Accounted, VersionReports, Unreported
    <2>5. AuthEvents(conn'[k], server'[k], session'[k])
      BY <1>0, <1>1, <1>2, <2>2, ReportedEffect DEF Accounted, AuthEvents, LeftWithoutTrying
    <2>6. FailedEvents(conn'[k], session'[k])
      BY <2>2 DEF FailedEvents
    <2> QED
      BY <2>3, <2>4, <2>5, <2>6 DEF Accounted
  <1> QED
    BY <1>5, <1>6, <1>7 DEF ConnectionLostFails

\* Every callback of a connection keeps the invariant.
LEMMA EventConn ==
    ASSUME TypeOK, EventInv, NEW k \in Conns, ConnStep(k)
    PROVE  EventInv'
  <1>0. Accounted(conn[k], server[k], session[k]) /\ server[k] \in Server /\ session[k] \in Session
    BY DEF EventInv, TypeOK
  <1> SUFFICES Accounted(conn'[k], server'[k], session'[k])
    BY OtherSessions DEF EventInv
  <1>1. CASE ConnectionMade(k)
    BY <1>0, <1>1 DEF ConnectionMade, TypeOK, Server, Accounted, ClosedEvents, VersionReports,
       AuthEvents, FailedEvents, LeftWithoutTrying
  <1>2. CASE ConnectionMadeFails(k)
    <2>1. PICK created \in BOOLEAN :
             server' = [server EXCEPT ![k].limited = TRUE, ![k].session = created]
      BY <1>2 DEF ConnectionMadeFails
    <2>2. /\ server'[k].session = created /\ server'[k].version = server[k].version
          /\ server'[k].reported = server[k].reported /\ server'[k].user = server[k].user
          /\ server'[k].tried = server[k].tried /\ server'[k].keys = server[k].keys
      BY <1>0, <2>1 DEF TypeOK, Server
    <2>3. /\ conn[k] = "new" /\ conn'[k] = "broken" /\ session'[k] = session[k]
      BY <1>2 DEF ConnectionMadeFails, TypeOK
    <2>4. ~server[k].version /\ ~server[k].user
      BY <1>0, <2>3 DEF Accounted, VersionReports
    <2> QED
      BY <1>0, <2>2, <2>3, <2>4 DEF Accounted, ClosedEvents, VersionReports,
         AuthEvents, FailedEvents, LeftWithoutTrying
  <1>3. CASE ConnectionRejected(k)
    BY <1>0, <1>3 DEF ConnectionRejected, TypeOK, Accounted, ClosedEvents, VersionReports,
       AuthEvents, FailedEvents
  <1>4. CASE VersionArrives(k)
    BY <1>0, <1>4 DEF VersionArrives, TypeOK, Server, Accounted, ClosedEvents, VersionReports,
       AuthEvents, FailedEvents, LeftWithoutTrying
  <1>5. CASE ConnectionLost(k)
    BY <1>5, EventLost
  <1>6. CASE ConnectionLostFails(k)
    BY <1>6, EventLostFails
  <1>7. CASE BeginAuth(k)
    <2>1. conn'[k] = "open" /\ conn[k] = "open" /\ server[k].session
      BY <1>0, <1>7 DEF BeginAuth, Authenticating, Accounted, VersionReports, TypeOK
    <2>2. Reported(server[k]) \in Server
      BY <1>0, ServerUpdate
    <2>3. server'[k] = [Reported(server[k]) EXCEPT !.user = TRUE]
      BY <1>7 DEF BeginAuth, TypeOK
    <2>4. /\ server'[k].session /\ server'[k].version = server[k].version /\ server'[k].user
          /\ server'[k].reported = (server[k].reported \/ Unreported(server[k]))
          /\ server'[k].tried = server[k].tried /\ server'[k].keys = server[k].keys
      BY <1>0, <2>1, <2>2, <2>3, ReportedEffect DEF Server
    <2>5. session'[k] = [session[k] EXCEPT !.versions = VersionEvents(k)]
      BY <1>7 DEF BeginAuth, TypeOK
    <2>6. /\ session'[k].versions = VersionEvents(k)
          /\ session'[k].closed = session[k].closed /\ session'[k].closings = session[k].closings
          /\ session'[k].transcript = session[k].transcript /\ session'[k].none = session[k].none
          /\ session'[k].logins = session[k].logins /\ session'[k].key = session[k].key
          /\ session'[k].lost = session[k].lost
      BY <1>0, <2>5 DEF Session
    <2>7. VersionReports(conn'[k], server'[k], session'[k])
      BY <1>0, <2>1, <2>4, <2>6
         DEF Accounted, VersionReports, VersionEvents, Unreported, Session, Server
    <2> QED
      BY <1>0, <2>1, <2>4, <2>6, <2>7 DEF Accounted, ClosedEvents, AuthEvents, FailedEvents
  <1>8. CASE ValidatePublicKey(k)
    <2>1. /\ conn'[k] = "open" /\ conn[k] = "open"
          /\ server'[k].session = server[k].session /\ server'[k].version = server[k].version
          /\ server'[k].user = server[k].user /\ server'[k].reported = server[k].reported
          /\ server'[k].tried
      BY <1>0, <1>8 DEF ValidatePublicKey, Authenticating, TypeOK, Server
    <2>2. session'[k] = [session[k] EXCEPT !.key = session[k].key \/ server[k].keys < MaxKeys]
      BY <1>8 DEF ValidatePublicKey, TypeOK
    <2>3. /\ session'[k].key = (session[k].key \/ server[k].keys < MaxKeys)
          /\ session'[k].versions = session[k].versions
          /\ session'[k].closed = session[k].closed /\ session'[k].closings = session[k].closings
          /\ session'[k].transcript = session[k].transcript /\ session'[k].none = session[k].none
          /\ session'[k].logins = session[k].logins /\ session'[k].lost = session[k].lost
      BY <1>0, <2>2 DEF Session
    <2>4. server[k].keys < MaxKeys \/ server[k].keys > 0
      BY <1>0, KeysAssumption DEF Server
    <2> QED
      BY <1>0, <2>1, <2>3, <2>4
         DEF Accounted, ClosedEvents, VersionReports, AuthEvents, FailedEvents
  <1>9. CASE ValidatePassword(k)
    <2>1. /\ conn'[k] = "open" /\ conn[k] = "open"
          /\ server'[k].session = server[k].session /\ server'[k].version = server[k].version
          /\ server'[k].user = server[k].user /\ server'[k].reported = server[k].reported
          /\ server'[k].tried /\ server'[k].keys = server[k].keys
      BY <1>0, <1>9 DEF ValidatePassword, Authenticating, TypeOK, Server
    <2>2. /\ session'[k].logins
          /\ session'[k].versions = session[k].versions /\ session'[k].key = session[k].key
          /\ session'[k].closed = session[k].closed /\ session'[k].closings = session[k].closings
          /\ session'[k].transcript = session[k].transcript /\ session'[k].none = session[k].none
          /\ session'[k].lost = session[k].lost
      BY <1>0, <1>9 DEF ValidatePassword, TypeOK, Session
    <2> QED
      BY <1>0, <2>1, <2>2
         DEF Accounted, ClosedEvents, VersionReports, AuthEvents, FailedEvents
  <1>10. CASE AuthFails(k)
    <2>1. conn'[k] = "open" /\ conn[k] = "open"
      BY <1>10 DEF AuthFails, Authenticating
    <2>2. ASSUME NEW e \in Event, session' = [session EXCEPT ![k].lost = @ \cup {e}]
          PROVE  /\ session'[k].lost = session[k].lost \cup {e}
                 /\ session'[k].versions = session[k].versions /\ session'[k].key = session[k].key
                 /\ session'[k].closed = session[k].closed
                 /\ session'[k].closings = session[k].closings
                 /\ session'[k].transcript = session[k].transcript
                 /\ session'[k].none = session[k].none /\ session'[k].logins = session[k].logins
      BY <1>0, <2>2 DEF TypeOK, Session
    <2>3. CASE /\ Unreported(server[k])
               /\ server' = [server EXCEPT ![k] = Reported(@)]
               /\ session' = [session EXCEPT ![k].lost = @ \cup {"version"}]
      <3>1. server'[k] = Reported(server[k])
        BY <2>3 DEF TypeOK
      <3>2. session[k].versions = 0
        BY <1>0, <2>3 DEF Accounted, VersionReports, Unreported
      <3>3. /\ session'[k].lost = session[k].lost \cup {"version"}
            /\ session'[k].versions = session[k].versions /\ session'[k].key = session[k].key
            /\ session'[k].closed = session[k].closed
            /\ session'[k].closings = session[k].closings
            /\ session'[k].transcript = session[k].transcript
            /\ session'[k].none = session[k].none /\ session'[k].logins = session[k].logins
        BY <2>2, <2>3 DEF Event
      <3>4. ClosedEvents(conn'[k], server'[k], session'[k])
        BY <1>0, <2>1, <3>3 DEF Accounted, ClosedEvents
      <3>5. VersionReports(conn'[k], server'[k], session'[k])
        BY <1>0, <2>1, <2>3, <3>1, <3>2, <3>3, ReportedEffect
           DEF Accounted, VersionReports, Unreported
      <3>6. AuthEvents(conn'[k], server'[k], session'[k])
        BY <1>0, <2>1, <3>1, <3>3, ReportedEffect DEF Accounted, AuthEvents
      <3> QED
        BY <2>1, <3>4, <3>5, <3>6 DEF Accounted, FailedEvents
    <2>4. CASE session' = [session EXCEPT ![k].lost = @ \cup {"credential"}]
      <3>1. /\ server'[k].session = server[k].session /\ server'[k].version = server[k].version
            /\ server'[k].user = server[k].user /\ server'[k].reported = server[k].reported
            /\ server'[k].tried
        <4>1. session' # [session EXCEPT ![k].lost = @ \cup {"version"}] \/ ~Unreported(server[k])
          BY <1>0, <2>4 DEF Accounted, VersionReports, Unreported, TypeOK, Session
        <4> QED
          BY <1>0, <1>10, <4>1 DEF AuthFails, TypeOK, Server
      <3> QED
        BY <1>0, <2>1, <2>2, <2>4, <3>1
           DEF Accounted, ClosedEvents, VersionReports, AuthEvents, FailedEvents, Event
    <2> QED
      BY <1>10, <2>3, <2>4 DEF AuthFails
  <1> QED
    BY <1>1, <1>2, <1>3, <1>4, <1>5, <1>6, <1>7, <1>8, <1>9, <1>10 DEF ConnStep

\* A channel's task leaves its session's login and version events alone and may
\* end the session, or fail to log its end.
LEMMA ChannelEffect ==
    ASSUME TypeOK, NEW h \in Channels, ChannelStep(h), NEW k \in Conns
    PROVE  /\ UNCHANGED <<counts, conn, server>>
           /\ \/ session'[k] = session[k]
              \/ session'[k] = OnDisconnect(session[k])
              \/ ~session[k].closed /\ session'[k] = OnDisconnectRaises(session[k])
              \/ \E b : session'[k] = [session[k] EXCEPT !.should_exit = b]
  <1>0. ConnOf[h] \in Conns /\ session[k] \in Session /\ session[ConnOf[h]] \in Session
    BY ConnAssumption DEF TypeOK
  <1>1. \A state : Finish(h, state) =>
           \/ session'[k] = session[k]
           \/ session'[k] = OnDisconnect(session[k])
           \/ ~session[k].closed /\ session'[k] = OnDisconnectRaises(session[k])
    BY <1>0 DEF Finish, TypeOK
  <1>2. \A segment : AfterSegment(h, segment) =>
           \/ session'[k] = session[k]
           \/ \E b : session'[k] = [session[k] EXCEPT !.should_exit = b]
    <2> SUFFICES ASSUME NEW segment, AfterSegment(h, segment), k = ConnOf[h]
                 PROVE  \E b : session'[k] = [session[k] EXCEPT !.should_exit = b]
      BY DEF AfterSegment, TypeOK
    <2> DEFINE exits == session[k].should_exit \/ segment = "exit"
    <2>1. session'[k] = [session[k] EXCEPT !.should_exit = exits]
      BY DEF AfterSegment, TypeOK
    <2> QED
      BY <2>1
  <1>3. UNCHANGED <<counts, conn, server>>
    BY DEF ChannelStep, OpenChannel, Receive, RunSegment, StartFetch, EndFetch,
       Reply, Raise, LogFails, EndOfInput, Cap, Finish
  <1> QED
    BY <1>1, <1>2, <1>3 DEF ChannelStep, OpenChannel, Receive, RunSegment, StartFetch, EndFetch,
       Reply, Raise, LogFails, EndOfInput, Cap

\* So every step of a channel keeps the invariant.
LEMMA EventChannel ==
    ASSUME TypeOK, EventInv, NEW h \in Channels, ChannelStep(h)
    PROVE  EventInv'
  <1> SUFFICES ASSUME NEW k \in Conns
               PROVE  Accounted(conn'[k], server'[k], session'[k])
    BY DEF EventInv
  <1>0. Accounted(conn[k], server[k], session[k]) /\ session[k] \in Session
    BY DEF EventInv, TypeOK
  <1>1. conn'[k] = conn[k] /\ server'[k] = server[k]
    BY ChannelEffect
  <1>2. CASE session'[k] = session[k]
    BY <1>0, <1>1, <1>2
  <1>3. CASE session'[k] = OnDisconnect(session[k])
    <2>1. /\ session'[k].closed
          /\ session'[k].closings = IF session[k].closed THEN session[k].closings
                                                         ELSE session[k].closings + 1
          /\ session'[k].transcript <=> session[k].closed /\ session[k].transcript
          /\ session'[k].versions = session[k].versions /\ session'[k].logins = session[k].logins
          /\ session'[k].key = session[k].key /\ session'[k].none = session[k].none
          /\ session'[k].lost = session[k].lost
      BY <1>0, <1>3, OnDisconnectEffect
    <2>2. ClosedEvents(conn'[k], server'[k], session'[k])
      BY <1>0, <1>1, <2>1 DEF Accounted, ClosedEvents, Session
    <2>3. VersionReports(conn'[k], server'[k], session'[k])
      BY <1>0, <1>1, <2>1 DEF Accounted, VersionReports
    <2>4. AuthEvents(conn'[k], server'[k], session'[k])
      BY <1>0, <1>1, <2>1 DEF Accounted, AuthEvents
    <2> QED
      BY <1>0, <1>1, <2>1, <2>2, <2>3, <2>4 DEF Accounted, FailedEvents
  <1>4. CASE ~session[k].closed /\ session'[k] = OnDisconnectRaises(session[k])
    <2>1. /\ session'[k].closed
          /\ session'[k].closings = session[k].closings
          /\ session'[k].transcript = session[k].transcript
          /\ session'[k].versions = session[k].versions /\ session'[k].logins = session[k].logins
          /\ session'[k].key = session[k].key /\ session'[k].none = session[k].none
          /\ session'[k].lost = session[k].lost \cup {"closed"}
      BY <1>0, <1>4, OnDisconnectRaisesEffect
    <2>2. ClosedEvents(conn'[k], server'[k], session'[k])
      BY <1>0, <1>1, <1>4, <2>1 DEF Accounted, ClosedEvents, Session
    <2>3. VersionReports(conn'[k], server'[k], session'[k])
      BY <1>0, <1>1, <2>1 DEF Accounted, VersionReports
    <2>4. AuthEvents(conn'[k], server'[k], session'[k])
      BY <1>0, <1>1, <2>1 DEF Accounted, AuthEvents
    <2> QED
      BY <1>0, <1>1, <2>1, <2>2, <2>3, <2>4 DEF Accounted, FailedEvents
  <1>5. ASSUME NEW b, session'[k] = [session[k] EXCEPT !.should_exit = b]
        PROVE  Accounted(conn'[k], server'[k], session'[k])
    <2>1. /\ session'[k].closed = session[k].closed
          /\ session'[k].closings = session[k].closings
          /\ session'[k].transcript = session[k].transcript
          /\ session'[k].versions = session[k].versions /\ session'[k].logins = session[k].logins
          /\ session'[k].key = session[k].key /\ session'[k].none = session[k].none
          /\ session'[k].lost = session[k].lost
      BY <1>0, <1>5 DEF Session
    <2> QED
      BY <1>0, <1>1, <2>1
         DEF Accounted, ClosedEvents, VersionReports, AuthEvents, FailedEvents
  <1> QED
    BY <1>2, <1>3, <1>4, <1>5, ChannelEffect

\* The event invariant holds in every reachable state.
THEOREM EventInductive == Spec => []EventInv
  <1>1. Init => EventInv
    <2> SUFFICES ASSUME Init, NEW k \in Conns
                 PROVE  Accounted(conn[k], server[k], session[k])
      BY DEF EventInv
    <2>1. /\ conn[k] = "new" /\ server[k].keys = 0
          /\ ~server[k].session /\ ~server[k].version /\ ~server[k].reported
          /\ ~server[k].user /\ ~server[k].tried
      BY DEF Init
    <2>2. /\ ~session[k].closed /\ session[k].closings = 0 /\ session[k].versions = 0
          /\ ~session[k].logins /\ ~session[k].key /\ ~session[k].none
          /\ session[k].lost = {}
      BY DEF Init
    <2> QED
      BY <2>1, <2>2
         DEF Accounted, ClosedEvents, VersionReports, AuthEvents, FailedEvents
  <1>2. EventInv /\ UNCHANGED vars => EventInv'
    BY DEF EventInv, vars
  <1>3. TypeOK /\ EventInv /\ [Next]_vars => EventInv'
    BY <1>2, EventConn, EventChannel DEF Next
  <1> QED
    BY <1>1, <1>3, TypeCorrect, PTL DEF Spec

\* Whichever of the channels and the connection ends first, session.closed is
\* logged once, and left out only if its one write failed.
THEOREM ClosedExactlyOnce == Spec => []ClosedOnce
  <1>1. EventInv => ClosedOnce
    BY DEF EventInv, Accounted, ClosedEvents, ClosedOnce
  <1> QED
    BY <1>1, EventInductive, PTL

\* A client that asked to authenticate leaves exactly the trace it should.
THEOREM AuthLeavesTrace == Spec => []AuthRecorded
  <1>1. EventInv => AuthRecorded
    BY DEF EventInv, Accounted, AuthEvents, AuthRecorded, LeftWithoutTrying
  <1> QED
    BY <1>1, EventInductive, PTL

\* A version that arrived is logged exactly once, unless its one write failed.
THEOREM VersionExactlyOnce == Spec => []VersionLoggedOnce
  <1>1. EventInv => VersionLoggedOnce
    BY DEF EventInv, Accounted, VersionReports, VersionLoggedOnce
  <1> QED
    BY <1>1, EventInductive, PTL

\* Once a session's session.closed is logged, the number of commands that each
\* of its channels has logged stays what it is.
THEOREM SilentAfterClosed == Spec => NoCommandAfterClosed
  <1> DEFINE Silent == \A h \in Channels :
                session[ConnOf[h]].closings > 0 => chan'[h].commands = chan[h].commands
  <1>1. ASSUME NEW k \in Conns, ConnStep(k) PROVE Silent
    BY <1>1 DEF ConnStep, ConnectionMade, ConnectionMadeFails, ConnectionRejected,
       VersionArrives, BeginAuth, ValidatePublicKey, ValidatePassword, AuthFails,
       ConnectionLost, ConnectionLostFails
  <1>2. ASSUME TypeOK, EventInv, NEW h \in Channels, ChannelStep(h) PROVE Silent
    <2> USE DEF TypeOK, Chan
    <2>1. ASSUME NEW kind \in Kinds, OpenChannel(h, kind) PROVE Silent
      BY <1>2, <2>1 DEF OpenChannel
    <2>2. ASSUME NEW line \in Lines, Receive(h, line) PROVE Silent
      <3>1. ~(session[ConnOf[h]].closings > 0)
        BY <1>2, <2>2, ConnAssumption
           DEF Receive, Writable, EventInv, Accounted, ClosedEvents
      <3> QED
        BY <1>2, <2>2, <3>1 DEF Receive
    <2>3. ASSUME NEW segment, AfterSegment(h, segment) PROVE Silent
      BY <1>2, <2>3 DEF AfterSegment
    <2>4. CASE StartFetch(h)
      BY <1>2, <2>4 DEF StartFetch
    <2>5. ASSUME NEW state, Finish(h, state) PROVE Silent
      BY <1>2, <2>5 DEF Finish
    <2>6. CASE chan' = [chan EXCEPT ![h].state = "ready"]
      BY <1>2, <2>6
    <2> QED
      BY <1>2, <2>1, <2>2, <2>3, <2>4, <2>5, <2>6
         DEF ChannelStep, RunSegment, EndFetch, Reply, Raise, LogFails, EndOfInput, Cap
  <1>3. UNCHANGED vars => Silent
    BY DEF vars
  <1>4. TypeOK /\ EventInv /\ [Next]_vars => Silent
    BY <1>1, <1>2, <1>3 DEF Next
  <1> QED
    BY <1>4, TypeCorrect, EventInductive, PTL DEF Spec, NoCommandAfterClosed

-----------------------------------------------------------------------------
(* The limiter.                                                             *)

SlotInv == \A i \in Ips : Counted(counts[i], Holders(i))

\* A connection that is let in takes a slot with it, whatever connection_made
\* still fails at.
LEMMA SlotTaken ==
    ASSUME TypeOK, SlotInv, NEW k \in Conns, NEW state \in {"open", "broken"},
           conn[k] = "new", CanAcquire(IpOf[k]), Acquire(IpOf[k]),
           conn' = [conn EXCEPT ![k] = state]
    PROVE  SlotInv'
  <1>0. IpOf[k] \in Ips /\ counts \in [Ips -> Nat]
    BY ConnAssumption DEF TypeOK
  <1>1. k \notin Holders(IpOf[k])
    BY DEF Holders
  <1>2. /\ Holders(IpOf[k])' = Holders(IpOf[k]) \cup {k}
        /\ \A i \in Ips : i # IpOf[k] => Holders(i)' = Holders(i)
    BY DEF Holders, TypeOK
  <1>3. /\ Counted(counts'[IpOf[k]], Holders(IpOf[k]) \cup {k})
        /\ \A i \in Ips : i # IpOf[k] => counts'[i] = counts[i]
    BY <1>0, <1>1, AcquireCounted DEF SlotInv
  <1> QED
    BY <1>2, <1>3 DEF SlotInv

\* Every step keeps the counts right: a slot is taken with a connection, and
\* given back by connection_lost, which runs once, if it gets as far as that.
LEMMA SlotStep ==
    ASSUME TypeOK, SlotInv, NEW k \in Conns, ConnStep(k)
    PROVE  SlotInv'
  <1>0. IpOf[k] \in Ips /\ counts \in [Ips -> Nat]
    BY ConnAssumption DEF TypeOK
  <1>1. CASE ConnectionMade(k) \/ ConnectionMadeFails(k)
    BY <1>1, SlotTaken DEF ConnectionMade, ConnectionMadeFails
  <1>2. CASE ConnectionLost(k)
    <2>1. k \in Holders(IpOf[k])
      BY <1>2 DEF ConnectionLost, Holders
    <2>2. /\ Holders(IpOf[k])' = Holders(IpOf[k]) \ {k}
          /\ \A i \in Ips : i # IpOf[k] => Holders(i)' = Holders(i)
      BY <1>2 DEF ConnectionLost, Holders, TypeOK
    <2>3. /\ Counted(counts'[IpOf[k]], Holders(IpOf[k]) \ {k})
          /\ \A i \in Ips : i # IpOf[k] => counts'[i] = counts[i]
      BY <1>0, <1>2, <2>1, ReleaseCounted DEF ConnectionLost, SlotInv
    <2> QED
      BY <2>2, <2>3 DEF SlotInv
  <1>3. CASE ConnectionRejected(k)
    <2>1. \A i \in Ips : Holders(i)' = Holders(i)
      BY <1>3 DEF ConnectionRejected, Holders, TypeOK
    <2> QED
      BY <1>3, <2>1 DEF ConnectionRejected, SlotInv
  <1>4. CASE ConnectionLostFails(k)
    <2>1. conn[k] \in {"open", "broken"} /\ conn' = [conn EXCEPT ![k] = "failed"] /\ counts' = counts
      BY <1>4 DEF ConnectionLostFails
    <2>2. \A i \in Ips : Holders(i)' = Holders(i)
      BY <2>1 DEF Holders, TypeOK
    <2> QED
      BY <2>1, <2>2 DEF SlotInv
  <1>5. CASE UNCHANGED <<counts, conn>>
    BY <1>5 DEF SlotInv, Holders
  <1> QED
    BY <1>1, <1>2, <1>3, <1>4, <1>5 DEF ConnStep, VersionArrives, BeginAuth, ValidatePublicKey,
       ValidatePassword, AuthFails

\* An address's count is the number of its connections that are not over, plus
\* those whose connection_lost failed at one of its writes, and within the cap.
THEOREM SlotsExact == Spec => []SlotsMatchConnections
  <1>1. Init => SlotInv
    <2> SUFFICES ASSUME Init, NEW i \in Ips PROVE Counted(counts[i], Holders(i))
      BY DEF SlotInv
    <2>1. counts[i] = 0 /\ Holders(i) = {}
      BY DEF Init, Holders
    <2> QED
      BY <2>1, NoneCounted
  <1>2. SlotInv /\ UNCHANGED vars => SlotInv'
    BY DEF SlotInv, Holders, vars
  <1>3. ASSUME TypeOK, SlotInv, NEW h \in Channels, ChannelStep(h) PROVE SlotInv'
    <2>1. UNCHANGED <<counts, conn>>
      BY <1>3 DEF ChannelStep, OpenChannel, Receive, RunSegment, StartFetch, EndFetch,
         Reply, Raise, LogFails, EndOfInput, Cap, Finish
    <2> QED
      BY <1>3, <2>1 DEF SlotInv, Holders
  <1>4. TypeOK /\ SlotInv /\ [Next]_vars => SlotInv'
    BY <1>2, <1>3, SlotStep DEF Next
  <1>5. SlotInv /\ EventInv => SlotsMatchConnections
    <2>1. ASSUME SlotInv, NEW i \in Ips, MaxPerIp > 0
          PROVE  counts[i] = Cardinality(Holders(i)) /\ counts[i] <= MaxPerIp
      BY <2>1 DEF SlotInv, Counted
    <2>2. ASSUME EventInv, NEW k \in Conns, conn[k] = "failed"
          PROVE  session[k].lost \cap {"version", "none", "closed"} # {}
      BY <2>2 DEF EventInv, Accounted, FailedEvents
    <2> QED
      BY <2>1, <2>2 DEF SlotsMatchConnections
  <1> QED
    BY <1>1, <1>4, <1>5, TypeCorrect, EventInductive, PTL DEF Spec

=============================================================================
