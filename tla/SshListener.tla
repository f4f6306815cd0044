---------------------------- MODULE SshListener ----------------------------
(***************************************************************************)
(* The SSH listener: the callbacks of a connection, and the channels that  *)
(* share the connection's session.                                         *)
(*                                                                         *)
(*   honeypot/listeners/ssh.py       _HoneypotSSHServer, _handle_process   *)
(*   honeypot/session/manager.py     SessionManager: lifecycle, the loop   *)
(*                                   of handle_command over segments       *)
(*                                                                         *)
(* Everything runs in one asyncio loop.  A callback is one step; a channel *)
(* task gives up the loop only while it reads its next line or waits for a *)
(* download ("ready", "fetch"), and holds it while it is "running".        *)
(* Every write to the event log may raise OSError (a full disk), and then  *)
(* the code that would have followed it does not run.                      *)
(***************************************************************************)
EXTENDS ConnectionLimiter, Sequences, FiniteSets

CONSTANTS
    Conns,      \* SSH connections
    IpOf,       \* the address a connection comes from
    Speakers,   \* the connections whose client sends its version line
    Channels,   \* channels (asyncssh processes)
    ConnOf,     \* the connection a channel is opened on
    Kinds,      \* the kinds of channel clients open: "exec", "shell"
    Lines,      \* command lines, as sequences of "cmd", "wget" and "exit"
    MaxKeys,    \* _MAX_LOGGED_KEYS
    MaxCommands \* bound: lines one channel sends

ASSUME ConnAssumption == IpOf \in [Conns -> Ips] /\ ConnOf \in [Channels -> Conns]
ASSUME LineAssumption == /\ Kinds \subseteq {"exec", "shell"}
                         /\ Lines \subseteq Seq({"cmd", "wget", "exit"})
ASSUME KeysAssumption == MaxKeys \in Nat \ {0} /\ MaxCommands \in Nat \ {0}

VARIABLES
    conn,     \* a connection's life
    server,   \* the fields of its _HoneypotSSHServer
    session,  \* the fields of its SessionManager, and what it has logged
    chan      \* the task of a channel

vars == <<counts, conn, server, session, chan>>

Server == [limited : BOOLEAN,    \* _limited_ip is set
           session : BOOLEAN,    \* session is set
           version : BOOLEAN,    \* the client's version line has arrived
           reported : BOOLEAN,   \* _client_version_reported
           user : BOOLEAN,       \* _auth_username is set
           tried : BOOLEAN,      \* _credential_tried
           keys : 0 .. MaxKeys]  \* _logged_keys

\* The events whose loss tells: of a version, a password or a key, the "none"
\* probe, the end of the session.
Event == {"version", "credential", "none", "closed"}

Session == [closed : BOOLEAN,       \* _closed
            transcript : BOOLEAN,   \* the transcript is open
            closings : Nat,         \* session.closed events
            versions : Nat,         \* session.client_version events
            logins : BOOLEAN,       \* a login.success or login.failed event
            key : BOOLEAN,          \* an auth.attempt event of method "publickey"
            none : BOOLEAN,         \* an auth.attempt event of method "none"
            lost : SUBSET Event,    \* the events whose write has raised
            authenticated : BOOLEAN,
            should_exit : BOOLEAN]

Chan == [state : {"unopened", "ready", "running", "fetch", "ended", "capped", "raised", "failed"},
         kind : {"exec", "shell"},
         rest : Seq({"cmd", "wget", "exit"}),  \* segments still to run
         commands : Nat,                       \* command.input events
         cut : BOOLEAN]                        \* segments dropped though the
                                               \* line itself did not exit
Init ==
    /\ counts = [i \in Ips |-> 0]
    /\ conn = [k \in Conns |-> "new"]
    /\ server = [k \in Conns |-> [limited |-> FALSE, session |-> FALSE, version |-> FALSE,
                                  reported |-> FALSE, user |-> FALSE,
                                  tried |-> FALSE, keys |-> 0]]
    /\ session = [k \in Conns |-> [closed |-> FALSE, transcript |-> TRUE, closings |-> 0,
                                   versions |-> 0, logins |-> FALSE, key |-> FALSE,
                                   none |-> FALSE, lost |-> {},
                                   authenticated |-> FALSE, should_exit |-> FALSE]]
    /\ chan = [h \in Channels |-> [state |-> "unopened", kind |-> "exec", rest |-> << >>,
                                   commands |-> 0, cut |-> FALSE]]

\* No channel task is running, so the loop can take another callback.
LoopFree == \A h \in Channels : chan[h].state # "running"

-----------------------------------------------------------------------------
(* SessionManager.                                                          *)

\* Mutant: on_disconnect is not idempotent.
OnDisconnectAgain(s) == [s EXCEPT !.closed = TRUE, !.closings = @ + 1, !.transcript = FALSE]

OnDisconnect(s) ==
    IF s.closed THEN s
    ELSE [s EXCEPT !.closed = TRUE, !.closings = @ + 1, !.transcript = FALSE]

\* The first on_disconnect fails to log: no later one tries again, and nobody
\* closes the transcript.
OnDisconnectRaises(s) == [s EXCEPT !.closed = TRUE, !.lost = @ \cup {"closed"}]

-----------------------------------------------------------------------------
(* Callbacks of a connection.                                               *)

ConnectionMade(k) ==
    /\ LoopFree
    /\ conn[k] = "new"
    /\ CanAcquire(IpOf[k])
    /\ Acquire(IpOf[k])
    /\ conn' = [conn EXCEPT ![k] = "open"]
    /\ server' = [server EXCEPT ![k].limited = TRUE, ![k].session = TRUE]
    /\ UNCHANGED <<session, chan>>

\* SessionManager() or on_connect raises after the slot is taken; asyncssh then
\* ends the connection, and connection_lost is the next callback.
ConnectionMadeFails(k) ==
    /\ LoopFree
    /\ conn[k] = "new"
    /\ CanAcquire(IpOf[k])
    /\ Acquire(IpOf[k])
    /\ conn' = [conn EXCEPT ![k] = "broken"]
    /\ \E created \in BOOLEAN :
          server' = [server EXCEPT ![k].limited = TRUE, ![k].session = created]
    /\ UNCHANGED <<session, chan>>

\* Over the limit: the connection is aborted and no session is created.
ConnectionRejected(k) ==
    /\ LoopFree
    /\ conn[k] = "new"
    /\ ~CanAcquire(IpOf[k])
    /\ conn' = [conn EXCEPT ![k] = "rejected"]
    /\ UNCHANGED <<counts, server, session, chan>>

\* asyncssh has read the client's version line; no callback tells the server.
VersionArrives(k) ==
    /\ LoopFree
    /\ conn[k] = "open"
    /\ k \in Speakers
    /\ ~server[k].version
    /\ server' = [server EXCEPT ![k].version = TRUE]
    /\ UNCHANGED <<counts, conn, session, chan>>

\* Mutant: the flag that a version has been reported is never set.
UnreportedEver(s) == s.session /\ s.version

\* _report_client_version has something to report.
Unreported(s) == s.session /\ s.version /\ ~s.reported

Reported(s) == [s EXCEPT !.reported = s.reported \/ Unreported(s)]

VersionEvents(k) == session[k].versions + (IF Unreported(server[k]) THEN 1 ELSE 0)

\* What a callback of an authenticating client needs.
Authenticating(k) ==
    /\ LoopFree
    /\ conn[k] = "open"
    /\ ~session[k].authenticated

\* Authentication starts after the version exchange; a client may change user.
BeginAuth(k) ==
    /\ Authenticating(k)
    /\ server[k].version
    /\ server' = [server EXCEPT ![k] = [Reported(@) EXCEPT !.user = TRUE]]
    /\ session' = [session EXCEPT ![k].versions = VersionEvents(k)]
    /\ UNCHANGED <<counts, conn, chan>>

ValidatePublicKey(k) ==
    /\ Authenticating(k)
    /\ server[k].user
    /\ server' = [server EXCEPT ![k].tried = TRUE,
                                ![k].keys = IF @ < MaxKeys THEN @ + 1 ELSE @]
    /\ session' = [session EXCEPT ![k].key = @ \/ server[k].keys < MaxKeys]
    /\ UNCHANGED <<counts, conn, chan>>

\* try_login logs the attempt whatever the credential policy says.
ValidatePassword(k) ==
    /\ Authenticating(k)
    /\ server[k].user
    /\ server' = [server EXCEPT ![k].tried = TRUE]
    /\ \E accepted \in BOOLEAN :
          session' = [session EXCEPT ![k].logins = TRUE,
                                     ![k].authenticated = accepted]
    /\ UNCHANGED <<counts, conn, chan>>

\* One of these three cannot log what it has to.  The flags that it set before
\* the write stay set; the user and the login come after it.
AuthFails(k) ==
    /\ Authenticating(k)
    /\ \/ /\ Unreported(server[k])
          /\ server' = [server EXCEPT ![k] = Reported(@)]
          /\ session' = [session EXCEPT ![k].lost = @ \cup {"version"}]
       \/ /\ server[k].user
          /\ server[k].keys < MaxKeys
          /\ server' = [server EXCEPT ![k].tried = TRUE, ![k].keys = @ + 1]
          /\ session' = [session EXCEPT ![k].lost = @ \cup {"credential"}]
       \/ /\ server[k].user
          /\ server' = [server EXCEPT ![k].tried = TRUE]
          /\ session' = [session EXCEPT ![k].lost = @ \cup {"credential"}]
    /\ UNCHANGED <<counts, conn, chan>>

\* Mutant: the probe of a client that leaves is recorded only if it offered a key.
LeftAfterKey(s) == s.user /\ s.keys > 0

LeftWithoutTrying(s) == s.user /\ ~s.tried

\* What connection_lost logs before on_disconnect.
Left(k) == [session[k] EXCEPT !.versions = VersionEvents(k),
                              !.none = LeftWithoutTrying(server[k])]

\* Mutant: the slot is freed only by a session that is still open.
ConnectionLostClosed(k) ==
    /\ LoopFree
    /\ conn[k] \in {"open", "broken"}
    /\ conn' = [conn EXCEPT ![k] = "lost"]
    /\ session' = [session EXCEPT ![k] = IF server[k].session THEN OnDisconnect(Left(k)) ELSE @]
    /\ IF session[k].closed THEN UNCHANGED counts ELSE Release(IpOf[k])
    /\ server' = [server EXCEPT ![k] = [Reported(@) EXCEPT !.limited = FALSE]]
    /\ UNCHANGED chan

\* The connection ends, whoever ends it: the client, a network error, asyncssh
\* after an exception in a callback or a channel.
ConnectionLost(k) ==
    /\ LoopFree
    /\ conn[k] \in {"open", "broken"}
    /\ conn' = [conn EXCEPT ![k] = "lost"]
    /\ session' = [session EXCEPT ![k] = IF server[k].session THEN OnDisconnect(Left(k)) ELSE @]
    /\ Release(IpOf[k])
    /\ server' = [server EXCEPT ![k] = [Reported(@) EXCEPT !.limited = FALSE]]
    /\ UNCHANGED chan

\* One of its writes raises: the calls after it are not made, release included.
ConnectionLostFails(k) ==
    /\ LoopFree
    /\ conn[k] \in {"open", "broken"}
    /\ server[k].session
    /\ conn' = [conn EXCEPT ![k] = "failed"]
    /\ \/ /\ Unreported(server[k])
          /\ session' = [session EXCEPT ![k].lost = @ \cup {"version"}]
       \/ /\ LeftWithoutTrying(server[k])
          /\ session' = [session EXCEPT ![k].versions = VersionEvents(k),
                                        ![k].lost = @ \cup {"none"}]
       \/ /\ ~session[k].closed
          /\ session' = [session EXCEPT ![k] = OnDisconnectRaises(Left(k))]
    /\ server' = [server EXCEPT ![k] = Reported(@)]
    /\ UNCHANGED <<counts, chan>>

-----------------------------------------------------------------------------
(* Channels.                                                                *)

OpenChannel(h, kind) ==
    /\ LoopFree
    /\ chan[h].state = "unopened"
    /\ conn[ConnOf[h]] = "open"
    /\ session[ConnOf[h]].authenticated
    /\ chan' = [chan EXCEPT ![h].state = "ready", ![h].kind = kind]
    /\ UNCHANGED <<counts, conn, server, session>>

\* Mutant: writing to a closed transcript is not an error.
WritableAnyway(s) == TRUE

\* TranscriptWriter.record on a closed file raises ValueError.
Writable(s) == s.transcript

\* The exec command or the next shell line: record_recv, then handle_command
\* logs it and begins with its segments.
Receive(h, line) ==
    /\ LoopFree
    /\ chan[h].state = "ready"
    /\ chan[h].commands < MaxCommands
    /\ Writable(session[ConnOf[h]])
    /\ chan' = [chan EXCEPT ![h].state = "running", ![h].rest = line, ![h].commands = @ + 1]
    /\ UNCHANGED <<counts, conn, server, session>>

\* After a segment, handle_command breaks when the session should exit.
Stops(s, segment) == s.should_exit \/ segment = "exit"

\* The end of a segment that is not waiting for anything.
AfterSegment(h, segment) ==
    LET s == session[ConnOf[h]]
        rest == Tail(chan[h].rest)
    IN  /\ session' = [session EXCEPT ![ConnOf[h]].should_exit = @ \/ segment = "exit"]
        /\ chan' = [chan EXCEPT
                      ![h].state = "running",
                      ![h].rest = IF Stops(s, segment) THEN << >> ELSE rest,
                      ![h].cut = @ \/ (Stops(s, segment) /\ rest # << >> /\ segment # "exit")]

RunSegment(h) ==
    /\ chan[h].state = "running"
    /\ chan[h].rest # << >>
    /\ Head(chan[h].rest) # "wget"
    /\ AfterSegment(h, Head(chan[h].rest))
    /\ UNCHANGED <<counts, conn, server>>

\* A download is awaited.
StartFetch(h) ==
    /\ chan[h].state = "running"
    /\ chan[h].rest # << >>
    /\ Head(chan[h].rest) = "wget"
    /\ chan' = [chan EXCEPT ![h].state = "fetch"]
    /\ UNCHANGED <<counts, conn, server, session>>

EndFetch(h) ==
    /\ LoopFree
    /\ chan[h].state = "fetch"
    /\ AfterSegment(h, "wget")
    /\ UNCHANGED <<counts, conn, server>>

\* The finally clause closes the session, except after an exec request that was
\* not cut short.
EndsSession(h, state) == chan[h].kind # "exec" \/ state = "capped"

Finish(h, state) ==
    LET k == ConnOf[h]
    IN  /\ chan' = [chan EXCEPT ![h].state = state, ![h].rest = << >>]
        /\ \/ session' = [session EXCEPT ![k] =
                             IF EndsSession(h, state) THEN OnDisconnect(@) ELSE @]
           \/ /\ EndsSession(h, state)
              /\ ~session[k].closed
              /\ session' = [session EXCEPT ![k] = OnDisconnectRaises(@)]
        /\ UNCHANGED <<counts, conn, server>>

\* The reply is recorded; an exec channel or an exiting shell is then done.
Reply(h) ==
    /\ chan[h].state = "running"
    /\ chan[h].rest = << >>
    /\ Writable(session[ConnOf[h]])
    /\ \/ /\ chan[h].kind = "exec" \/ session[ConnOf[h]].should_exit
          /\ Finish(h, "ended")
       \/ /\ chan[h].kind = "shell" /\ ~session[ConnOf[h]].should_exit
          /\ chan' = [chan EXCEPT ![h].state = "ready"]
          /\ UNCHANGED <<counts, conn, server, session>>

\* record_recv or record_send on the closed transcript: the exception ends the
\* task through the same finally clause.
Raise(h) ==
    /\ ~Writable(session[ConnOf[h]])
    /\ \/ LoopFree /\ chan[h].state = "ready"
       \/ chan[h].state = "running" /\ chan[h].rest = << >>
    /\ Finish(h, "raised")

\* The log or the transcript cannot be written: at a line, at a segment that
\* logs something, at the end of a download or at the reply.  A command that
\* raises (a URL that urlsplit refuses) ends the task in the same way.
LogFails(h) ==
    /\ \/ LoopFree /\ chan[h].state \in {"ready", "fetch"}
       \/ chan[h].state = "running"
    /\ Finish(h, "failed")

\* The client closes a shell's input, sends a break, or asyncssh cancels the
\* task of a connection that is gone.
EndOfInput(h) ==
    /\ LoopFree
    /\ \/ chan[h].state = "ready" /\ chan[h].kind = "shell"
       \/ chan[h].state \in {"ready", "fetch"} /\ conn[ConnOf[h]] \in {"lost", "failed"}
    /\ Finish(h, "ended")

\* Mutant: only the read of a line is timed, not the command it starts.
CapReadingOnly(h) ==
    /\ LoopFree
    /\ chan[h].state = "ready" /\ chan[h].kind = "shell"
    /\ Finish(h, "capped")

\* max_session_seconds: wait_for cancels the task where it waits.
Cap(h) ==
    /\ LoopFree
    /\ \/ chan[h].state = "ready" /\ chan[h].kind = "shell"
       \/ chan[h].state = "fetch"
    /\ Finish(h, "capped")

ConnStep(k) ==
    \/ ConnectionMade(k)
    \/ ConnectionMadeFails(k)
    \/ ConnectionRejected(k)
    \/ VersionArrives(k)
    \/ BeginAuth(k)
    \/ ValidatePublicKey(k)
    \/ ValidatePassword(k)
    \/ AuthFails(k)
    \/ ConnectionLost(k)
    \/ ConnectionLostFails(k)

ChannelStep(h) ==
    \/ \E kind \in Kinds : OpenChannel(h, kind)
    \/ \E line \in Lines : Receive(h, line)
    \/ RunSegment(h)
    \/ StartFetch(h)
    \/ EndFetch(h)
    \/ Reply(h)
    \/ Raise(h)
    \/ LogFails(h)
    \/ EndOfInput(h)
    \/ Cap(h)

Next ==
    \/ \E k \in Conns : ConnStep(k)
    \/ \E h \in Channels : ChannelStep(h)

Spec == Init /\ [][Next]_vars

(***************************************************************************)
(* Fairness.  The loop runs a task that holds it, and runs every callback  *)
(* that is due in its next round: a task that has been started, and the    *)
(* timer of max_session_seconds (here above 0), however busy other         *)
(* channels keep the loop in between.  Nothing is assumed of the client.   *)
(***************************************************************************)
RunTask(h) == RunSegment(h) \/ StartFetch(h) \/ Reply(h) \/ Raise(h)

StartExec(h) == chan[h].kind = "exec" /\ \E line \in Lines : Receive(h, line)

FairSpec ==
    /\ Spec
    /\ \A h \in Channels : /\ WF_vars(RunTask(h))
                           /\ SF_vars(StartExec(h) \/ Raise(h))
                           /\ SF_vars(Cap(h))

-----------------------------------------------------------------------------
(* Properties.                                                              *)

\* The type invariant.
TypeOK ==
    /\ counts \in [Ips -> Nat]
    /\ conn \in [Conns -> {"new", "open", "broken", "rejected", "lost", "failed"}]
    /\ server \in [Conns -> Server]
    /\ session \in [Conns -> Session]
    /\ chan \in [Channels -> Chan]

\* The connections of address i that keep a slot.
Holders(i) == {k \in Conns : IpOf[k] = i /\ conn[k] \in {"open", "broken", "failed"}}

\* limiter.py: over any sequence of connects, rejections, losses and errors, an
\* address has a slot for each connection that is not over, and for ever one for
\* each that ended while connection_lost could not log what it logs before
\* release; none is freed twice, and no address exceeds its cap.
SlotsMatchConnections ==
    /\ \A i \in Ips : MaxPerIp > 0 => /\ counts[i] = Cardinality(Holders(i))
                                     /\ counts[i] <= MaxPerIp
    /\ \A k \in Conns :
          conn[k] = "failed" => session[k].lost \cap {"version", "none", "closed"} # {}

\* manager.py, on_disconnect: whichever of several channels and the connection
\* end first, session.closed is logged once, and left out only if its one write
\* failed.
ClosedOnce ==
    \A k \in Conns :
       /\ session[k].closings <= 1
       /\ "closed" \in session[k].lost => session[k].closings = 0
       /\ conn[k] = "lost" /\ server[k].session =>
             session[k].closings = 1 \/ "closed" \in session[k].lost

\* ssh.py, connection_lost: a client that asked to authenticate leaves a trace,
\* a password, a key or the "none" probe, unless writing the first two failed,
\* and the probe only when it offered neither of the others.
AuthRecorded ==
    \A k \in Conns :
       /\ conn[k] = "lost" /\ server[k].user =>
             \/ session[k].logins \/ session[k].key \/ session[k].none
             \/ "credential" \in session[k].lost
       /\ session[k].none => ~session[k].logins /\ ~session[k].key

\* ssh.py, _report_client_version: a version that arrived is logged once, at
\* authentication or when the connection is lost before it, or its one write
\* failed.
VersionLoggedOnce ==
    \A k \in Conns :
       /\ session[k].versions <= 1
       /\ "version" \in session[k].lost => session[k].versions = 0
       /\ conn[k] = "lost" /\ server[k].version =>
             session[k].versions = 1 \/ "version" \in session[k].lost

\* events.jsonl: once a session's session.closed is logged, no channel of it logs
\* another command, be it its first line or a later one.
NoCommandAfterClosed ==
    [][\A h \in Channels :
          session[ConnOf[h]].closings > 0 => chan'[h].commands = chan[h].commands]_vars

\* ssh.py, _handle_process: with max_session_seconds above 0, a channel ends,
\* even when its client falls silent or its download never answers.
ChannelsEnd ==
    \A h \in Channels :
       chan[h].state = "ready" ~> chan[h].state \in {"ended", "capped", "raised", "failed"}

\* The docstring at ssh.py:113 and the comment at ssh.py:158: an exec request
\* on a live connection is logged, also after another channel has ended (one
\* that the log itself failed, "failed", is not counted).
ExecServed ==
    \A h \in Channels :
       /\ chan[h].kind = "exec"
       /\ chan[h].state \in {"ended", "raised"}
       /\ conn[ConnOf[h]] = "open"
       => chan[h].commands > 0

\* The docstring at manager.py:172: "run each ; / && / || segment": a line is
\* cut short only by its own exit.
SegmentsRun == \A h \in Channels : ~chan[h].cut

=============================================================================
