--------------------------- MODULE TelnetListener ---------------------------
(***************************************************************************)
(* The Telnet listener: what a client sends, cut into chunks by the        *)
(* network, filtered of Telnet commands and assembled into lines, which    *)
(* log in and are then commands.                                           *)
(*                                                                         *)
(*   honeypot/listeners/telnet.py     _IacFilter, handle_telnet_connection *)
(*   honeypot/session/manager.py      SessionManager.try_login             *)
(*   honeypot/config/schema.py        CredentialPolicy.accepts             *)
(*                                                                         *)
(* A handler runs alone until it awaits: the next chunk ("reading") or a   *)
(* command's download ("busy").                                            *)
(***************************************************************************)
EXTENDS ConnectionLimiter, Sequences, FiniteSets, SequencesExt

CONSTANTS
    Conns,            \* connections
    IpOf,             \* the address a connection comes from
    Messages,         \* what the client of a connection may have to say
    MaxChunk,         \* bound on the bytes that arrive at once
    MaxLine,          \* _MAX_LINE_BYTES
    AcceptAny,        \* credentials.accept_any
    AllowList,        \* credentials.allow_list, pairs of lines
    ValidUsernames,   \* credentials.valid_usernames
    PasswordList      \* the lines of password_wordlist_path; empty if unset

\* What a client says: a data character, the data byte 255 ("ff"), the end of a
\* line ("nl"), an option negotiation, a subnegotiation, another command.
Item == {"r", "x", "ff", "nl", "do", "sb", "nop"}

ASSUME ConnAssumption == IpOf \in [Conns -> Ips] /\ Messages \in [Conns -> SUBSET Seq(Item)]
ASSUME LineAssumption == MaxChunk \in Nat \ {0} /\ MaxLine \in Nat
ASSUME PolicyAssumption == AcceptAny \in BOOLEAN

VARIABLE conn   \* connection -> its handler and the handler's session:
    \* state: "reading", "busy" with a command, or one of Closed
    \* phase: what the next line is, "login", "password" or "shell"
    \* tries: rounds of the login loop that failed
    \* items, rest: what the client says, and its bytes still to arrive
    \* iac, buf: the state of the filter, and linebuf
    \* lines: what read_line has returned
    \* pipelined: a chunk went on after a line feed

vars == <<counts, conn>>

\* The bytes of an item, as RFC 854 has them.  The option of a negotiation has
\* the same code as a line feed.
Encode(item) ==
    CASE item = "ff" -> <<"IAC", "IAC">>
      [] item = "nl" -> <<"CR", "LF">>
      [] item = "do" -> <<"IAC", "DO", "LF">>
      [] item = "sb" -> <<"IAC", "SB", "LF", "IAC", "SE">>
      [] item = "nop" -> <<"IAC", "NOP">>
      [] OTHER -> <<item>>

Bytes(items) == FlattenSeq([i \in DOMAIN items |-> Encode(items[i])])

Closed == {"new", "rejected", "failed", "closed", "capped"}

Init ==
    /\ counts = [i \in Ips |-> 0]
    /\ conn = [k \in Conns |-> [state |-> "new", phase |-> "login", tries |-> 0, items |-> << >>,
                                rest |-> << >>, iac |-> "normal", buf |-> << >>, lines |-> << >>,
                                pipelined |-> FALSE]]

-----------------------------------------------------------------------------
(* Reading a line.                                                          *)

\* _IacFilter.feed: the next state.
\* Mutant: a subnegotiation ends at its first IAC.
FeedStateEarly(state, byte) ==
    CASE state = "normal" -> IF byte = "IAC" THEN "iac" ELSE "normal"
      [] state = "iac" -> IF byte = "DO" THEN "cmd" ELSE IF byte = "SB" THEN "subneg" ELSE "normal"
      [] state = "subneg" -> IF byte = "IAC" THEN "normal" ELSE "subneg"
      [] OTHER -> "normal"

FeedState(state, byte) ==
    CASE state = "normal" -> IF byte = "IAC" THEN "iac" ELSE "normal"
      [] state = "iac" -> IF byte = "DO" THEN "cmd" ELSE IF byte = "SB" THEN "subneg" ELSE "normal"
      [] state = "cmd" -> "normal"
      [] state = "subneg" -> IF byte = "IAC" THEN "subneg_iac" ELSE "subneg"
      [] state = "subneg_iac" -> IF byte = "SE" THEN "normal" ELSE "subneg"

\* The data byte it returns, or none.
FeedData(state, byte) ==
    IF (state = "normal" /\ byte # "IAC") \/ (state = "iac" /\ byte = "IAC") THEN byte ELSE "none"

\* One byte of a chunk.  What follows the end of a line, or a line that is too
\* long, is dropped.
ReadByte(r, byte) ==
    LET data == FeedData(r.iac, byte)
        fed == [r EXCEPT !.iac = FeedState(@, byte)]
    IN  IF r.end # "no" THEN [r EXCEPT !.over = TRUE]
        ELSE IF data \in {"none", "CR"} THEN fed
        ELSE IF data = "LF" THEN [fed EXCEPT !.end = "line"]
        ELSE IF Len(r.buf) >= MaxLine THEN [fed EXCEPT !.end = "oversized"]
        ELSE [fed EXCEPT !.buf = Append(@, data)]

ReadChunk(c, chunk) ==
    FoldLeft(ReadByte, [iac |-> c.iac, buf |-> c.buf, end |-> "no", over |-> FALSE], chunk)

-----------------------------------------------------------------------------
(* Logging in.                                                              *)

IsKnownPassword(password) == password \in PasswordList

\* Mutant: the two halves of a login are judged apart.
AcceptsApart(username, password) ==
    \/ AcceptAny
    \/ /\ \E pair \in AllowList : pair[1] = username
       /\ \E pair \in AllowList : pair[2] = password
    \/ username \in ValidUsernames /\ IsKnownPassword(password)

Accepts(username, password) ==
    \/ AcceptAny
    \/ <<username, password>> \in AllowList
    \/ username \in ValidUsernames /\ IsKnownPassword(password)

\* What a line does to the session: the third login that fails ends it.
OnLine(c, line) ==
    CASE c.phase = "login" -> [c EXCEPT !.phase = "password"]
      [] c.phase = "password" ->
            IF Accepts(Last(c.lines), line) THEN [c EXCEPT !.phase = "shell"]
            ELSE [c EXCEPT !.phase = "login", !.tries = @ + 1,
                           !.state = IF c.tries = 2 THEN "closed" ELSE @]
      [] c.phase = "shell" -> [c EXCEPT !.state = "busy"]

-----------------------------------------------------------------------------
(* The handler.                                                             *)

Open(k) == conn[k].state \notin Closed

\* The finally clause frees the slot, unless on_disconnect, which logs the end
\* of the session first, raises OSError.
End(k, c) ==
    \/ /\ conn' = [conn EXCEPT ![k] = c]
       /\ IF c.state \in Closed THEN Release(IpOf[k]) ELSE counts' = counts
    \/ /\ c.state \in Closed
       /\ conn' = [conn EXCEPT ![k] = [c EXCEPT !.state = "failed"]]
       /\ counts' = counts

Connect(k, items) ==
    /\ conn[k].state = "new"
    /\ CanAcquire(IpOf[k])
    /\ Acquire(IpOf[k])
    /\ conn' = [conn EXCEPT ![k].state = "reading", ![k].items = items, ![k].rest = Bytes(items)]

Reject(k) ==
    /\ conn[k].state = "new"
    /\ ~CanAcquire(IpOf[k])
    /\ conn' = [conn EXCEPT ![k].state = "rejected"]
    /\ UNCHANGED counts

\* SessionManager() or on_connect raises OSError before the try.
ConnectFails(k) ==
    /\ conn[k].state = "new"
    /\ CanAcquire(IpOf[k])
    /\ Acquire(IpOf[k])
    /\ conn' = [conn EXCEPT ![k].state = "failed"]

Receive(k, n) ==
    /\ conn[k].state = "reading"
    /\ n <= Len(conn[k].rest)
    /\ LET c == conn[k]
           r == ReadChunk(c, SubSeq(c.rest, 1, n))
           read == [c EXCEPT !.rest = SubSeq(@, n + 1, Len(@)), !.iac = r.iac,
                             !.pipelined = @ \/ r.over]
       IN  \/ r.end = "no" /\ End(k, [read EXCEPT !.buf = r.buf])
           \/ r.end = "oversized" /\ End(k, [read EXCEPT !.state = "closed"])
           \/ r.end = "line" /\ End(k, [OnLine([read EXCEPT !.buf = << >>], r.buf) EXCEPT
                                          !.lines = Append(@, r.buf)])

\* handle_command returns, and the session ends after an exit; or it raises, and
\* the session ends as well: the finally clause is the same.
Reply(k, exit) ==
    /\ conn[k].state = "busy"
    /\ End(k, [conn[k] EXCEPT !.state = IF exit THEN "closed" ELSE "reading"])

\* The client has closed, or the connection is reset; a handler that is busy
\* notices when it reads again.
Disconnect(k) ==
    /\ conn[k].state = "reading"
    /\ End(k, [conn[k] EXCEPT !.state = "closed"])

\* Mutant: a command that runs is not timed.
CapReading(k) ==
    /\ conn[k].state = "reading"
    /\ End(k, [conn[k] EXCEPT !.state = "capped"])

\* max_session_seconds.
Cap(k) ==
    /\ Open(k)
    /\ End(k, [conn[k] EXCEPT !.state = "capped"])

Next ==
    \E k \in Conns :
       \/ \E items \in Messages[k] : Connect(k, items)
       \/ Reject(k)
       \/ ConnectFails(k)
       \/ \E n \in 1 .. MaxChunk : Receive(k, n)
       \/ \E exit \in BOOLEAN : Reply(k, exit)
       \/ Disconnect(k)
       \/ Cap(k)

\* The loop runs the timer of wait_for when it is due (max_session_seconds
\* above 0); nothing is assumed of the client, the network or a download.
Spec == Init /\ [][Next]_vars /\ \A k \in Conns : WF_vars(Cap(k))

-----------------------------------------------------------------------------
(* Properties.                                                              *)

\* limiter.py: a slot is held by an open connection, or for ever by one whose
\* session could not be created or its end not logged; every other way out
\* gives it back, and none gives back another connection's.
SlotsAccounted ==
    \A i \in Ips :
       LET held == {k \in Conns : IpOf[k] = i /\ (Open(k) \/ conn[k].state = "failed")}
       IN  MaxPerIp > 0 => counts[i] = Cardinality(held) /\ counts[i] <= MaxPerIp

\* The lines that the items stand for.
LinesOf(items) ==
    LET Say(said, item) ==
          CASE item = "nl" -> [lines |-> Append(said.lines, said.line), line |-> << >>]
            [] item = "ff" -> [said EXCEPT !.line = Append(@, "IAC")]
            [] item \in {"r", "x"} -> [said EXCEPT !.line = Append(@, item)]
            [] OTHER -> said
    IN  FoldLeft(Say, [lines |-> << >>, line |-> << >>], items).lines

\* telnet.py:35, "safe across arbitrary read boundaries": however the network
\* cuts the stream, the lines are those the client meant, as long as none of
\* its chunks goes on after a line feed.
LinesWhole ==
    \A k \in Conns : ~conn[k].pipelined => IsPrefix(conn[k].lines, LinesOf(conn[k].items))

\* schema.py, accepts, and the login loop: a client gets a shell only by a pair
\* of successive lines that the policy accepts, after at most two that it does
\* not, and every line from then on is a command.
ShellAfterLogin ==
    \A k \in Conns :
       LET lines == conn[k].lines
           good == {n \in 1 .. Len(lines) \div 2 :
                      \/ AcceptAny
                      \/ <<lines[2 * n - 1], lines[2 * n]>> \in AllowList
                      \/ lines[2 * n - 1] \in ValidUsernames /\ lines[2 * n] \in PasswordList}
       IN  /\ conn[k].phase = "shell" <=> \E n \in good : n <= 3
           /\ good = {} => Len(lines) <= 6

\* The other connections that keep a slot of k's address.
Others(k) ==
    {q \in Conns \ {k} : IpOf[q] = IpOf[k] /\ (Open(q) \/ conn[q].state = "failed")}

\* telnet.py, run_session under wait_for: with max_session_seconds above 0 an
\* open connection ends, silent client or endless download, and the address then
\* has only the slots that its other connections hold.  The one exception is an
\* end that cannot be logged: on_disconnect raises before release.
SessionsEnd ==
    \A k \in Conns :
       Open(k) ~> \/ conn[k].state = "failed"
                  \/ /\ ~Open(k)
                     /\ MaxPerIp > 0 => counts[IpOf[k]] = Cardinality(Others(k))

=============================================================================
