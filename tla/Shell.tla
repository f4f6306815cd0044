-------------------------------- MODULE Shell --------------------------------
(***************************************************************************)
(* The fake shell of a session: a line is split into segments, each one is *)
(* dispatched to its command, and its exit status picks what runs next.    *)
(*                                                                         *)
(*   honeypot/shell/commands.py     split_command_line, dispatch           *)
(*   honeypot/session/manager.py    handle_command, _run_segment           *)
(*                                                                         *)
(* A line is a sequence of symbols: the separators, quotes, a backslash,   *)
(* and commands, each one the text of a whole simple command.              *)
(***************************************************************************)
EXTENDS FakeFilesystem

CONSTANTS
    Lines,        \* the lines that are typed
    MaxSegments,  \* MAX_CHAIN_SEGMENTS
    MaxDownloads, \* fetcher.max_downloads_per_session
    Applets,      \* persona bin_listing()
    HelpText,     \* the keys of HELP_TEXT
    MaxLines      \* bound on the lines of a session

\* A symbol: a separator, quote or backslash, or a command with its words: the
\* name, or the one that follows "busybox", the operands that are not options,
\* whether --help is there, and the URL or host that a download names: none, one
\* that urlsplit can read or one that it refuses.
Symbol == [busybox : BOOLEAN, name : STRING, args : Seq(Path), help : BOOLEAN,
           url : {"none", "good", "malformed"}]

Separators == {";", "&&", "||"}

ASSUME LineAssumption == Lines \subseteq Seq(Symbol)
ASSUME BoundAssumption == MaxSegments \in Nat \ {0} /\ MaxDownloads \in Nat /\ MaxLines \in Nat

VARIABLES
    fs,           \* the FakeFilesystem
    line,         \* the segments of the current line still to come
    status,       \* the status of the last segment that ran
    typed,        \* the line that has come, until its first segment is dealt with
    trace,        \* what has become of its segments
    session,      \* should_exit, and the lines and downloads so far
    moved         \* a mv took a source whose last name is "root"

vars == <<fs, line, status, typed, trace, session, moved>>

-----------------------------------------------------------------------------
(* split_command_line.                                                      *)

\* flush: an empty segment is dropped; the operator of the next one is kept
\* once there is a segment before it.
Flush(s, op) ==
    [s EXCEPT !.segs = IF s.buf = << >> THEN @ ELSE Append(@, [op |-> s.op, seg |-> s.buf]),
              !.op = IF s.buf = << >> /\ s.segs = << >> THEN @ ELSE op,
              !.buf = << >>]

\* Mutant: the number of segments is not limited.
NeverFull(s) == FALSE

Full(s) == Len(s.segs) >= MaxSegments

\* Mutant: quotes do not hide separators.
ScanUnquoted(s, c) ==
    IF Full(s) THEN s
    ELSE IF c.name \in Separators THEN Flush(s, c.name) ELSE [s EXCEPT !.buf = Append(@, c)]

\* One symbol of the line.  A backslash hides the next symbol, except within
\* single quotes.
Scan(s, c) ==
    LET keep == [s EXCEPT !.buf = Append(@, c), !.escaped = FALSE]
    IN  IF Full(s) THEN s
        ELSE IF s.escaped THEN keep
        ELSE IF c.name = "\\" /\ s.quote # "'" THEN [keep EXCEPT !.escaped = TRUE]
        ELSE IF s.quote # "" THEN [keep EXCEPT !.quote = IF c.name = s.quote THEN "" ELSE @]
        ELSE IF c.name \in {"'", "\""} THEN [keep EXCEPT !.quote = c.name]
        ELSE IF c.name \in Separators THEN Flush(s, c.name)
        ELSE keep

SplitCommandLine(raw) ==
    Flush(FoldLeft(Scan, [segs |-> << >>, buf |-> << >>, op |-> ";", quote |-> "",
                          escaped |-> FALSE], raw), ";").segs

-----------------------------------------------------------------------------
(* dispatch.                                                                *)

\* What a command leaves: the tree, its status, a download or an exit asked
\* for, an exception.
Result(t, st) == [fs |-> Collect(t), status |-> st, download |-> FALSE, exit |-> FALSE, raised |-> FALSE]

Done == Result(fs, 0)

\* "busybox NAME" of an unknown applet says so, with the status of not found.
UnknownApplet(c) == c.busybox /\ c.name \notin Applets \cup {"busybox", ""}
BareBusybox(c) == c.busybox /\ c.name = ""

\* urlsplit's ValueError is not caught.  The host of a tftp is only split for the
\* reply, once it is fetched.
Download(c) ==
    IF c.url = "none" THEN Result(fs, 1)
    ELSE [Done EXCEPT !.download = c.url = "good" \/ c.name = "tftp",
                      !.raised = c.url = "malformed"]

Cd(c) ==
    LET path == IF c.args = << >> THEN [abs |-> TRUE, parts |-> <<"root">>] ELSE c.args[1]
    IN  Result(Chdir(fs, path), IF IsDir(fs, LookupPath(fs, path)) THEN 0 ELSE 1)

Ls(c) ==
    LET n == IF c.args = << >> THEN Lookup(fs, fs.cwd) ELSE LookupPath(fs, c.args[1])
    IN  Result(fs, IF n = None THEN 2 ELSE 0)

Cat(c) == Result(fs, IF \A i \in DOMAIN c.args : Readable(fs, c.args[i]) THEN 0 ELSE 1)

\* echo TEXT > FILE, and the commands that work through their operands.
Echo(c) == IF c.args = << >> THEN Done ELSE Result(WriteFile(fs, c.args[1]), 0)
Mkdir(c) == Result(FoldLeft(MakeDir, fs, c.args), 0)
Touch(c) == Result(FoldLeft(LAMBDA t, p : IF Readable(t, p) THEN t ELSE WriteFile(t, p), fs, c.args), 0)
Rm(c) == Result(FoldLeft(RemoveEntry, fs, c.args), 0)

\* Errors of cp and mv are printed; their status is 0 all the same.
Cp(c) == IF Len(c.args) < 2 THEN Done ELSE Result(CopyNode(fs, c.args[1], c.args[2]), 0)
Mv(c) ==
    IF Len(c.args) < 2 THEN Done
    ELSE [Result(MoveNode(fs, c.args[1], c.args[2]), 0) EXCEPT
            !.raised = MoveRaises(fs, c.args[1], c.args[2])]

\* Commands that print and do nothing else, whatever they find.
Silent == {"chmod", "sh", "ash", "./x", "pwd", "grep", "sed", "awk", "ifconfig", "ip", "ping", "top",
           "vi", "mount", "uname", "whoami", "id", "ps", "free", "df", "true"}

Dispatch(c) ==
    IF BareBusybox(c) THEN Done
    ELSE IF UnknownApplet(c) THEN Result(fs, 127)
    ELSE IF c.help /\ c.name \in HelpText THEN Done
    ELSE CASE c.name \in {"wget", "curl", "tftp"} -> Download(c)
           [] c.name \in Silent -> Done
           [] c.name = "cd" -> Cd(c)
           [] c.name = "ls" -> Ls(c)
           [] c.name = "cat" -> Cat(c)
           [] c.name = "echo" -> Echo(c)
           [] c.name = "mkdir" -> Mkdir(c)
           [] c.name = "touch" -> Touch(c)
           [] c.name = "rm" -> Rm(c)
           [] c.name = "cp" -> Cp(c)
           [] c.name = "mv" -> Mv(c)
           [] c.name = "false" -> Result(fs, 1)
           [] c.name \in {"exit", "logout", "reboot"} -> [Done EXCEPT !.exit = TRUE]
           [] OTHER -> Result(fs, 127)

-----------------------------------------------------------------------------
(* handle_command.                                                          *)

Init ==
    /\ fs = Seed
    /\ line = << >>
    /\ status = 0
    /\ typed = << >>
    /\ trace = << >>
    /\ session = [should_exit |-> FALSE, lines |-> 0, downloads |-> 0]
    /\ moved = FALSE

\* A line can also follow one that exited, or raised an exception: the command
\* of the next exec channel.
HandleCommand(raw) ==
    /\ line = << >>
    /\ session.lines < MaxLines
    /\ session' = [session EXCEPT !.lines = @ + 1]
    /\ line' = SplitCommandLine(raw)
    /\ status' = 0
    /\ typed' = raw
    /\ trace' = << >>
    /\ UNCHANGED <<fs, moved>>

\* Mutant: a segment that is skipped counts as a failure.
AfterSkipFails == 1

AfterSkip == status

Skipped(op) == \/ op = "&&" /\ status # 0
               \/ op = "||" /\ status = 0

SkipSegment ==
    /\ line # << >>
    /\ Skipped(Head(line).op)
    /\ line' = Tail(line)
    /\ status' = AfterSkip
    /\ trace' = Append(trace, [op |-> Head(line).op, ran |-> FALSE, status |-> 0])
    /\ typed' = << >>
    /\ UNCHANGED <<fs, session, moved>>

\* A segment's first symbol names its command.  A quoted first word is none
\* that dispatch knows: the commands here have several words.
CommandOf(seg) == Head(seg)

\* Room for what the command creates: a copy of the whole tree at the most.
HasRoom(c) ==
    CASE c.name \in {"mkdir", "touch", "echo"} -> Cardinality(Free(fs)) >= Len(c.args)
      [] c.name = "cp" /\ Len(c.args) >= 2 /\ LookupPath(fs, c.args[1]) # None ->
            Cardinality(Free(fs)) >= Cardinality(Reach(fs, LookupPath(fs, c.args[1])))
      [] OTHER -> TRUE

\* The end of a segment: an exception ends the line, and so does an exit.
EndSegment(r, st) ==
    /\ fs' = r.fs
    /\ status' = st
    /\ line' = IF r.raised \/ r.exit \/ session.should_exit THEN << >> ELSE Tail(line)
    /\ trace' = Append(trace, [op |-> Head(line).op, ran |-> TRUE, status |-> st])
    /\ typed' = << >>

RunSegment ==
    /\ line # << >>
    /\ ~Skipped(Head(line).op)
    /\ LET c == CommandOf(Head(line).seg)
           r == Dispatch(c)
       IN  /\ HasRoom(c)
           /\ ~r.download
           /\ EndSegment(r, r.status)
           /\ session' = [session EXCEPT !.should_exit = @ \/ r.exit]
           /\ moved' = \/ moved
                       \/ /\ c.name = "mv" /\ Len(c.args) >= 2
                          /\ NameOf(fs, c.args[1]) = "root"

\* A download: refused over the session's limit, else fetched or not.
RunDownload ==
    /\ line # << >>
    /\ ~Skipped(Head(line).op)
    /\ HasRoom(CommandOf(Head(line).seg))
    /\ LET r == Dispatch(CommandOf(Head(line).seg))
       IN  /\ r.download
           /\ \E st \in IF session.downloads + 1 > MaxDownloads THEN {1} ELSE {0, 1} :
                 EndSegment(r, st)
           /\ session' = [session EXCEPT !.downloads = @ + 1]
    /\ UNCHANGED moved

Next ==
    \/ \E raw \in Lines : HandleCommand(raw)
    \/ SkipSegment
    \/ RunSegment
    \/ RunDownload

Spec == Init /\ [][Next]_vars

-----------------------------------------------------------------------------
(* Properties.                                                              *)

\* The type invariant.
TypeOK ==
    /\ fs \in Tree
    /\ session \in [should_exit : BOOLEAN, lines : 0 .. MaxLines, downloads : Nat]
    /\ status \in {0, 1, 2, 127}
    /\ moved \in BOOLEAN
    /\ Len(line) + Len(trace) <= MaxSegments

\* filesystem.py, copy_node and move_node: over any sequence of commands every
\* object has one entry at the most and the root has none, so what one path
\* changes shows under no other; except after a mv whose source ends in the
\* name that _lookup skips.
NoSharing ==
    LET used == {e \in Nodes \X Names : fs.entries[e[1]][e[2]] # None}
        held == {fs.entries[e[1]][e[2]] : e \in used}
    IN  ~moved => Cardinality(used) = Cardinality(held) /\ Root \notin held

\* What an operand names, with all below it, and what the entry that a cp or
\* mv sets has held.
Below(t, path) == IF LookupPath(t, path) = None THEN {} ELSE Reach(t, LookupPath(t, path))

Replaced(t, src, dst) ==
    LET n == t.entries[DstDir(t, dst)][DstName(t, src, dst)]
    IN  IF IsDir(t, DstDir(t, dst)) /\ n # None THEN Reach(t, n) ELSE {}

\* filesystem.py, move_node: a command makes objects vanish only by removing or
\* replacing the entry that leads to them, or by moving a node onto or into
\* itself; any other mv or cp, and every failing command, loses nothing.
NothingVanishes ==
    [][LET c == CommandOf(Head(line).seg)
           gone == Reach(fs, Root) \ Reach(fs', Root)
       IN  fs' # fs /\ ~moved' =>
             CASE c.name \in {"rm", "echo", "touch"} ->
                    gone \subseteq UNION {Below(fs, c.args[i]) : i \in DOMAIN c.args}
               [] c.name = "cp" -> gone \subseteq Replaced(fs, c.args[1], c.args[2])
               [] c.name = "mv" -> \/ gone \subseteq Replaced(fs, c.args[1], c.args[2])
                                   \/ /\ DstDir(fs, c.args[2]) \in Below(fs, c.args[1])
                                      /\ gone = Below(fs, c.args[1])
               [] OTHER -> gone = {}]_vars

\* Whether the list that ends at a segment succeeds, as a shell defines it.
ListSucceeds[i \in DOMAIN trace] ==
    LET ok == trace[i].ran /\ trace[i].status = 0
    IN  IF trace[i].op = ";" THEN ok
        ELSE IF trace[i].op = "&&" THEN ListSucceeds[i - 1] /\ ok
        ELSE ListSucceeds[i - 1] \/ ok

\* manager.py, handle_command: which segments run is what a shell's short
\* circuit evaluation of the && and || lists says, also across skipped ones
\* ("mishandling which arm runs would either skip the download or fetch it
\* twice", commands.py:144).
ArmsTaken ==
    \A i \in DOMAIN trace :
       trace[i].ran <=> \/ trace[i].op = ";"
                        \/ trace[i].op = "&&" /\ ListSucceeds[i - 1]
                        \/ trace[i].op = "||" /\ ~ListSucceeds[i - 1]

\* The units that a shell reads a line in: an escaped symbol, a quoted string up
\* to its closing quote, or a symbol by itself.  In double quotes a quote closes
\* unless the backslashes before it, counted from the opening one, are odd in
\* number; a unit that nothing closes takes the rest of the line.
EscapesBefore(i, k) == Cardinality({j \in i + 1 .. k - 1 : \A m \in j .. k - 1 : typed[m].name = "\\"})

Closes(i, k) == /\ typed[k].name = typed[i].name
                /\ typed[i].name = "'" \/ EscapesBefore(i, k) % 2 = 0

UnitEnd(i) ==
    LET closing == {k \in i + 1 .. Len(typed) : Closes(i, k)}
    IN  CASE typed[i].name = "\\" -> IF i < Len(typed) THEN i + 1 ELSE i
          [] typed[i].name \in {"'", "\""} -> IF closing = {} THEN Len(typed) ELSE Min(closing)
          [] OTHER -> i

Begins[i \in DOMAIN typed] == i = 1 \/ \E j \in 1 .. i - 1 : Begins[j] /\ UnitEnd(j) = i - 1

\* commands.py, split_command_line: a line is cut at the separators that are a
\* unit of their own, at every one and at no other.  The segments are the first
\* MaxSegments stretches between two cuts that are not empty, each with all of
\* its text and with the separator just before it; what follows them is dropped.
SplitAtSeparators ==
    LET cuts == {i \in DOMAIN typed : Begins[i] /\ typed[i].name \in Separators}
        ends == cuts \cup {0, Len(typed) + 1}
        stretches == {s \in ends \X ends : s[1] + 1 < s[2] /\ \A i \in cuts : ~(s[1] < i /\ i < s[2])}
        inOrder == SetToSortSeq(stretches, LAMBDA s, u : s[1] < u[1])
        Part(k) == [op |-> IF k = 1 THEN ";" ELSE typed[inOrder[k][1]].name,
                    seg |-> SubSeq(typed, inOrder[k][1] + 1, inOrder[k][2] - 1)]
    IN  SplitCommandLine(typed) = [k \in 1 .. Min({MaxSegments, Len(inOrder)}) |-> Part(k)]

=============================================================================
