----------------------------- MODULE ScriptScan -----------------------------
(***************************************************************************)
(* The static scan of a captured script for the downloads it lists.        *)
(*                                                                         *)
(*   honeypot/fetcher/script_scan.py   _Scanner, scan_script               *)
(*   honeypot/shell/commands.py        parse_download_args                 *)
(*                                                                         *)
(* A script is what the splitter makes of its lines, a sequence of         *)
(* segments; a segment has its operator, its assignments and its command,  *)
(* and a word is a literal or a reference to a variable.  A text that      *)
(* holds a command substitution is the literal Unresolved.  "busybox", a   *)
(* path before a command's name and "export" are left out: the scan drops  *)
(* them.                                                                   *)
(***************************************************************************)
EXTENDS Naturals, Sequences, FiniteSets, SequencesExt

CONSTANTS
    Urls,            \* the texts that hold "://"
    Http,            \* those of scheme http or https
    Malformed,       \* those that urlsplit refuses with ValueError
    WordsOf,         \* the words of a text that blanks divide
    MaxUrls,         \* fetcher.stage2_max_urls_per_script
    MaxLoopValues,   \* _MAX_LOOP_VALUES
    MaxLoopBody      \* _MAX_LOOP_BODY

ASSUME UrlAssumption == Http \subseteq Urls /\ Malformed \subseteq Urls \ Http
ASSUME WordsAssumption == \A text \in DOMAIN WordsOf : WordsOf[text] \in Seq(STRING)
ASSUME ScanBoundAssumption == /\ MaxUrls \in Nat
                              /\ MaxLoopValues \in Nat
                              /\ MaxLoopBody \in Nat

Unresolved == "$"

Word == [var : BOOLEAN, quoted : BOOLEAN, text : STRING]

\* NAME=value.
Assignment == [name : STRING, word : Word]

\* A "for" runs its name through its words, a "get" is a download command, "if"
\* and "while" (or "until") lead the command that is their condition; "none" is
\* left when there is no command, with a segment's assignments or without.
Segment == [op : {";", "&&", "||"}, lead : {"", "do", "then", "else", "if", "while"},
            sets : Seq(Assignment), kind : {"for", "done", "fi", "get", "other", "none"},
            name : STRING, words : Seq(Word)]

-----------------------------------------------------------------------------
(* parse_download_args.                                                     *)

NoRequest == [protocol |-> "none", url |-> ""]

Options == {"-O", "-o", "-l", "-r", "-b", "-c", "-g"}

\* tftp: the first word that is neither an option nor the value of one.
TftpHost(args) ==
    FoldLeft(LAMBDA s, a :
               IF s.skip > 0 THEN [s EXCEPT !.skip = @ - 1]
               ELSE IF a \in {"-l", "-r", "-b"} THEN [s EXCEPT !.skip = 1]
               ELSE IF a = "-c" THEN [s EXCEPT !.skip = 2]
               ELSE IF a \in Options \/ s.host # "" THEN s
               ELSE [s EXCEPT !.host = a],
             [host |-> "", skip |-> 0], args).host

\* The others: the last word that is a URL, wherever it stands.  "error" stands
\* for the exception of urlsplit.
ParseDownloadArgs(cmd, args) ==
    LET urls == SelectSeq(args, LAMBDA a : a \in Urls)
    IN  IF cmd = "tftp"
        THEN IF TftpHost(args) = "" THEN NoRequest
             ELSE [protocol |-> "tftp", url |-> TftpHost(args)]
        ELSE IF urls = << >> THEN NoRequest
             ELSE [protocol |-> IF Last(urls) \in Http THEN "http"
                                ELSE IF Last(urls) \in Malformed THEN "error" ELSE "ftp",
                   url |-> Last(urls)]

-----------------------------------------------------------------------------
(* _Scanner.                                                                *)

\* Mutant: an unknown variable expands to nothing.
ExpandEmpty(w, env) ==
    IF ~w.var THEN w.text
    ELSE IF w.text \in DOMAIN env THEN env[w.text] ELSE ""

Expand(w, env) ==
    IF ~w.var THEN w.text
    ELSE IF w.text \in DOMAIN env THEN env[w.text] ELSE Unresolved

ExpandAll(words, env) == [i \in DOMAIN words |-> Expand(words[i], env)]

Bind(env, name, value) ==
    [x \in DOMAIN env \cup {name} |-> IF x = name THEN value ELSE env[x]]

\* A value that is not resolved leaves the variable as it was.
Assign(env, name, value) == IF value = Unresolved THEN env ELSE Bind(env, name, value)

\* The assignments before a command, or without one, each with those before it.
AssignNext(env, set) == Assign(env, set.name, Expand(set.word, env))
AssignAll(env, sets) == FoldLeft(AssignNext, env, sets)

IsFull(s) == Len(s.urls) >= MaxUrls

\* What a download command adds to the scan.
Request(s, cmd, args) ==
    LET req == ParseDownloadArgs(cmd, args)
    IN  IF Unresolved \in Range(args) THEN [s EXCEPT !.skipped = @ + 1]
        ELSE IF req.protocol = "error" THEN [s EXCEPT !.raised = TRUE]
        ELSE IF req.protocol = "none" THEN s
        ELSE IF req.protocol # "http" THEN [s EXCEPT !.skipped = @ + 1]
        ELSE IF req.url \in Range(s.urls) \/ IsFull(s) THEN s
        ELSE [s EXCEPT !.urls = Append(@, req.url)]

\* _segment, with the environment as a field of the scan.  It looks through
\* "do", "then" and "else"; "if wget ..." is no download to it.
ScanSegment(s, seg) ==
    LET env == AssignAll(s.env, seg.sets)
    IN  IF seg.lead \in {"if", "while"} THEN s
        ELSE IF seg.kind = "get"
        THEN Request([s EXCEPT !.env = env], seg.name, ExpandAll(seg.words, env))
        ELSE [s EXCEPT !.env = env]

FirstWord(seg) ==
    IF seg.lead # "" THEN seg.lead ELSE IF seg.sets = << >> THEN seg.kind ELSE "none"

IsBare(seg) == seg.kind = "none" /\ seg.sets = << >>

\* Where the scan of a loop's body stops: at the "done" that matches, counting
\* the loops that begin a segment of their own, at the end, or at the bound.
LoopEnd(segs, start) ==
    LET Count(j, words) == Cardinality({k \in start + 2 .. j - 1 : FirstWord(segs[k]) \in words})
        Stops(j) == \/ j > Len(segs)
                    \/ FirstWord(segs[j]) = "done" /\ Count(j, {"done"}) = Count(j, {"for", "while"})
                    \/ j - start - 1 >= MaxLoopBody + (IF IsBare(segs[start + 1]) THEN 1 ELSE 0)
    IN  CHOOSE j \in start + 2 .. Len(segs) + 1 : Stops(j) /\ \A k \in start + 2 .. j - 1 : ~Stops(k)

\* The loop's segments, the rest of the "do" segment first.
LoopBody(segs, start) == SubSeq(segs, start + 1, LoopEnd(segs, start) - 1)

\* str.split.
Split(text) ==
    IF text \in DOMAIN WordsOf THEN WordsOf[text]
    ELSE IF text = "" THEN << >> ELSE <<text>>
SplitNext(words, text) == words \o Split(text)
SplitAll(texts) == FoldLeft(SplitNext, << >>, texts)

LoopValues(s, seg) ==
    LET texts == ExpandAll(seg.words, s.env)
        values == SplitAll(texts)
    IN  IF Unresolved \in Range(texts) THEN << >>
        ELSE SubSeq(values, 1, IF Len(values) < MaxLoopValues THEN Len(values) ELSE MaxLoopValues)

\* _for_loop: every value has the variables as they were before the loop.
ForValues(s, name, body, values) ==
    LET OneValue(r, v) ==
          IF IsFull(r) THEN r
          ELSE FoldLeft(ScanSegment, [r EXCEPT !.env = Bind(s.env, name, v)], body)
    IN  FoldLeft(OneValue, s, values)

ForLoop(s, segs, start) ==
    IF segs[start].words = << >> \/ start = Len(segs) \/ segs[start + 1].lead # "do"
    THEN [s EXCEPT !.next = start + 1]
    ELSE [ForValues(s, segs[start].name, LoopBody(segs, start), LoopValues(s, segs[start])) EXCEPT
            !.env = s.env, !.next = LoopEnd(segs, start) + 1]

\* run and scan_script.  An exception voids the scan wherever it occurs.
Scan(segs) ==
    LET At(s, i) ==
          IF i < s.next \/ IsFull(s) THEN s
          ELSE IF FirstWord(segs[i]) = "for" THEN ForLoop(s, segs, i)
          ELSE [ScanSegment(s, segs[i]) EXCEPT !.next = i + 1]
    IN  FoldLeftDomain(At, [urls |-> << >>, skipped |-> 0, env |-> << >>, raised |-> FALSE,
                            next |-> 1], segs)

-----------------------------------------------------------------------------
(* What a shell that runs the script may do.  Each command succeeds or      *)
(* fails, so a run is one of a set: what its variables hold, the last       *)
(* status, whether the branch it is in and the "then" branch are taken,     *)
(* the URLs it has downloaded and the most values a loop had.               *)

Value(r, w) ==
    IF ~w.var THEN w.text ELSE IF w.text \in DOMAIN r.env THEN r.env[w.text] ELSE ""

\* A reference that is not quoted is split; a literal is one word.
Fields(r, words) ==
    FlattenSeq([i \in DOMAIN words |->
                  IF words[i].var /\ ~words[i].quoted THEN Split(Value(r, words[i]))
                  ELSE <<Value(r, words[i])>>])

\* Assignments before a command are the command's alone, and its words are
\* expanded without them.
Execute(r, seg) ==
    LET Set(q, a) == [q EXCEPT !.env = Bind(@, a.name, Value(q, a.word))]
        args == Fields(r, seg.words)
        req == ParseDownloadArgs(seg.name, args)
        fetched == seg.kind = "get" /\ Unresolved \notin Range(args) /\ req.protocol = "http"
    IN  {[q EXCEPT !.ok = ok, !.got = IF fetched THEN @ \cup {req.url} ELSE @] :
           q \in {IF seg.kind = "none" THEN FoldLeft(Set, r, seg.sets) ELSE r}, ok \in BOOLEAN}

\* Where the segment finds the run: "then" and "else" begin a branch, "fi" ends it.
Branch(r, seg) ==
    CASE seg.lead = "then" -> [r EXCEPT !.live = r.ok, !.taken = r.ok]
      [] seg.lead = "else" -> [r EXCEPT !.live = ~r.taken]
      [] seg.kind = "fi" -> [r EXCEPT !.live = TRUE]
      [] OTHER -> r

RunSegment(runs, seg) ==
    UNION {LET r == Branch(q, seg)
           IN  IF r.live /\ (seg.op = "&&" => r.ok) /\ (seg.op = "||" => ~r.ok) /\ ~IsBare(seg)
               THEN Execute(r, seg) ELSE {r} : q \in runs}

\* How many loops, or "if"s, are open before segment i.
Open(segs, i, begin, end) ==
    Cardinality({k \in 1 .. i - 1 : FirstWord(segs[k]) = begin})
      - Cardinality({k \in 1 .. i - 1 : FirstWord(segs[k]) = end})
LoopDepth(segs, i) == Open(segs, i, "for", "done")
IfDepth(segs, i) == Open(segs, i, "if", "fi")

RunLoop(r, segs, f) ==
    LET values == Fields(r, segs[f].words)
        done == Min({j \in f .. Len(segs) : segs[j].kind = "done"})
        Turn(runs, v) == FoldLeft(RunSegment, {[q EXCEPT !.env = Bind(@, segs[f].name, v)] : q \in runs},
                                  SubSeq(segs, f + 1, done - 1))
    IN  FoldLeft(Turn, {[r EXCEPT !.turns = IF Len(values) > @ THEN Len(values) ELSE @]}, values)

RunScript(segs) ==
    LET At(runs, i) ==
          IF LoopDepth(segs, i) > 0 THEN runs
          ELSE IF segs[i].kind = "for" THEN UNION {RunLoop(r, segs, i) : r \in runs}
          ELSE RunSegment(runs, segs[i])
    IN  FoldLeftDomain(At, {[env |-> << >>, ok |-> TRUE, live |-> TRUE, taken |-> FALSE,
                             got |-> {}, turns |-> 0]}, segs)

\* A shell accepts the script; a loop may hold an "if", and that is all the
\* nesting there is.
IsFlat(segs) ==
    LET n == Len(segs) + 1
    IN  /\ \A i \in 1 .. n : LoopDepth(segs, i) \in {0, 1} /\ IfDepth(segs, i) \in {0, 1}
        /\ LoopDepth(segs, n) = 0 /\ IfDepth(segs, n) = 0
        /\ \A i \in DOMAIN segs :
              LET s == segs[i]
                  last == IF i = 1 THEN "" ELSE FirstWord(segs[i - 1])
              IN  /\ s.lead = "do" <=> last = "for"
                  /\ s.lead = "then" <=> last = "if"
                  /\ s.lead = "else" => IfDepth(segs, i) = 1
                  /\ s.kind = "for" => s.words # << >>
                  /\ s.kind \in {"for", "done"} => IfDepth(segs, i) = 0
                  /\ s.kind \in {"for", "done", "fi"} => FirstWord(s) = s.kind
                  /\ s.op # ";" => s.lead = "" /\ s.kind \notin {"for", "done", "fi"}
                  /\ s.lead # "while" /\ (s.lead = "if" => ~IsBare(s))
        /\ \A i, j \in DOMAIN segs : segs[i].lead = "else" /\ segs[j].lead = "else" /\ i < j =>
              \E k \in i .. j : segs[k].kind = "fi"

\* The places that give a name a value: assignment k of segment i, or the
\* header of a loop (k = 0).
Bindings(segs) ==
    {b \in (DOMAIN segs) \X (0 .. Max({0} \cup {Len(segs[i].sets) : i \in DOMAIN segs})) :
       IF b[2] = 0 THEN segs[b[1]].kind = "for" ELSE b[2] <= Len(segs[b[1]].sets)}
BoundName(segs, b) == IF b[2] = 0 THEN segs[b[1]].name ELSE segs[b[1]].sets[b[2]].name
IsTop(segs, b) == b[2] # 0 /\ LoopDepth(segs, b[1]) = 0
IsLiteral(w) == ~w.var /\ w.text # Unresolved

\* The scan can follow the variables that are read: their assignments do not
\* depend on how a command ends, nor stand before one; one that has a value is
\* given another by a literal or a loop, and in or by a loop only if it got the
\* first there too; a value of several words is for the list of a loop.
ReadNames(segs) ==
    {w.text : w \in {w \in UNION {Range(segs[i].words) \cup {a.word : a \in Range(segs[i].sets)} :
                                   i \in DOMAIN segs} : w.var}}

IsTraceable(segs) ==
    LET read == ReadNames(segs)
        binds == {b \in Bindings(segs) : BoundName(segs, b) \in read}
        Word1(b) == segs[b[1]].sets[b[2]].word
        lists == {BoundName(segs, b) : b \in {b \in binds : b[2] # 0 /\ Word1(b).text \in DOMAIN WordsOf}}
        Single(w) == IF w.var THEN w.text \notin lists ELSE w.text \notin DOMAIN WordsOf
    IN  /\ \A b \in binds : b[2] # 0 =>
              /\ segs[b[1]].kind = "none" /\ segs[b[1]].op = ";"
              /\ segs[b[1]].lead \in {"", "do"} /\ IfDepth(segs, b[1]) = 0
        /\ \A b, c \in binds :
              /\ BoundName(segs, b) = BoundName(segs, c)
              /\ b[1] < c[1] \/ (b[1] = c[1] /\ b[2] < c[2])
              => /\ IsTop(segs, b) => IsTop(segs, c)
                 /\ c[2] = 0 \/ IsLiteral(Word1(c))
        /\ \A b \in binds : b[2] # 0 /\ Word1(b).var => Single(Word1(b))
        /\ \A i \in DOMAIN segs : \A w \in Range(segs[i].words) :
              Single(w) \/ (segs[i].kind = "for" /\ w.var /\ ~w.quoted)

\* The scan knows what the loops run through, and no download is a condition.
IsResolved(segs) ==
    /\ \A i \in DOMAIN segs : ~(segs[i].lead = "if" /\ segs[i].kind = "get")
    /\ \A i \in DOMAIN segs : segs[i].kind = "for" =>
          \A w \in Range(segs[i].words) :
             IF w.var THEN \E b \in Bindings(segs) :
                             /\ b[1] < i /\ IsTop(segs, b) /\ BoundName(segs, b) = w.text
                             /\ IsLiteral(segs[b[1]].sets[b[2]].word)
             ELSE IsLiteral(w)

=============================================================================
