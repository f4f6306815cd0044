------------------------------- MODULE MCShell -------------------------------
(* An instance of the fake shell for TLC.                                   *)
EXTENDS Shell

W(name, args) == [busybox |-> FALSE, name |-> name, args |-> args, help |-> FALSE, url |-> "none"]

Abs(parts) == [abs |-> TRUE, parts |-> parts]
Rel(parts) == [abs |-> FALSE, parts |-> parts]

\* /, /tmp, /tmp/x, x and .. as operands; /bin and /tmp/root as sources.
Paths == {Abs(<< >>), Abs(<<"tmp">>), Abs(<<"tmp", "x">>), Rel(<<"x">>), Rel(<<"..">>)}
Sources == Paths \cup {Abs(<<"bin">>), Abs(<<"tmp", "root">>)}

One == {<<W(name, <<p>>)>> : name \in {"cd", "mkdir", "rm", "touch", "echo"}, p \in Paths}
Two == {<<W(name, <<p, q>>)>> : name \in {"cp", "mv"}, p \in Sources, q \in Paths}

\* Two operands, the second within the first or not.
Pairs == {<<W(name, <<Rel(<<"x">>), p>>)>> : name \in {"mkdir", "rm", "touch"},
                                            p \in {Rel(<<"x", "x">>), Abs(<<"tmp">>)}}

\* Chains of commands that succeed or fail, and of downloads.
Wget == [W("wget", << >>) EXCEPT !.url = "good"]
Ops == {W("&&", << >>), W("||", << >>), W(";", << >>)}
Chains == {<<a, o, b, p, Wget>> : a \in {W("true", << >>), W("false", << >>)},
                                  b \in {W("false", << >>), Wget}, o, p \in Ops}

\* A quote or backslash, any three such or separators, and a text.
Marks == {W(m, << >>) : m \in {"'", "\"", "\\", ";"}}
Quotes == {<<m>> \o q \o <<W("false", << >>)>> : m \in Marks \ Ops, q \in [1 .. 3 -> Marks]}

\* A quote at the limit of segments, escapes at the end of a line and before two
\* kinds of separators, a URL that cannot be read, and other commands.
Malformed == [W("wget", << >>) EXCEPT !.url = "malformed"]
Others == {<<W("true", << >>), W("\\", << >>), W(";", << >>), W("exit", << >>), W("\\", << >>)>>,
           <<W("true", << >>), W("&&", << >>), W("true", << >>), W(";", << >>), W("\"", << >>), W("\\", << >>),
             W("\\", << >>), W("\"", << >>), W("||", << >>), W("'", << >>), W(";", << >>), W("true", << >>)>>,
           <<W("true", << >>), W(";", << >>), W("exit", << >>), W(";", << >>), Wget>>,
           <<Wget, W(";", << >>), Wget, W("&&", << >>), W(";", << >>), Wget, W(";", << >>), Wget>>,
           <<W("&&", << >>), W("false", << >>)>>, <<Malformed, W("||", << >>), Wget>>,
           <<[Malformed EXCEPT !.name = "tftp"], W("||", << >>), Wget>>,
           <<W("ls", << >>)>>, <<W("ls", <<Rel(<<"x">>)>>)>>, <<W("cat", <<Rel(<<"bin", "sh">>)>>)>>,
           <<W("cd", << >>)>>, <<W("wget", << >>)>>, <<W("nosuch", << >>)>>,
           <<[W("exit", << >>) EXCEPT !.help = TRUE]>>,
           <<[W("", << >>) EXCEPT !.busybox = TRUE]>>,
           <<[W("x", << >>) EXCEPT !.busybox = TRUE]>>,
           <<[W("rm", <<Rel(<<"bin", "busybox">>)>>) EXCEPT !.busybox = TRUE]>>}

AllLines == One \cup Two \cup Pairs \cup Chains \cup Quotes \cup Others

=============================================================================
