--------------------------- MODULE MCSshListener ---------------------------
(* Instances of the SSH listener for TLC.                                   *)
EXTENDS SshListener, TLC

CONSTANTS i1, k1, k2, h1, h2

\* Two connections from one address compete for one slot.
SameAddress == [k \in {k1, k2} |-> i1]
OneConnection == [k \in {k1} |-> i1]

\* Two channels of the first connection.
FirstConnection == [h \in {h1, h2} |-> k1]

\* A dropper, and the end of a shell.
ShortLines == {<<"wget">>, <<"exit">>}

\* A command before a download, and a line that exits before its end.
SomeLines == {<<"cmd", "wget">>, <<"wget", "exit", "cmd">>}

=============================================================================
