------------------------------ MODULE MCStage2 ------------------------------
(* An instance of stage two for TLC.                                        *)
EXTENDS Stage2

CONSTANTS t1, t2, t3, s1, s2

\* Two tasks of one session and one of another.
Owners == (t1 :> s1) @@ (t2 :> s1) @@ (t3 :> s2)

\* The two are interchangeable: nothing but SessionOf tells tasks apart.
TaskSymmetry == Permutations({t1, t2})

Lit(text) == [var |-> FALSE, quoted |-> FALSE, text |-> text]
Var(name) == [var |-> TRUE, quoted |-> FALSE, text |-> name]
Quoted(name) == [Var(name) EXCEPT !.quoted = TRUE]

Seg(kind, name, words) ==
    [op |-> ";", lead |-> "", sets |-> << >>, kind |-> kind, name |-> name, words |-> words]
Lead(lead, seg) == [seg EXCEPT !.lead = lead]
Op(op, seg) == [seg EXCEPT !.op = op]
Set(name, w) == [Seg("none", "", << >>) EXCEPT !.sets = <<[name |-> name, word |-> w]>>]
With(name, w, seg) == [seg EXCEPT !.sets = Set(name, w).sets]

Wget(w) == Seg("get", "wget", <<w>>)
For(name, words) == Seg("for", name, words)
Done == Seg("done", "", << >>)
Fi == Seg("fi", "", << >>)
Test == Seg("other", "", << >>)
None == Seg("none", "", << >>)

\* Three URLs of one host, two of another, one of a third; "f1" has a scheme
\* that is not fetched, "m1" is malformed, and "u1 u2" has two words.
Hosts == [u \in {"u1", "u2", "u3", "u1 u2"} |-> "h1"] @@ [u \in {"v1", "v2"} |-> "h2"] @@ ("w1" :> "h3")

Words == ("u1 u2" :> <<"u1", "u2">>)

\* Servers that hold two scripts with URLs of all hosts.
Droppers == {<<Wget(Lit("u1")), Wget(Lit("u2")), Wget(Lit("v1"))>>,
             <<Wget(Lit("w1")), Wget(Lit("u3")), Wget(Lit("v2"))>>}

\* Scripts with a variable and a loop, in the body of which and after which
\* variables are used and assigned.
Values == {Lit("u1"), Lit(Unresolved), Lit("u1 u2")}
Headers == {For("i", <<Lit("u1"), Lit("u2")>>), For("i", <<Lit("u2"), Var("a")>>)}
First == {Wget(Var("i")), Set("b", Var("i")), None}
Second == {Wget(Var("b")), Set("a", Lit("u3")), For("j", <<Lit("u1")>>), Op("&&", Wget(Lit("u3")))}
After == {Wget(Var("a")), Wget(Var("i")), Set("i", Lit("u2")), Seg("get", "curl", <<Lit("-o"), Lit("u3"), Lit("f1")>>)}

Loops == {<<Set("a", v), h, Lead("do", x), y, Done, z>> :
            v \in Values, h \in Headers, x \in First, y \in Second, z \in After}

\* Scripts of conditions, branches and values that change, at the top and in
\* a loop.
Commands == {Set("a", Lit("u2")), Set("a", Lit(Unresolved)), Set("b", Var("a")), Wget(Var("a")), Wget(Lit("u3")),
             With("a", Lit("u2"), Wget(Var("a"))), With("a", Lit("u2"), Test)}
Chains == {<<Set("a", Lit("u1")), Op(o[1], x), Op(o[2], y), Wget(Var("a"))>> :
             x, y \in Commands, o \in {<<";", ";">>, <<"&&", "||">>}}
Ifs == {<<Set("a", Lit("u1")), Lead("if", Test), Lead("then", x), Lead("else", y), Fi, Wget(Var("a"))>> :
          x, y \in Commands}
       \cup {<<Lead("if", Wget(Lit("v1"))), Lead("then", x), Fi, Wget(Lit("u1"))>> : x \in Commands}
LoopIfs == {<<For("a", <<Lit("u1"), Lit("v2")>>), Lead("do", Set("b", Lit("u2"))), Lead("if", Test), Lead("then", x), Fi, Done>> :
              x \in Commands}
Rebound == {<<h, Lead("do", x), Done, g, Lead("do", Wget(Var("a"))), Done>> :
              h, g \in {For("a", <<Lit("u1")>>), For("a", <<Lit("u2"), Lit("u3")>>)}, x \in Commands}

\* Scripts without a loop, and with broken ones.
Others == {<<Seg("get", "tftp", <<Lit("-r"), Lit("u1"), Lit("h1")>>), Wget(Lit("u2"))>>,
           <<Wget(Lit("u1")), Wget(Lit("m1")), Wget(Lit("u2"))>>,
           <<For("i", <<Lit("u1"), Lit("m1")>>), Lead("do", Wget(Var("i"))), Done>>,
           <<Lead("while", Test), Lead("do", Wget(Lit("u1"))), Done>>,
           <<Set("a", Lit("u1")), For("i", <<Quoted("a")>>), Lead("do", Wget(Var("i"))), Done>>,
           <<Set("a", Lit("u1 u2")), For("i", <<Quoted("a")>>), Lead("do", Wget(Var("i"))), Done>>,
           <<For("i", << >>), Wget(Var("i"))>>,
           <<For("i", <<Lit("u1")>>), Wget(Var("i"))>>,
           <<For("i", <<Lit("u1")>>), Lead("do", Wget(Var("i"))), Test, Test, Test, Wget(Lit("u2")), Wget(Lit("u3")), Wget(Lit("v1"))>>}

AllPools == {Droppers}
            \cup {{s} : s \in Loops \cup Chains \cup Ifs \cup LoopIfs \cup Rebound \cup Others}

=============================================================================
