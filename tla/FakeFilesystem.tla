--------------------------- MODULE FakeFilesystem ---------------------------
(***************************************************************************)
(* The in-memory file system of a session, honeypot/shell/filesystem.py.   *)
(*                                                                         *)
(* Python objects are numbered nodes and a directory is a function from    *)
(* names to nodes, so that two entries can hold the same object: the code  *)
(* moves objects and copies them, and sharing is what can go wrong.  File  *)
(* contents are left out.  A FakeFile and a FakeDynamicFile are "file"; a  *)
(* FakeSymlink always points to "busybox" in its own directory.            *)
(*                                                                         *)
(* The operators take a tree and return what the method leaves of it.      *)
(***************************************************************************)
EXTENDS Naturals, Sequences, FiniteSets, SequencesExt

CONSTANTS
    Names,     \* the names entries can have
    MaxNodes   \* bound on the objects of a tree

ASSUME NamesAssumption == {"root", "bin", "busybox", "sh", "tmp"} \subseteq Names
ASSUME NodesAssumption == MaxNodes \in Nat /\ MaxNodes >= 6

Nodes == 1 .. MaxNodes
Root == 1     \* self.root
None == 0     \* no entry, and the None that _lookup returns

Tree == [kind : [Nodes -> {"free", "dir", "file", "link"}],
         entries : [Nodes -> [Names -> Nodes \cup {None}]],
         cwd : Seq(Names)]

\* A path as it is typed: names and "..", absolute or not; "" and "." have no
\* effect on either.
Path == [abs : BOOLEAN, parts : Seq(Names \cup {".."})]

NoEntries == [n \in Names |-> None]

\* What every session starts with, one directory, file and link standing for
\* the others of their kind: /bin with busybox and an applet, /tmp, /root.
Seed ==
    [kind |-> [d \in Nodes |-> CASE d \in {Root, 2, 5, 6} -> "dir"
                                 [] d = 3 -> "file"
                                 [] d = 4 -> "link"
                                 [] OTHER -> "free"],
     entries |-> [d \in Nodes |->
        CASE d = Root -> [NoEntries EXCEPT !["bin"] = 2, !["root"] = 5, !["tmp"] = 6]
          [] d = 2 -> [n \in Names |-> CASE n = "busybox" -> 3
                                         [] n = "sh" -> 4
                                         [] OTHER -> None]
          [] OTHER -> NoEntries],
     cwd |-> <<"root">>]

-----------------------------------------------------------------------------
(* Paths.                                                                   *)

\* ".." drops the last name, but not from ["root"].
Step(base, part) ==
    IF part # ".." THEN Append(base, part)
    ELSE IF base \in {<< >>, <<"root">>} THEN base ELSE Front(base)

Resolve(t, path) ==
    LET base == FoldLeft(Step, IF path.abs THEN << >> ELSE t.cwd, path.parts)
    IN  IF base = << >> THEN <<"root">> ELSE base

IsDir(t, n) == n # None /\ t.kind[n] = "dir"

\* Every part named "root" is skipped, wherever it stands.
Lookup(t, parts) ==
    LET Enter(n, part) == IF part = "root" THEN n
                          ELSE IF IsDir(t, n) THEN t.entries[n][part] ELSE None
    IN  FoldLeft(Enter, Root, parts)

LookupPath(t, path) == Lookup(t, Resolve(t, path))

\* All links have the same target, so that eight rounds are as good as one.
ResolveSymlink(t, n, parent) ==
    IF n = None \/ t.kind[n] # "link" THEN n
    ELSE IF IsDir(t, Lookup(t, parent)) THEN t.entries[Lookup(t, parent)]["busybox"]
    ELSE None

\* read_file returns a content, not None.
Readable(t, path) ==
    LET target == Resolve(t, path)
        n == ResolveSymlink(t, Lookup(t, target), Front(target))
    IN  n # None /\ t.kind[n] = "file"

-----------------------------------------------------------------------------
(* Objects.                                                                 *)

Children(t, d) == {t.entries[d][n] : n \in Names} \ {None}

\* The objects that can be reached from an object.
Reach(t, d) ==
    LET R[k \in 0 .. MaxNodes] ==
          IF k = 0 THEN {d}
          ELSE LET near == R[k - 1] IN near \cup UNION {Children(t, e) : e \in near}
    IN  R[MaxNodes]

Free(t) == {d \in Nodes : t.kind[d] = "free"}

\* Python frees what nothing refers to.
Collect(t) ==
    LET live == Reach(t, Root)
    IN  [t EXCEPT !.kind = [d \in Nodes |-> IF d \in live THEN @[d] ELSE "free"],
                  !.entries = [d \in Nodes |-> IF d \in live THEN @[d] ELSE NoEntries]]

\* A new object of a kind, and the node it gets, as long as there is one.
NewNode(t) == IF Free(t) = {} THEN None ELSE Min(Free(t))

New(t, kind) == [t EXCEPT !.kind[NewNode(t)] = kind]

\* Mutant: the copy of a directory holds the original's objects.
CopyShallow(t, n) ==
    [New(t, t.kind[n]) EXCEPT !.entries[NewNode(t)] = t.entries[n]]

\* The free nodes are used in order: a copy has the place among them that its
\* original has among the objects that are copied.
Place(S, x) == Cardinality({y \in S : y < x})
SamePlace(S, T, x) == CHOOSE y \in T : Place(T, y) = Place(S, x)

\* The node that the copy of n gets.
CopyOf(t, n) == SamePlace(Reach(t, n), Free(t), n)

\* deepcopy: the objects that n reaches, again, with the same sharing.
Copy(t, n) ==
    LET old == Reach(t, n)
        free == Free(t)
        at == [e \in old \cup {None} |-> IF e = None THEN None ELSE SamePlace(old, free, e)]
        new == {at[e] : e \in old}
        from == [d \in new |-> SamePlace(free, old, d)]
    IN  [t EXCEPT
           !.kind = [d \in Nodes |-> IF d \in new THEN t.kind[from[d]] ELSE @[d]],
           !.entries = [d \in Nodes |-> IF d \in new
                                        THEN [m \in Names |-> at[t.entries[from[d]][m]]]
                                        ELSE @[d]]]

-----------------------------------------------------------------------------
(* Operations.                                                              *)

Chdir(t, path) ==
    IF IsDir(t, LookupPath(t, path)) THEN [t EXCEPT !.cwd = Resolve(t, path)] ELSE t

\* Where a method that names a new entry puts it, and under which name.
ParentOf(t, path) == Lookup(t, Front(Resolve(t, path)))
NameOf(t, path) == Last(Resolve(t, path))

\* An existing entry is replaced, be it a file or a directory.
WriteFile(t, path) ==
    IF IsDir(t, ParentOf(t, path))
    THEN [New(t, "file") EXCEPT !.entries[ParentOf(t, path)][NameOf(t, path)] = NewNode(t)]
    ELSE t

\* setdefault: an existing entry is kept.
MakeDir(t, path) ==
    IF IsDir(t, ParentOf(t, path)) /\ t.entries[ParentOf(t, path)][NameOf(t, path)] = None
    THEN [New(t, "dir") EXCEPT !.entries[ParentOf(t, path)][NameOf(t, path)] = NewNode(t)]
    ELSE t

RemoveEntry(t, path) ==
    IF IsDir(t, ParentOf(t, path))
    THEN [t EXCEPT !.entries[ParentOf(t, path)][NameOf(t, path)] = None]
    ELSE t

\* cp and mv put the node into an existing directory under the source's name,
\* or under the destination's name into the destination's parent.
DstDir(t, dst) == IF IsDir(t, LookupPath(t, dst)) THEN LookupPath(t, dst) ELSE ParentOf(t, dst)
DstName(t, src, dst) == IF IsDir(t, LookupPath(t, dst)) THEN NameOf(t, src) ELSE NameOf(t, dst)

CanCopy(t, src, dst) == LookupPath(t, src) # None /\ IsDir(t, DstDir(t, dst))

CopyNode(t, src, dst) ==
    LET n == LookupPath(t, src)
    IN  IF CanCopy(t, src, dst)
        THEN [Copy(t, n) EXCEPT !.entries[DstDir(t, dst)][DstName(t, src, dst)] = CopyOf(t, n)]
        ELSE t

CanMove(t, src, dst) == CanCopy(t, src, dst) /\ IsDir(t, ParentOf(t, src))

\* The tree once the node has its new entry, and the old one is still there.
Placed(t, src, dst) ==
    [t EXCEPT !.entries[DstDir(t, dst)][DstName(t, src, dst)] = LookupPath(t, src)]

\* Mutant: the node is taken out before the destination is known to exist.
MoveNodeFirst(t, src, dst) ==
    LET u == IF CanMove(t, src, dst) THEN Placed(t, src, dst) ELSE t
    IN  IF IsDir(t, ParentOf(t, src))
        THEN [u EXCEPT !.entries[ParentOf(t, src)][NameOf(t, src)] = None]
        ELSE u

MoveNode(t, src, dst) ==
    IF CanMove(t, src, dst)
    THEN [Placed(t, src, dst) EXCEPT !.entries[ParentOf(t, src)][NameOf(t, src)] = None]
    ELSE t

\* "del" of an entry that is not there is a KeyError.
MoveRaises(t, src, dst) ==
    /\ CanMove(t, src, dst)
    /\ Placed(t, src, dst).entries[ParentOf(t, src)][NameOf(t, src)] = None

=============================================================================
