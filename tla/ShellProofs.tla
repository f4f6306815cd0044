---------------------------- MODULE ShellProofs ----------------------------
(***************************************************************************)
(* Proofs about the shell, for any lines, names and limits:                *)
(*                                                                         *)
(*   - the segments of a line that run are the ones a shell's short        *)
(*     circuit evaluation picks, whatever the commands do;                 *)
(*   - the tree stays a tree, and no object of it gets two entries,        *)
(*     whatever is typed, until a mv takes a source named "root";          *)
(*   - until then a command makes nothing vanish but what the entries it   *)
(*     removes or replaces lead to, and what is moved onto or into itself. *)
(***************************************************************************)
EXTENDS Shell, SequenceTheorems, FiniteSetTheorems, WellFoundedInduction, TLAPS

-----------------------------------------------------------------------------
(* The folds of the model, and their steps, under names of their own: the   *)
(* provers cannot instantiate an operator that is a parameter.              *)

Enter(t, d, part) ==
    IF part = "root" THEN d ELSE IF IsDir(t, d) THEN t.entries[d][part] ELSE None
TouchOne(t, p) == IF Readable(t, p) THEN t ELSE WriteFile(t, p)

ScanAll(b, w) == FoldLeft(Scan, b, w)
StepAll(b, w) == FoldLeft(Step, b, w)
EnterAll(t, b, w) == FoldLeft(LAMBDA d, part : Enter(t, d, part), b, w)
MakeDirs(b, w) == FoldLeft(MakeDir, b, w)
TouchAll(b, w) == FoldLeft(LAMBDA t, p : IF Readable(t, p) THEN t ELSE WriteFile(t, p), b, w)
RemoveAll(b, w) == FoldLeft(RemoveEntry, b, w)

\* The objects that a path leads through.
EnterChain(t, b, w, n, X) ==
    \E g \in [0 .. n -> X] : /\ g[0] = b
                             /\ \A m \in 1 .. n : g[m] = Enter(t, g[m - 1], w[m])
                             /\ EnterAll(t, b, w) = g[n]

-----------------------------------------------------------------------------
(* Induction and folds.                                                     *)

\* Induction over the naturals, in the form the provers can apply: a set of
\* naturals that is not empty has a least element.
LEMMA LeastNatural ==
    ASSUME NEW T \in SUBSET Nat, T # {}
    PROVE  \E x \in T : \A y \in T : x <= y
  <1> DEFINE R == OpToRel(<, Nat)
  <1>1. IsWellFoundedOn(R, Nat)
    BY NatLessThanWellFounded
  <1>2. \A x, y \in Nat : y < x => <<y, x>> \in R
    BY DEF OpToRel
  <1> HIDE DEF R
  <1>3. PICK x \in T : \A y \in T : <<y, x>> \notin R
    BY <1>1, WFMin
  <1>4. ASSUME NEW y \in T PROVE x <= y
    <2>1. x \in Nat /\ y \in Nat
      OBVIOUS
    <2>2. ~(y < x)
      BY <1>2, <1>3, <2>1
    <2> QED
      BY <2>1, <2>2
  <1> QED
    BY <1>4

\* What holds of 0 and passes from one place to the next holds of all.
LEMMA Climb ==
    ASSUME NEW n \in Nat, NEW P, 0 \in P, \A i \in 1 .. n : i - 1 \in P => i \in P
    PROVE  \A i \in 0 .. n : i \in P
  <1> DEFINE T == {i \in 0 .. n : i \notin P}
  <1> SUFFICES ASSUME T # {} PROVE FALSE
    OBVIOUS
  <1>1. T \in SUBSET Nat
    OBVIOUS
  <1>2. PICK x \in T : \A y \in T : x <= y
    BY ONLY <1>1, T # {}, LeastNatural
  <1>3. x \in 0 .. n /\ x \notin P
    BY ONLY <1>2 DEF T
  <1>4. x # 0
    BY ONLY <1>3, 0 \in P
  <1>5. x \in 1 .. n /\ x - 1 \in 0 .. n /\ ~(x <= x - 1)
    BY ONLY <1>3, <1>4, n \in Nat
  <1>6. x - 1 \notin T
    BY ONLY <1>2, <1>5
  <1>7. x - 1 \in P
    BY ONLY <1>5, <1>6 DEF T
  <1> QED
    BY ONLY <1>3, <1>5, <1>7, \A i \in 1 .. n : i - 1 \in P => i \in P

\* The greatest place of a set of places that holds n and none after it.
LEMMA MaxIs ==
    ASSUME NEW n \in Nat, NEW s \in SUBSET (1 .. n), n \in s
    PROVE  Max(s) = n
  <1>1. \A y \in s : n >= y
    OBVIOUS
  <1>2. \A x \in s : (\A y \in s : x >= y) => x = n
    OBVIOUS
  <1> QED
    BY <1>1, <1>2 DEF Max

\* A set of places that is not empty has a greatest one.
LEMMA MaxIn ==
    ASSUME NEW n \in Nat, NEW s \in SUBSET (1 .. n), s # {}
    PROVE  Max(s) \in s
  <1> DEFINE T == {i \in Nat : \A y \in s : y <= i}
  <1>1. T \in SUBSET Nat /\ n \in T
    OBVIOUS
  <1>2. PICK x \in T : \A y \in T : x <= y
    BY ONLY <1>1, LeastNatural
  <1>3. x \in Nat /\ \A y \in s : y \in Nat /\ y >= 1 /\ y <= x
    BY <1>2
  <1>4. x \in s
    <2> SUFFICES ASSUME x \notin s PROVE FALSE
      OBVIOUS
    <2>1. x # 0
      <3>1. PICK y \in s : TRUE
        BY ONLY s # {}
      <3> QED
        BY ONLY <1>3, <3>1
    <2>2. x - 1 \in Nat /\ \A y \in s : y <= x - 1
      BY <1>3, <2>1
    <2>3. x - 1 \in T
      BY ONLY <2>2 DEF T
    <2> QED
      BY ONLY <1>2, <1>3, <2>3
  <1>5. \E z \in s : \A y \in s : z >= y
    BY <1>3, <1>4
  <1> QED
    BY ONLY <1>5 DEF Max

\* The places of a sequence up to one of them.
LEMMA UpTo ==
    ASSUME NEW l \in Nat, NEW n \in 1 .. l
    PROVE  /\ n \in Nat /\ 1 .. n \in SUBSET (1 .. l) /\ 1 .. n # {} /\ n \in 1 .. n
           /\ (1 .. n) \ {n} = 1 .. (n - 1)
           /\ n \in 0 .. l /\ n - 1 \in 0 .. l
  <1>1. n \in Nat /\ n \in 1 .. n /\ n \in 0 .. l /\ n - 1 \in 0 .. l
    OBVIOUS
  <1>2. 1 .. n \in SUBSET (1 .. l) /\ 1 .. n # {}
    <2>1. \A i \in 1 .. n : i \in 1 .. l
      OBVIOUS
    <2> QED
      BY ONLY <1>1, <2>1
  <1>3. (1 .. n) \ {n} = 1 .. (n - 1)
    BY <1>1
  <1> QED
    BY <1>1, <1>2, <1>3

\* The recursive function behind FoldLeft exists, for a step that stays in X.
Recurs(h, n, b, G) ==
    \A s \in SUBSET (1 .. n) : h[s] = IF s = {} THEN b ELSE G[<<h[s \ {Max(s)}], Max(s)>>]

Recursive(n, X, b, G) == \E h \in [SUBSET (1 .. n) -> X] : Recurs(h, n, b, G)

\* It exists for places 1 .. 0, and from the one for 1 .. (n - 1) for 1 .. n.
LEMMA FoldExists ==
    ASSUME NEW n \in Nat, NEW X, NEW b \in X, NEW G \in [X \X (1 .. n) -> X]
    PROVE  Recursive(n, X, b, G)
  <1> DEFINE P == {m \in 0 .. n : Recursive(m, X, b, G)}
  <1>1. 0 \in P
    <2> DEFINE h == [s \in SUBSET (1 .. 0) |-> b]
    <2>1. \A s \in SUBSET (1 .. 0) : s = {}
      OBVIOUS
    <2>2. h \in [SUBSET (1 .. 0) -> X] /\ Recurs(h, 0, b, G)
      BY <2>1 DEF Recurs
    <2>3. Recursive(0, X, b, G)
      BY <2>2 DEF Recursive
    <2> QED
      BY <2>3
  <1>2. ASSUME NEW m \in 1 .. n, m - 1 \in P PROVE m \in P
    <2>1. PICK h \in [SUBSET (1 .. (m - 1)) -> X] : Recurs(h, m - 1, b, G)
      BY <1>2 DEF Recursive
    <2>2. m \in Nat /\ m \in 0 .. n
      OBVIOUS
    <2> DEFINE k == [s \in SUBSET (1 .. m) |-> IF m \in s THEN G[<<h[s \ {m}], m>>] ELSE h[s]]
    <2>3. \A s \in SUBSET (1 .. m) : s \ {m} \in SUBSET (1 .. (m - 1)) /\ (m \notin s => s \ {m} = s)
      BY ONLY <2>2
    <2>4. k \in [SUBSET (1 .. m) -> X]
      <3>1. ASSUME NEW s \in SUBSET (1 .. m)
            PROVE  (IF m \in s THEN G[<<h[s \ {m}], m>>] ELSE h[s]) \in X
        BY ONLY <2>1, <2>3, m \in 1 .. n, G \in [X \X (1 .. n) -> X], s \in SUBSET (1 .. m)
      <3> QED
        BY <3>1
    <2>5. ASSUME NEW s \in SUBSET (1 .. m)
          PROVE  k[s] = IF s = {} THEN b ELSE G[<<k[s \ {Max(s)}], Max(s)>>]
      <3>1. CASE m \in s
        <4>1. Max(s) = m /\ s # {} /\ s \ {m} \in SUBSET (1 .. m) /\ m \notin s \ {m}
          BY <2>2, <3>1, MaxIs
        <4>2. k[s] = G[<<h[s \ {m}], m>>] /\ k[s \ {m}] = h[s \ {m}]
          BY <3>1, <4>1
        <4> HIDE DEF k
        <4> QED
          BY <4>1, <4>2
      <3>2. CASE m \notin s
        <4>1. s \in SUBSET (1 .. (m - 1))
          BY <2>3, <3>2
        <4>2. s \ {Max(s)} \in SUBSET (1 .. m) /\ m \notin s \ {Max(s)}
          BY <3>2
        <4>3. k[s] = h[s] /\ k[s \ {Max(s)}] = h[s \ {Max(s)}]
          BY <3>2, <4>2
        <4> HIDE DEF k
        <4> QED
          BY <2>1, <4>1, <4>3 DEF Recurs
      <3> QED
        BY <3>1, <3>2
    <2> HIDE DEF k
    <2>6. Recurs(k, m, b, G)
      BY <2>5 DEF Recurs
    <2>7. Recursive(m, X, b, G)
      BY ONLY <2>4, <2>6 DEF Recursive
    <2> QED
      BY <2>2, <2>7
  <1> HIDE DEF P
  <1>3. n \in P
    <2>1. n \in 0 .. n
      OBVIOUS
    <2> QED
      BY <1>1, <1>2, <2>1, Climb
  <1> QED
    BY ONLY <1>3 DEF P

\* The values such a function has on the places up to each place stay in X.
LEMMA StaysIn ==
    ASSUME NEW n \in Nat, NEW X, NEW f, f[{}] \in X,
           \A m \in 1 .. n : f[1 .. (m - 1)] \in X => f[1 .. m] \in X
    PROVE  \A m \in 0 .. n : f[1 .. m] \in X
  <1> DEFINE P == {m \in 0 .. n : f[1 .. m] \in X}
  <1>1. 0 \in P
    <2>1. 1 .. 0 = {}
      OBVIOUS
    <2> QED
      BY <2>1
  <1>2. \A m \in 1 .. n : m - 1 \in P => m \in P
    OBVIOUS
  <1> HIDE DEF P
  <1>3. \A m \in 0 .. n : m \in P
    BY <1>1, <1>2, Climb
  <1> QED
    BY <1>3 DEF P

\* The values of such a function on the places up to each place, one after the
\* other.
Follows(f, n, X, G) ==
    \A s \in SUBSET (1 .. n) :
       s # {} /\ f[s \ {Max(s)}] \in X => f[s] = G[<<f[s \ {Max(s)}], Max(s)>>]

Chained(n, X, b, G, v) ==
    \E g \in [0 .. n -> X] : /\ g[0] = b
                             /\ \A m \in 1 .. n : g[m] = G[<<g[m - 1], m>>]
                             /\ v = g[n]

\* A function that takes the steps of G goes through a chain of values of X.
LEMMA FoldChain ==
    ASSUME NEW n \in Nat, NEW X, NEW b \in X, NEW G \in [X \X (1 .. n) -> X],
           NEW f, f[{}] = b, Follows(f, n, X, G)
    PROVE  Chained(n, X, b, G, f[1 .. n])
  <1>1. ASSUME NEW m \in 1 .. n, f[1 .. (m - 1)] \in X
        PROVE  f[1 .. m] = G[<<f[1 .. (m - 1)], m>>] /\ f[1 .. m] \in X
    <2>1. /\ m \in Nat /\ 1 .. m \in SUBSET (1 .. n) /\ 1 .. m # {} /\ m \in 1 .. m
          /\ (1 .. m) \ {m} = 1 .. (m - 1)
      BY ONLY n \in Nat, m \in 1 .. n, UpTo
    <2>2. Max(1 .. m) = m
      BY ONLY <2>1, MaxIs
    <2>3. (1 .. m) \ {Max(1 .. m)} = 1 .. (m - 1)
      BY ONLY <2>1, <2>2
    <2>4. f[1 .. m] = G[<<f[1 .. (m - 1)], m>>]
      <3>1. f[1 .. m] = G[<<f[(1 .. m) \ {Max(1 .. m)}], Max(1 .. m)>>]
        BY <1>1, <2>1, <2>3 DEF Follows
      <3> QED
        BY ONLY <2>2, <2>3, <3>1
    <2> QED
      BY ONLY <1>1, <2>4, m \in 1 .. n, G \in [X \X (1 .. n) -> X]
  <1>2. \A m \in 0 .. n : f[1 .. m] \in X
    BY <1>1, StaysIn
  <1> DEFINE g == [m \in 0 .. n |-> f[1 .. m]]
  <1>3. g \in [0 .. n -> X]
    BY ONLY <1>2
  <1>4. g[0] = b
    <2>1. 1 .. 0 = {} /\ 0 \in 0 .. n
      BY ONLY n \in Nat
    <2> QED
      BY ONLY f[{}] = b, <2>1
  <1>5. \A m \in 1 .. n : g[m] = G[<<g[m - 1], m>>]
    <2>1. \A m \in 1 .. n : m \in 0 .. n /\ m - 1 \in 0 .. n
      BY ONLY n \in Nat
    <2> QED
      BY ONLY <1>1, <1>2, <2>1
  <1>6. f[1 .. n] = g[n]
    <2>1. n \in 0 .. n
      BY ONLY n \in Nat
    <2> QED
      BY ONLY <2>1
  <1> HIDE DEF g
  <1> QED
    BY ONLY <1>3, <1>4, <1>5, <1>6 DEF Chained

\* The symbols of a line, one after the other (commands.py, split_command_line).
LEMMA ScanFold ==
    ASSUME NEW X, NEW b \in X, NEW n \in Nat, NEW w, DOMAIN w = 1 .. n,
           \A x \in X : \A m \in 1 .. n : Scan(x, w[m]) \in X
    PROVE  ScanAll(b, w) \in X
  <1> DEFINE Op(x, y) == Scan(x, y)
             G == [p \in X \X (1 .. n) |-> Op(p[1], w[p[2]])]
             Body(h, s) == IF s = {} THEN b ELSE Op(h[s \ {Max(s)}], w[Max(s)])
             iter == CHOOSE f : f = [s \in SUBSET (DOMAIN w) |-> Body(f, s)]
  <1>1. \A x \in X : \A m \in 1 .. n : Op(x, w[m]) \in X
    OBVIOUS
  <1>2. ScanAll(b, w) = iter[DOMAIN w]
    BY DEF FoldLeft, MapThenFoldSet, ScanAll
  <1> HIDE DEF Op
  <1>3. G \in [X \X (1 .. n) -> X] /\ \A x \in X : \A m \in 1 .. n : G[<<x, m>>] = Op(x, w[m])
    BY ONLY <1>1
  <1> HIDE DEF G
  <1>4. \E h : h = [s \in SUBSET (1 .. n) |-> Body(h, s)]
    <2>1. PICK h \in [SUBSET (1 .. n) -> X] : Recurs(h, n, b, G)
      BY ONLY <1>3, b \in X, n \in Nat, FoldExists DEF Recursive
    <2>2. ASSUME NEW s \in SUBSET (1 .. n) PROVE h[s] = Body(h, s)
      <3>1. s # {} => Max(s) \in 1 .. n /\ h[s \ {Max(s)}] \in X
        BY ONLY <2>1, n \in Nat, s \in SUBSET (1 .. n), MaxIn
      <3>2. h[s] = IF s = {} THEN b ELSE G[<<h[s \ {Max(s)}], Max(s)>>]
        BY ONLY <2>1, s \in SUBSET (1 .. n) DEF Recurs
      <3> QED
        BY ONLY <1>3, <3>1, <3>2
    <2>3. h = [s \in SUBSET (1 .. n) |-> Body(h, s)]
      BY ONLY <2>1, <2>2
    <2> QED
      BY ONLY <2>3
  <1>5. iter = [s \in SUBSET (1 .. n) |-> Body(iter, s)]
    BY ONLY <1>4, DOMAIN w = 1 .. n
  <1>6. \A s \in SUBSET (1 .. n) : iter[s] = Body(iter, s)
    BY ONLY <1>5
  <1> HIDE DEF iter
  <1>7. iter[{}] = b
    BY ONLY <1>6
  <1>8. ASSUME NEW s \in SUBSET (1 .. n), s # {}, iter[s \ {Max(s)}] \in X
        PROVE  iter[s] = G[<<iter[s \ {Max(s)}], Max(s)>>]
    <2>1. Max(s) \in 1 .. n
      BY ONLY n \in Nat, s \in SUBSET (1 .. n), s # {}, MaxIn
    <2>2. iter[s] = Op(iter[s \ {Max(s)}], w[Max(s)])
      BY ONLY <1>6, s \in SUBSET (1 .. n), s # {}
    <2> QED
      BY ONLY <1>3, <1>8, <2>1, <2>2
  <1>9. PICK g \in [0 .. n -> X] : /\ g[0] = b
                                   /\ \A m \in 1 .. n : g[m] = G[<<g[m - 1], m>>]
                                   /\ iter[1 .. n] = g[n]
    <2>1. Follows(iter, n, X, G)
      BY ONLY <1>8 DEF Follows
    <2>2. Chained(n, X, b, G, iter[1 .. n])
      BY ONLY <1>3, <1>7, <2>1, b \in X, n \in Nat, FoldChain
    <2> QED
      BY ONLY <2>2 DEF Chained
  <1>10. n \in 0 .. n
    BY ONLY n \in Nat
  <1> QED
    BY ONLY <1>2, <1>9, <1>10, DOMAIN w = 1 .. n

\* The parts of a path (filesystem.py, resolve).
LEMMA StepFold ==
    ASSUME NEW X, NEW b \in X, NEW n \in Nat, NEW w, DOMAIN w = 1 .. n,
           \A x \in X : \A m \in 1 .. n : Step(x, w[m]) \in X
    PROVE  StepAll(b, w) \in X
  <1> DEFINE Op(x, y) == Step(x, y)
             G == [p \in X \X (1 .. n) |-> Op(p[1], w[p[2]])]
             Body(h, s) == IF s = {} THEN b ELSE Op(h[s \ {Max(s)}], w[Max(s)])
             iter == CHOOSE f : f = [s \in SUBSET (DOMAIN w) |-> Body(f, s)]
  <1>1. \A x \in X : \A m \in 1 .. n : Op(x, w[m]) \in X
    OBVIOUS
  <1>2. StepAll(b, w) = iter[DOMAIN w]
    BY DEF FoldLeft, MapThenFoldSet, StepAll
  <1> HIDE DEF Op
  <1>3. G \in [X \X (1 .. n) -> X] /\ \A x \in X : \A m \in 1 .. n : G[<<x, m>>] = Op(x, w[m])
    BY ONLY <1>1
  <1> HIDE DEF G
  <1>4. \E h : h = [s \in SUBSET (1 .. n) |-> Body(h, s)]
    <2>1. PICK h \in [SUBSET (1 .. n) -> X] : Recurs(h, n, b, G)
      BY ONLY <1>3, b \in X, n \in Nat, FoldExists DEF Recursive
    <2>2. ASSUME NEW s \in SUBSET (1 .. n) PROVE h[s] = Body(h, s)
      <3>1. s # {} => Max(s) \in 1 .. n /\ h[s \ {Max(s)}] \in X
        BY ONLY <2>1, n \in Nat, s \in SUBSET (1 .. n), MaxIn
      <3>2. h[s] = IF s = {} THEN b ELSE G[<<h[s \ {Max(s)}], Max(s)>>]
        BY ONLY <2>1, s \in SUBSET (1 .. n) DEF Recurs
      <3> QED
        BY ONLY <1>3, <3>1, <3>2
    <2>3. h = [s \in SUBSET (1 .. n) |-> Body(h, s)]
      BY ONLY <2>1, <2>2
    <2> QED
      BY ONLY <2>3
  <1>5. iter = [s \in SUBSET (1 .. n) |-> Body(iter, s)]
    BY ONLY <1>4, DOMAIN w = 1 .. n
  <1>6. \A s \in SUBSET (1 .. n) : iter[s] = Body(iter, s)
    BY ONLY <1>5
  <1> HIDE DEF iter
  <1>7. iter[{}] = b
    BY ONLY <1>6
  <1>8. ASSUME NEW s \in SUBSET (1 .. n), s # {}, iter[s \ {Max(s)}] \in X
        PROVE  iter[s] = G[<<iter[s \ {Max(s)}], Max(s)>>]
    <2>1. Max(s) \in 1 .. n
      BY ONLY n \in Nat, s \in SUBSET (1 .. n), s # {}, MaxIn
    <2>2. iter[s] = Op(iter[s \ {Max(s)}], w[Max(s)])
      BY ONLY <1>6, s \in SUBSET (1 .. n), s # {}
    <2> QED
      BY ONLY <1>3, <1>8, <2>1, <2>2
  <1>9. PICK g \in [0 .. n -> X] : /\ g[0] = b
                                   /\ \A m \in 1 .. n : g[m] = G[<<g[m - 1], m>>]
                                   /\ iter[1 .. n] = g[n]
    <2>1. Follows(iter, n, X, G)
      BY ONLY <1>8 DEF Follows
    <2>2. Chained(n, X, b, G, iter[1 .. n])
      BY ONLY <1>3, <1>7, <2>1, b \in X, n \in Nat, FoldChain
    <2> QED
      BY ONLY <2>2 DEF Chained
  <1>10. n \in 0 .. n
    BY ONLY n \in Nat
  <1> QED
    BY ONLY <1>2, <1>9, <1>10, DOMAIN w = 1 .. n

\* The names of a resolved path (filesystem.py, _lookup).
LEMMA EnterFold ==
    ASSUME NEW t, NEW X, NEW b \in X, NEW n \in Nat, NEW w, DOMAIN w = 1 .. n,
           \A x \in X : \A m \in 1 .. n : Enter(t, x, w[m]) \in X
    PROVE  EnterChain(t, b, w, n, X)
  <1> DEFINE Op(x, y) == Enter(t, x, y)
             G == [p \in X \X (1 .. n) |-> Op(p[1], w[p[2]])]
             Body(h, s) == IF s = {} THEN b ELSE Op(h[s \ {Max(s)}], w[Max(s)])
             iter == CHOOSE f : f = [s \in SUBSET (DOMAIN w) |-> Body(f, s)]
  <1>1. \A x \in X : \A m \in 1 .. n : Op(x, w[m]) \in X
    OBVIOUS
  <1>2. EnterAll(t, b, w) = iter[DOMAIN w]
    BY DEF FoldLeft, MapThenFoldSet, EnterAll
  <1> HIDE DEF Op
  <1>3. G \in [X \X (1 .. n) -> X] /\ \A x \in X : \A m \in 1 .. n : G[<<x, m>>] = Op(x, w[m])
    BY ONLY <1>1
  <1> HIDE DEF G
  <1>4. \E h : h = [s \in SUBSET (1 .. n) |-> Body(h, s)]
    <2>1. PICK h \in [SUBSET (1 .. n) -> X] : Recurs(h, n, b, G)
      BY ONLY <1>3, b \in X, n \in Nat, FoldExists DEF Recursive
    <2>2. ASSUME NEW s \in SUBSET (1 .. n) PROVE h[s] = Body(h, s)
      <3>1. s # {} => Max(s) \in 1 .. n /\ h[s \ {Max(s)}] \in X
        BY ONLY <2>1, n \in Nat, s \in SUBSET (1 .. n), MaxIn
      <3>2. h[s] = IF s = {} THEN b ELSE G[<<h[s \ {Max(s)}], Max(s)>>]
        BY ONLY <2>1, s \in SUBSET (1 .. n) DEF Recurs
      <3> QED
        BY ONLY <1>3, <3>1, <3>2
    <2>3. h = [s \in SUBSET (1 .. n) |-> Body(h, s)]
      BY ONLY <2>1, <2>2
    <2> QED
      BY ONLY <2>3
  <1>5. iter = [s \in SUBSET (1 .. n) |-> Body(iter, s)]
    BY ONLY <1>4, DOMAIN w = 1 .. n
  <1>6. \A s \in SUBSET (1 .. n) : iter[s] = Body(iter, s)
    BY ONLY <1>5
  <1> HIDE DEF iter
  <1>7. iter[{}] = b
    BY ONLY <1>6
  <1>8. ASSUME NEW s \in SUBSET (1 .. n), s # {}, iter[s \ {Max(s)}] \in X
        PROVE  iter[s] = G[<<iter[s \ {Max(s)}], Max(s)>>]
    <2>1. Max(s) \in 1 .. n
      BY ONLY n \in Nat, s \in SUBSET (1 .. n), s # {}, MaxIn
    <2>2. iter[s] = Op(iter[s \ {Max(s)}], w[Max(s)])
      BY ONLY <1>6, s \in SUBSET (1 .. n), s # {}
    <2> QED
      BY ONLY <1>3, <1>8, <2>1, <2>2
  <1>9. PICK g \in [0 .. n -> X] : /\ g[0] = b
                                   /\ \A m \in 1 .. n : g[m] = G[<<g[m - 1], m>>]
                                   /\ iter[1 .. n] = g[n]
    <2>1. Follows(iter, n, X, G)
      BY ONLY <1>8 DEF Follows
    <2>2. Chained(n, X, b, G, iter[1 .. n])
      BY ONLY <1>3, <1>7, <2>1, b \in X, n \in Nat, FoldChain
    <2> QED
      BY ONLY <2>2 DEF Chained
  <1>10. \A m \in 1 .. n : g[m] = Op(g[m - 1], w[m])
    <2>1. \A m \in 1 .. n : m - 1 \in 0 .. n
      BY ONLY n \in Nat
    <2> QED
      BY ONLY <1>3, <1>9, <2>1
  <1> QED
    BY <1>2, <1>9, <1>10 DEF Op, EnterChain

\* The operands of mkdir (commands.py).
LEMMA MakeDirFold ==
    ASSUME NEW X, NEW b \in X, NEW n \in Nat, NEW w, DOMAIN w = 1 .. n,
           \A x \in X : \A m \in 1 .. n : MakeDir(x, w[m]) \in X
    PROVE  MakeDirs(b, w) \in X
  <1> DEFINE Op(x, y) == MakeDir(x, y)
             G == [p \in X \X (1 .. n) |-> Op(p[1], w[p[2]])]
             Body(h, s) == IF s = {} THEN b ELSE Op(h[s \ {Max(s)}], w[Max(s)])
             iter == CHOOSE f : f = [s \in SUBSET (DOMAIN w) |-> Body(f, s)]
  <1>1. \A x \in X : \A m \in 1 .. n : Op(x, w[m]) \in X
    OBVIOUS
  <1>2. MakeDirs(b, w) = iter[DOMAIN w]
    BY DEF FoldLeft, MapThenFoldSet, MakeDirs
  <1> HIDE DEF Op
  <1>3. G \in [X \X (1 .. n) -> X] /\ \A x \in X : \A m \in 1 .. n : G[<<x, m>>] = Op(x, w[m])
    BY ONLY <1>1
  <1> HIDE DEF G
  <1>4. \E h : h = [s \in SUBSET (1 .. n) |-> Body(h, s)]
    <2>1. PICK h \in [SUBSET (1 .. n) -> X] : Recurs(h, n, b, G)
      BY ONLY <1>3, b \in X, n \in Nat, FoldExists DEF Recursive
    <2>2. ASSUME NEW s \in SUBSET (1 .. n) PROVE h[s] = Body(h, s)
      <3>1. s # {} => Max(s) \in 1 .. n /\ h[s \ {Max(s)}] \in X
        BY ONLY <2>1, n \in Nat, s \in SUBSET (1 .. n), MaxIn
      <3>2. h[s] = IF s = {} THEN b ELSE G[<<h[s \ {Max(s)}], Max(s)>>]
        BY ONLY <2>1, s \in SUBSET (1 .. n) DEF Recurs
      <3> QED
        BY ONLY <1>3, <3>1, <3>2
    <2>3. h = [s \in SUBSET (1 .. n) |-> Body(h, s)]
      BY ONLY <2>1, <2>2
    <2> QED
      BY ONLY <2>3
  <1>5. iter = [s \in SUBSET (1 .. n) |-> Body(iter, s)]
    BY ONLY <1>4, DOMAIN w = 1 .. n
  <1>6. \A s \in SUBSET (1 .. n) : iter[s] = Body(iter, s)
    BY ONLY <1>5
  <1> HIDE DEF iter
  <1>7. iter[{}] = b
    BY ONLY <1>6
  <1>8. ASSUME NEW s \in SUBSET (1 .. n), s # {}, iter[s \ {Max(s)}] \in X
        PROVE  iter[s] = G[<<iter[s \ {Max(s)}], Max(s)>>]
    <2>1. Max(s) \in 1 .. n
      BY ONLY n \in Nat, s \in SUBSET (1 .. n), s # {}, MaxIn
    <2>2. iter[s] = Op(iter[s \ {Max(s)}], w[Max(s)])
      BY ONLY <1>6, s \in SUBSET (1 .. n), s # {}
    <2> QED
      BY ONLY <1>3, <1>8, <2>1, <2>2
  <1>9. PICK g \in [0 .. n -> X] : /\ g[0] = b
                                   /\ \A m \in 1 .. n : g[m] = G[<<g[m - 1], m>>]
                                   /\ iter[1 .. n] = g[n]
    <2>1. Follows(iter, n, X, G)
      BY ONLY <1>8 DEF Follows
    <2>2. Chained(n, X, b, G, iter[1 .. n])
      BY ONLY <1>3, <1>7, <2>1, b \in X, n \in Nat, FoldChain
    <2> QED
      BY ONLY <2>2 DEF Chained
  <1>10. n \in 0 .. n
    BY ONLY n \in Nat
  <1> QED
    BY ONLY <1>2, <1>9, <1>10, DOMAIN w = 1 .. n

\* The operands of touch (commands.py).
LEMMA TouchFold ==
    ASSUME NEW X, NEW b \in X, NEW n \in Nat, NEW w, DOMAIN w = 1 .. n,
           \A x \in X : \A m \in 1 .. n : TouchOne(x, w[m]) \in X
    PROVE  TouchAll(b, w) \in X
  <1> DEFINE Op(x, y) == TouchOne(x, y)
             G == [p \in X \X (1 .. n) |-> Op(p[1], w[p[2]])]
             Body(h, s) == IF s = {} THEN b ELSE Op(h[s \ {Max(s)}], w[Max(s)])
             iter == CHOOSE f : f = [s \in SUBSET (DOMAIN w) |-> Body(f, s)]
  <1>1. \A x \in X : \A m \in 1 .. n : Op(x, w[m]) \in X
    OBVIOUS
  <1>2. TouchAll(b, w) = iter[DOMAIN w]
    BY DEF FoldLeft, MapThenFoldSet, TouchAll, TouchOne
  <1> HIDE DEF Op
  <1>3. G \in [X \X (1 .. n) -> X] /\ \A x \in X : \A m \in 1 .. n : G[<<x, m>>] = Op(x, w[m])
    BY ONLY <1>1
  <1> HIDE DEF G
  <1>4. \E h : h = [s \in SUBSET (1 .. n) |-> Body(h, s)]
    <2>1. PICK h \in [SUBSET (1 .. n) -> X] : Recurs(h, n, b, G)
      BY ONLY <1>3, b \in X, n \in Nat, FoldExists DEF Recursive
    <2>2. ASSUME NEW s \in SUBSET (1 .. n) PROVE h[s] = Body(h, s)
      <3>1. s # {} => Max(s) \in 1 .. n /\ h[s \ {Max(s)}] \in X
        BY ONLY <2>1, n \in Nat, s \in SUBSET (1 .. n), MaxIn
      <3>2. h[s] = IF s = {} THEN b ELSE G[<<h[s \ {Max(s)}], Max(s)>>]
        BY ONLY <2>1, s \in SUBSET (1 .. n) DEF Recurs
      <3> QED
        BY ONLY <1>3, <3>1, <3>2
    <2>3. h = [s \in SUBSET (1 .. n) |-> Body(h, s)]
      BY ONLY <2>1, <2>2
    <2> QED
      BY ONLY <2>3
  <1>5. iter = [s \in SUBSET (1 .. n) |-> Body(iter, s)]
    BY ONLY <1>4, DOMAIN w = 1 .. n
  <1>6. \A s \in SUBSET (1 .. n) : iter[s] = Body(iter, s)
    BY ONLY <1>5
  <1> HIDE DEF iter
  <1>7. iter[{}] = b
    BY ONLY <1>6
  <1>8. ASSUME NEW s \in SUBSET (1 .. n), s # {}, iter[s \ {Max(s)}] \in X
        PROVE  iter[s] = G[<<iter[s \ {Max(s)}], Max(s)>>]
    <2>1. Max(s) \in 1 .. n
      BY ONLY n \in Nat, s \in SUBSET (1 .. n), s # {}, MaxIn
    <2>2. iter[s] = Op(iter[s \ {Max(s)}], w[Max(s)])
      BY ONLY <1>6, s \in SUBSET (1 .. n), s # {}
    <2> QED
      BY ONLY <1>3, <1>8, <2>1, <2>2
  <1>9. PICK g \in [0 .. n -> X] : /\ g[0] = b
                                   /\ \A m \in 1 .. n : g[m] = G[<<g[m - 1], m>>]
                                   /\ iter[1 .. n] = g[n]
    <2>1. Follows(iter, n, X, G)
      BY ONLY <1>8 DEF Follows
    <2>2. Chained(n, X, b, G, iter[1 .. n])
      BY ONLY <1>3, <1>7, <2>1, b \in X, n \in Nat, FoldChain
    <2> QED
      BY ONLY <2>2 DEF Chained
  <1>10. n \in 0 .. n
    BY ONLY n \in Nat
  <1> QED
    BY ONLY <1>2, <1>9, <1>10, DOMAIN w = 1 .. n

\* The operands of rm (commands.py).
LEMMA RemoveFold ==
    ASSUME NEW X, NEW b \in X, NEW n \in Nat, NEW w, DOMAIN w = 1 .. n,
           \A x \in X : \A m \in 1 .. n : RemoveEntry(x, w[m]) \in X
    PROVE  RemoveAll(b, w) \in X
  <1> DEFINE Op(x, y) == RemoveEntry(x, y)
             G == [p \in X \X (1 .. n) |-> Op(p[1], w[p[2]])]
             Body(h, s) == IF s = {} THEN b ELSE Op(h[s \ {Max(s)}], w[Max(s)])
             iter == CHOOSE f : f = [s \in SUBSET (DOMAIN w) |-> Body(f, s)]
  <1>1. \A x \in X : \A m \in 1 .. n : Op(x, w[m]) \in X
    OBVIOUS
  <1>2. RemoveAll(b, w) = iter[DOMAIN w]
    BY DEF FoldLeft, MapThenFoldSet, RemoveAll
  <1> HIDE DEF Op
  <1>3. G \in [X \X (1 .. n) -> X] /\ \A x \in X : \A m \in 1 .. n : G[<<x, m>>] = Op(x, w[m])
    BY ONLY <1>1
  <1> HIDE DEF G
  <1>4. \E h : h = [s \in SUBSET (1 .. n) |-> Body(h, s)]
    <2>1. PICK h \in [SUBSET (1 .. n) -> X] : Recurs(h, n, b, G)
      BY ONLY <1>3, b \in X, n \in Nat, FoldExists DEF Recursive
    <2>2. ASSUME NEW s \in SUBSET (1 .. n) PROVE h[s] = Body(h, s)
      <3>1. s # {} => Max(s) \in 1 .. n /\ h[s \ {Max(s)}] \in X
        BY ONLY <2>1, n \in Nat, s \in SUBSET (1 .. n), MaxIn
      <3>2. h[s] = IF s = {} THEN b ELSE G[<<h[s \ {Max(s)}], Max(s)>>]
        BY ONLY <2>1, s \in SUBSET (1 .. n) DEF Recurs
      <3> QED
        BY ONLY <1>3, <3>1, <3>2
    <2>3. h = [s \in SUBSET (1 .. n) |-> Body(h, s)]
      BY ONLY <2>1, <2>2
    <2> QED
      BY ONLY <2>3
  <1>5. iter = [s \in SUBSET (1 .. n) |-> Body(iter, s)]
    BY ONLY <1>4, DOMAIN w = 1 .. n
  <1>6. \A s \in SUBSET (1 .. n) : iter[s] = Body(iter, s)
    BY ONLY <1>5
  <1> HIDE DEF iter
  <1>7. iter[{}] = b
    BY ONLY <1>6
  <1>8. ASSUME NEW s \in SUBSET (1 .. n), s # {}, iter[s \ {Max(s)}] \in X
        PROVE  iter[s] = G[<<iter[s \ {Max(s)}], Max(s)>>]
    <2>1. Max(s) \in 1 .. n
      BY ONLY n \in Nat, s \in SUBSET (1 .. n), s # {}, MaxIn
    <2>2. iter[s] = Op(iter[s \ {Max(s)}], w[Max(s)])
      BY ONLY <1>6, s \in SUBSET (1 .. n), s # {}
    <2> QED
      BY ONLY <1>3, <1>8, <2>1, <2>2
  <1>9. PICK g \in [0 .. n -> X] : /\ g[0] = b
                                   /\ \A m \in 1 .. n : g[m] = G[<<g[m - 1], m>>]
                                   /\ iter[1 .. n] = g[n]
    <2>1. Follows(iter, n, X, G)
      BY ONLY <1>8 DEF Follows
    <2>2. Chained(n, X, b, G, iter[1 .. n])
      BY ONLY <1>3, <1>7, <2>1, b \in X, n \in Nat, FoldChain
    <2> QED
      BY ONLY <2>2 DEF Chained
  <1>10. n \in 0 .. n
    BY ONLY n \in Nat
  <1> QED
    BY ONLY <1>2, <1>9, <1>10, DOMAIN w = 1 .. n

-----------------------------------------------------------------------------
(* What an object reaches (filesystem.py).                                  *)

\* A chain of steps exists.
LEMMA ChainExists ==
    ASSUME NEW n \in Nat, NEW X, NEW b \in X, NEW G \in [X \X (1 .. n) -> X]
    PROVE  \E v : Chained(n, X, b, G, v)
  <1>1. PICK h \in [SUBSET (1 .. n) -> X] : Recurs(h, n, b, G)
    BY FoldExists DEF Recursive
  <1>2. h[{}] = b /\ Follows(h, n, X, G)
    BY ONLY <1>1 DEF Recurs, Follows
  <1>3. Chained(n, X, b, G, h[1 .. n])
    BY ONLY <1>2, n \in Nat, b \in X, G \in [X \X (1 .. n) -> X], FoldChain
  <1> QED
    BY ONLY <1>3

\* A set of objects and what their entries hold.
Wider(t, S) == S \cup UNION {Children(t, e) : e \in S}
Closed(t, S) == \A e \in S : Children(t, e) \subseteq S

\* The children of an object are what its entries hold.
LEMMA ChildIs ==
    ASSUME NEW t \in Tree, NEW d \in Nodes
    PROVE  /\ Children(t, d) \in SUBSET Nodes
           /\ \A e : e \in Children(t, d) <=> e # None /\ \E n \in Names : t.entries[d][n] = e
  <1>1. t.entries \in [Nodes -> [Names -> Nodes \cup {None}]]
    BY DEF Tree
  <1>2. \A n \in Names : t.entries[d][n] \in Nodes \cup {None}
    BY ONLY <1>1, d \in Nodes
  <1> QED
    BY ONLY <1>2 DEF Children

\* Widening stays among the nodes, and stops at a set that is closed.
LEMMA WiderIn ==
    ASSUME NEW t \in Tree, NEW S \in SUBSET Nodes
    PROVE  /\ Wider(t, S) \in SUBSET Nodes /\ S \subseteq Wider(t, S)
           /\ Closed(t, S) => Wider(t, S) = S
           /\ Wider(t, S) = S => Closed(t, S)
           /\ \A T \in SUBSET Nodes : S \subseteq T /\ Closed(t, T) => Wider(t, S) \subseteq T
  <1>1. \A e \in S : Children(t, e) \in SUBSET Nodes
    BY ChildIs
  <1> QED
    BY ONLY <1>1, S \in SUBSET Nodes DEF Wider, Closed

\* The sets that grow from an object to all it reaches.
LEMMA ReachSteps ==
    ASSUME NEW t \in Tree, NEW d \in Nodes
    PROVE  \E g \in [0 .. MaxNodes -> SUBSET Nodes] :
              /\ g[0] = {d}
              /\ \A k \in 1 .. MaxNodes : g[k] = Wider(t, g[k - 1])
              /\ Reach(t, d) = g[MaxNodes]
  <1> DEFINE n == MaxNodes
             X == SUBSET Nodes
             G == [p \in X \X (1 .. n) |-> Wider(t, p[1])]
             Body(f, k) == IF k = 0 THEN {d}
                           ELSE LET near == f[k - 1] IN near \cup UNION {Children(t, e) : e \in near}
             R == CHOOSE f : f = [k \in 0 .. MaxNodes |-> Body(f, k)]
  <1>1. n \in Nat /\ {d} \in X
    BY NodesAssumption
  <1>2. G \in [X \X (1 .. n) -> X] /\ \A x \in X : \A m \in 1 .. n : G[<<x, m>>] = Wider(t, x)
    BY WiderIn
  <1> HIDE DEF G
  <1>3. PICK g \in [0 .. n -> X] : g[0] = {d} /\ \A m \in 1 .. n : g[m] = G[<<g[m - 1], m>>]
    <2>1. \E v : Chained(n, X, {d}, G, v)
      BY ONLY <1>1, <1>2, ChainExists
    <2> QED
      BY ONLY <2>1 DEF Chained
  <1>4. \A m \in 1 .. n : m - 1 \in 0 .. n /\ m \in 0 .. n /\ m # 0
    BY ONLY <1>1
  <1>5. \A m \in 1 .. n : g[m] = Wider(t, g[m - 1])
    BY ONLY <1>2, <1>3, <1>4
  <1>6. \A k \in 0 .. n : g[k] = Body(g, k)
    <2>1. \A k \in 0 .. n : k = 0 \/ k \in 1 .. n
      BY ONLY <1>1
    <2> QED
      BY ONLY <1>3, <1>5, <2>1 DEF Wider
  <1>7. g = [k \in 0 .. n |-> Body(g, k)]
    BY ONLY <1>3, <1>6
  <1>8. R = [k \in 0 .. n |-> Body(R, k)]
    BY ONLY <1>7
  <1>9. Reach(t, d) = R[n]
    BY ONLY DEF Reach
  <1> HIDE DEF R
  <1>10. 0 \in 0 .. n /\ n \in 0 .. n
    BY ONLY <1>1
  <1>11. R[0] = {d}
    BY ONLY <1>8, <1>10
  <1>12. \A k \in 1 .. n : R[k] = Wider(t, R[k - 1])
    BY ONLY <1>4, <1>8 DEF Wider
  <1> DEFINE P == {k \in 0 .. n : R[k] \in X}
  <1>13. \A k \in 0 .. n : k \in P
    <2>1. 0 \in P
      BY ONLY <1>1, <1>10, <1>11
    <2>2. \A k \in 1 .. n : k - 1 \in P => k \in P
      BY <1>4, <1>12, WiderIn
    <2> HIDE DEF P
    <2> QED
      BY ONLY <1>1, <2>1, <2>2, Climb
  <1>14. R \in [0 .. n -> X]
    <2>1. R = [k \in 0 .. n |-> R[k]]
      BY ONLY <1>8
    <2> QED
      BY ONLY <1>13, <2>1
  <1> QED
    BY ONLY <1>9, <1>11, <1>12, <1>14

\* An object reaches itself, what any object it reaches holds, and no more.
ReachSpec(t, d, S) ==
    /\ S \in SUBSET Nodes /\ d \in S /\ Closed(t, S)
    /\ \A T \in SUBSET Nodes : d \in T /\ Closed(t, T) => S \subseteq T

\* MaxNodes steps are enough: what Reach gives is closed, and within every closed
\* set that holds the object.
LEMMA ReachIs ==
    ASSUME NEW t \in Tree, NEW d \in Nodes
    PROVE  ReachSpec(t, d, Reach(t, d))
  <1>1. PICK g \in [0 .. MaxNodes -> SUBSET Nodes] :
           /\ g[0] = {d}
           /\ \A k \in 1 .. MaxNodes : g[k] = Wider(t, g[k - 1])
           /\ Reach(t, d) = g[MaxNodes]
    BY ReachSteps
  <1>2. MaxNodes \in Nat
    BY NodesAssumption
  <1>3. /\ \A k \in 1 .. MaxNodes : k \in 0 .. MaxNodes /\ k - 1 \in 0 .. MaxNodes
        /\ 0 \in 0 .. MaxNodes /\ MaxNodes \in 0 .. MaxNodes
    BY ONLY <1>2
  <1>4. \A k \in 1 .. MaxNodes : /\ g[k - 1] \subseteq g[k]
                                 /\ Closed(t, g[k - 1]) => Closed(t, g[k])
                                 /\ g[k] = g[k - 1] => Closed(t, g[k])
    <2> SUFFICES ASSUME NEW k \in 1 .. MaxNodes
                 PROVE  /\ g[k - 1] \subseteq g[k]
                        /\ Closed(t, g[k - 1]) => Closed(t, g[k])
                        /\ g[k] = g[k - 1] => Closed(t, g[k])
      OBVIOUS
    <2>1. g[k - 1] \in SUBSET Nodes /\ g[k] = Wider(t, g[k - 1])
      BY ONLY <1>1, <1>3, k \in 1 .. MaxNodes
    <2>2. /\ g[k - 1] \subseteq g[k]
          /\ Closed(t, g[k - 1]) => g[k] = g[k - 1]
          /\ g[k] = g[k - 1] => Closed(t, g[k - 1])
      BY ONLY <2>1, t \in Tree, WiderIn
    <2> QED
      BY ONLY <2>2
  <1>5. IsFiniteSet(Nodes) /\ Cardinality(Nodes) = MaxNodes
    <2>1. IsFiniteSet(1 .. MaxNodes) /\ Cardinality(1 .. MaxNodes) = MaxNodes
      <3>1. 1 \in Int /\ MaxNodes \in Int /\ ~(1 > MaxNodes) /\ MaxNodes - 1 + 1 = MaxNodes
        BY ONLY NodesAssumption
      <3> QED
        BY ONLY <3>1, FS_Interval
    <2> QED
      BY ONLY <2>1 DEF Nodes
  <1>6. \A k \in 0 .. MaxNodes : /\ IsFiniteSet(g[k]) /\ Cardinality(g[k]) \in Nat
                                 /\ Cardinality(g[k]) <= MaxNodes
    <2>1. \A k \in 0 .. MaxNodes : g[k] \in SUBSET Nodes
      BY ONLY <1>1
    <2> QED
      BY ONLY <1>5, <2>1, FS_Subset, FS_CardinalityType
  <1> DEFINE P == {k \in 0 .. MaxNodes : d \in g[k] /\ (Cardinality(g[k]) >= k + 1 \/ Closed(t, g[k]))}
  <1>7. 0 \in P
    <2>1. Cardinality(g[0]) = 1
      BY ONLY <1>1, FS_Singleton
    <2>2. d \in g[0]
      BY ONLY <1>1
    <2> QED
      BY ONLY <1>3, <2>1, <2>2
  <1>8. ASSUME NEW k \in 1 .. MaxNodes, k - 1 \in P PROVE k \in P
    <2>1. d \in g[k - 1] /\ (Cardinality(g[k - 1]) >= k - 1 + 1 \/ Closed(t, g[k - 1]))
      BY ONLY <1>8
    <2>2. d \in g[k]
      BY ONLY <1>4, <2>1, k \in 1 .. MaxNodes
    <2>3. CASE Closed(t, g[k - 1]) \/ g[k] = g[k - 1]
      BY ONLY <1>3, <1>4, <2>2, <2>3, k \in 1 .. MaxNodes
    <2>4. CASE ~Closed(t, g[k - 1]) /\ g[k] # g[k - 1]
      <3>1. g[k - 1] \in SUBSET g[k]
        BY ONLY <1>4, k \in 1 .. MaxNodes
      <3>2. Cardinality(g[k - 1]) <= Cardinality(g[k]) /\ Cardinality(g[k]) # Cardinality(g[k - 1])
        BY ONLY <1>3, <1>6, <2>4, <3>1, k \in 1 .. MaxNodes, FS_Subset
      <3>3. Cardinality(g[k - 1]) >= k - 1 + 1
        BY ONLY <2>1, <2>4
      <3>4. Cardinality(g[k - 1]) \in Nat /\ Cardinality(g[k]) \in Nat
        BY ONLY <1>3, <1>6, k \in 1 .. MaxNodes
      <3>5. Cardinality(g[k]) >= k + 1
        BY ONLY <3>2, <3>3, <3>4, k \in 1 .. MaxNodes, <1>2
      <3> QED
        BY ONLY <1>3, <2>2, <3>5, k \in 1 .. MaxNodes
    <2> QED
      BY ONLY <2>3, <2>4
  <1>9. MaxNodes \in P
    <2> HIDE DEF P
    <2> QED
      BY ONLY <1>2, <1>3, <1>7, <1>8, Climb
  <1>10. Closed(t, g[MaxNodes])
    <2>1. Cardinality(g[MaxNodes]) >= MaxNodes + 1 \/ Closed(t, g[MaxNodes])
      BY ONLY <1>9
    <2>2. Cardinality(g[MaxNodes]) \in Nat /\ Cardinality(g[MaxNodes]) <= MaxNodes
      BY ONLY <1>3, <1>6
    <2>3. ~(Cardinality(g[MaxNodes]) >= MaxNodes + 1)
      BY ONLY <1>2, <2>2
    <2> QED
      BY ONLY <2>1, <2>3
  <1>11. ASSUME NEW T \in SUBSET Nodes, d \in T, Closed(t, T) PROVE g[MaxNodes] \subseteq T
    <2> DEFINE Q == {k \in 0 .. MaxNodes : g[k] \subseteq T}
    <2>1. 0 \in Q
      BY ONLY <1>1, <1>3, <1>11
    <2>2. ASSUME NEW k \in 1 .. MaxNodes, k - 1 \in Q PROVE k \in Q
      <3>1. g[k - 1] \in SUBSET Nodes /\ g[k] = Wider(t, g[k - 1]) /\ g[k - 1] \subseteq T
        BY ONLY <1>1, <1>3, <2>2, k \in 1 .. MaxNodes
      <3>2. g[k] \subseteq T
        BY ONLY <1>11, <3>1, t \in Tree, T \in SUBSET Nodes, WiderIn
      <3> QED
        BY ONLY <1>3, <3>2, k \in 1 .. MaxNodes
    <2> HIDE DEF Q
    <2>3. MaxNodes \in Q
      BY ONLY <1>2, <1>3, <2>1, <2>2, Climb
    <2> QED
      BY ONLY <2>3 DEF Q
  <1>12. d \in g[MaxNodes] /\ g[MaxNodes] \in SUBSET Nodes
    BY ONLY <1>1, <1>3, <1>9
  <1> QED
    BY ONLY <1>1, <1>10, <1>11, <1>12 DEF ReachSpec

-----------------------------------------------------------------------------
(* Paths (filesystem.py).                                                   *)

\* A path without its last name, and that name.
LEMMA FrontLast ==
    ASSUME NEW S, NEW p \in Seq(S), p # << >>
    PROVE  /\ Len(p) \in Nat /\ Len(p) # 0 /\ DOMAIN p = 1 .. Len(p)
           /\ Front(p) \in Seq(S) /\ Len(Front(p)) = Len(p) - 1
           /\ \A i \in 1 .. (Len(p) - 1) : Front(p)[i] = p[i]
           /\ DOMAIN Front(p) = 1 .. (Len(p) - 1)
           /\ Last(p) \in S
  <1>1. Len(p) \in Nat /\ Len(p) # 0 /\ DOMAIN p = 1 .. Len(p)
    BY EmptySeq, LenProperties
  <1> DEFINE n == Len(p)
  <1>2. /\ 1 \in 1 .. (n + 1) /\ n - 1 \in (1 - 1) .. n /\ n \in 1 .. n
        /\ n - 1 - 1 + 1 = n - 1 /\ \A i \in 1 .. (n - 1) : 1 + i - 1 = i
    BY ONLY <1>1
  <1>3. /\ SubSeq(p, 1, n - 1) \in Seq(S)
        /\ Len(SubSeq(p, 1, n - 1)) = n - 1
        /\ \A i \in 1 .. (n - 1) : SubSeq(p, 1, n - 1)[i] = p[i]
    BY ONLY <1>1, <1>2, p \in Seq(S), SubSeqProperties
  <1>4. DOMAIN SubSeq(p, 1, n - 1) = 1 .. (n - 1)
    BY ONLY <1>3, LenProperties
  <1>5. Last(p) \in S
    BY ONLY <1>1, <1>2, p \in Seq(S), ElementOfSeq DEF Last
  <1> QED
    BY ONLY <1>1, <1>3, <1>4, <1>5 DEF Front

\* One part of a path (resolve).
LEMMA StepKeeps ==
    ASSUME NEW base \in Seq(Names), NEW part \in Names \cup {".."}
    PROVE  Step(base, part) \in Seq(Names)
  <1>1. CASE part # ".."
    BY <1>1, AppendProperties DEF Step
  <1>2. CASE part = ".." /\ base \in {<< >>, <<"root">>}
    BY ONLY <1>2, base \in Seq(Names) DEF Step
  <1>3. CASE part = ".." /\ base \notin {<< >>, <<"root">>}
    <2>1. base # << >>
      BY ONLY <1>3
    <2>2. Front(base) \in Seq(Names)
      BY ONLY <2>1, base \in Seq(Names), FrontLast
    <2> QED
      BY ONLY <1>3, <2>2 DEF Step
  <1> QED
    BY ONLY <1>1, <1>2, <1>3

\* A resolved path has a name (resolve).
LEMMA ResolveIs ==
    ASSUME NEW t \in Tree, NEW path \in Path
    PROVE  Resolve(t, path) \in Seq(Names) /\ Resolve(t, path) # << >>
  <1> DEFINE b == IF path.abs THEN << >> ELSE t.cwd
             w == path.parts
             n == Len(w)
             X == Seq(Names)
  <1>1. w \in Seq(Names \cup {".."}) /\ t.cwd \in X
    BY DEF Path, Tree
  <1>2. b \in X
    BY ONLY <1>1, EmptySeq
  <1>3. n \in Nat /\ DOMAIN w = 1 .. n /\ \A m \in 1 .. n : w[m] \in Names \cup {".."}
    BY ONLY <1>1, LenProperties, ElementOfSeq
  <1>4. \A x \in X : \A m \in 1 .. n : Step(x, w[m]) \in X
    BY ONLY <1>3, StepKeeps
  <1> HIDE DEF b, w, n, X
  <1>5. StepAll(b, w) \in X
    BY ONLY <1>2, <1>3, <1>4, StepFold
  <1>6. Resolve(t, path) = IF StepAll(b, w) = << >> THEN <<"root">> ELSE StepAll(b, w)
    BY ONLY DEF Resolve, StepAll, b, w
  <1>7. <<"root">> \in X /\ <<"root">> # << >>
    BY NamesAssumption DEF X
  <1> QED
    BY ONLY <1>5, <1>6, <1>7 DEF X

\* One name of a path (_lookup).
LEMMA EnterKeeps ==
    ASSUME NEW t \in Tree, NEW S, ReachSpec(t, Root, S), NEW d \in S \cup {None}, NEW part \in Names
    PROVE  Enter(t, d, part) \in S \cup {None}
  <1>1. CASE part = "root" \/ ~IsDir(t, d)
    BY ONLY <1>1, d \in S \cup {None} DEF Enter
  <1>2. CASE part # "root" /\ IsDir(t, d)
    <2>1. Enter(t, d, part) = t.entries[d][part]
      BY ONLY <1>2 DEF Enter
    <2>2. d \in S /\ d \in Nodes /\ Closed(t, S)
      BY <1>2 DEF IsDir, ReachSpec
    <2>3. t.entries[d][part] = None \/ t.entries[d][part] \in Children(t, d)
      BY ONLY <2>2, t \in Tree, part \in Names, ChildIs
    <2> QED
      BY ONLY <2>1, <2>2, <2>3 DEF Closed
  <1> QED
    BY ONLY <1>1, <1>2

\* The names of a path, one after the other (_lookup).
LookupTrace(t, p, g, n) ==
    /\ g[0] = Root
    /\ \A m \in 1 .. n : g[m] = Enter(t, g[m - 1], p[m])
    /\ Lookup(t, p) = g[n]

\* _lookup goes from object to object, and they are all reached from the root.
LEMMA LookupSteps ==
    ASSUME NEW t \in Tree, NEW n \in Nat, NEW p \in Seq(Names), Len(p) = n
    PROVE  \E g \in [0 .. n -> Reach(t, Root) \cup {None}] : LookupTrace(t, p, g, n)
  <1> DEFINE S == Reach(t, Root)
             X == S \cup {None}
  <1>1. Root \in Nodes
    BY NodesAssumption DEF Root, Nodes
  <1>2. ReachSpec(t, Root, S)
    BY ONLY <1>1, t \in Tree, ReachIs
  <1>3. DOMAIN p = 1 .. n /\ \A m \in 1 .. n : p[m] \in Names
    BY ONLY p \in Seq(Names), Len(p) = n, LenProperties, ElementOfSeq
  <1> HIDE DEF S
  <1>4. Root \in X
    BY ONLY <1>2 DEF ReachSpec
  <1>5. \A x \in X : \A m \in 1 .. n : Enter(t, x, p[m]) \in X
    BY ONLY <1>2, <1>3, t \in Tree, EnterKeeps
  <1> HIDE DEF X
  <1>6. PICK g \in [0 .. n -> X] :
           /\ g[0] = Root
           /\ \A m \in 1 .. n : g[m] = Enter(t, g[m - 1], p[m])
           /\ EnterAll(t, Root, p) = g[n]
    <2>1. EnterChain(t, Root, p, n, X)
      BY ONLY <1>3, <1>4, <1>5, n \in Nat, EnterFold
    <2> QED
      BY ONLY <2>1 DEF EnterChain
  <1>7. Lookup(t, p) = EnterAll(t, Root, p)
    BY ONLY DEF Lookup, Enter, EnterAll, FoldLeft, MapThenFoldSet
  <1>8. LookupTrace(t, p, g, n)
    BY ONLY <1>6, <1>7 DEF LookupTrace
  <1> QED
    BY ONLY <1>8 DEF X, S

\* What a path leads to, and how its last name does.
LEMMA LookupIs ==
    ASSUME NEW t \in Tree, NEW p \in Seq(Names)
    PROVE  /\ Lookup(t, p) \in Reach(t, Root) \cup {None}
           /\ p # << >> => Lookup(t, p) = Enter(t, Lookup(t, Front(p)), Last(p))
  <1> DEFINE n == Len(p)
             X == Reach(t, Root) \cup {None}
  <1>1. n \in Nat
    BY LenProperties
  <1>2. PICK g \in [0 .. n -> X] : LookupTrace(t, p, g, n)
    BY <1>1, LookupSteps
  <1>3. Lookup(t, p) \in X
    <2>1. n \in 0 .. n
      BY ONLY <1>1
    <2> QED
      BY ONLY <1>2, <2>1 DEF LookupTrace
  <1>4. ASSUME p # << >> PROVE Lookup(t, p) = Enter(t, Lookup(t, Front(p)), Last(p))
    <2> DEFINE k == n - 1
    <2>1. /\ n # 0 /\ Front(p) \in Seq(Names) /\ Len(Front(p)) = k
          /\ \A i \in 1 .. k : Front(p)[i] = p[i]
      BY ONLY <1>4, p \in Seq(Names), FrontLast
    <2>2. k \in Nat /\ n \in 1 .. n /\ k \in 0 .. k /\ \A i \in 1 .. k : i \in 1 .. n
      BY ONLY <1>1, <2>1
    <2>3. PICK f \in [0 .. k -> X] : LookupTrace(t, Front(p), f, k)
      BY ONLY <2>1, <2>2, t \in Tree, LookupSteps
    <2> DEFINE Q == {i \in 0 .. k : f[i] = g[i]}
    <2>4. 0 \in Q
      <3>1. 0 \in 0 .. k
        BY ONLY <2>2
      <3> QED
        BY ONLY <1>2, <2>3, <3>1 DEF LookupTrace
    <2>5. ASSUME NEW i \in 1 .. k, i - 1 \in Q PROVE i \in Q
      <3>1. f[i] = Enter(t, f[i - 1], Front(p)[i])
        BY ONLY <2>3, i \in 1 .. k DEF LookupTrace
      <3>2. g[i] = Enter(t, g[i - 1], p[i])
        BY ONLY <1>2, <2>2, i \in 1 .. k DEF LookupTrace
      <3>3. f[i - 1] = g[i - 1] /\ Front(p)[i] = p[i]
        BY ONLY <2>1, <2>5
      <3>4. i \in 0 .. k
        BY ONLY <2>2, i \in 1 .. k
      <3> QED
        BY ONLY <3>1, <3>2, <3>3, <3>4
    <2> HIDE DEF Q
    <2>6. k \in Q
      BY ONLY <2>2, <2>4, <2>5, Climb
    <2>7. f[k] = g[k]
      BY ONLY <2>6 DEF Q
    <2>8. Lookup(t, Front(p)) = f[k] /\ Lookup(t, p) = g[n] /\ g[n] = Enter(t, g[n - 1], p[n])
      BY ONLY <1>2, <2>2, <2>3 DEF LookupTrace
    <2> QED
      BY ONLY <2>7, <2>8 DEF Last
  <1> QED
    BY ONLY <1>3, <1>4

-----------------------------------------------------------------------------
(* What every operation keeps of a tree (filesystem.py).                    *)

\* No entry leads to an object that is gone.
Sound(t) ==
    /\ t \in Tree
    /\ t.kind[Root] = "dir"
    /\ \A d \in Nodes : \A n \in Names : t.entries[d][n] # None => t.kind[t.entries[d][n]] # "free"

\* No object has two entries, and the root has none.
Single(t) ==
    /\ \A d, e \in Nodes : \A m, n \in Names :
          t.entries[d][m] # None /\ t.entries[d][m] = t.entries[e][n] => d = e /\ m = n
    /\ \A d \in Nodes : \A n \in Names : t.entries[d][n] # Root

\* The trees of a session in which no mv took a source named "root" (b), and of
\* any session.
Good(b) == {t \in Tree : Sound(t) /\ (b => Single(t))}

\* The parts of a tree, and facts about its nodes.
LEMMA TreeParts ==
    ASSUME NEW t \in Tree
    PROVE  /\ t.kind \in [Nodes -> {"free", "dir", "file", "link"}]
           /\ t.entries \in [Nodes -> [Names -> Nodes \cup {None}]]
           /\ t.cwd \in Seq(Names)
           /\ \A d \in Nodes : \A n \in Names : t.entries[d][n] \in Nodes \cup {None}
           /\ Root \in Nodes /\ None \notin Nodes
           /\ Free(t) \in SUBSET Nodes /\ Free(t) \in SUBSET Nat
           /\ \A d : IsDir(t, d) => d # None /\ t.kind[d] # "free"
  <1>1. /\ t.kind \in [Nodes -> {"free", "dir", "file", "link"}]
        /\ t.entries \in [Nodes -> [Names -> Nodes \cup {None}]]
        /\ t.cwd \in Seq(Names)
    BY DEF Tree
  <1>2. \A d \in Nodes : \A n \in Names : t.entries[d][n] \in Nodes \cup {None}
    BY ONLY <1>1
  <1>3. Root \in Nodes /\ None \notin Nodes /\ Nodes \in SUBSET Nat
    BY ONLY NodesAssumption DEF Root, None, Nodes
  <1>4. Free(t) \in SUBSET Nodes /\ Free(t) \in SUBSET Nat
    BY ONLY <1>3 DEF Free
  <1>5. \A d : IsDir(t, d) => d # None /\ t.kind[d] # "free"
    BY ONLY DEF IsDir
  <1> QED
    BY ONLY <1>1, <1>2, <1>3, <1>4, <1>5

\* What a path of a command leads to.
LEMMA PathIs ==
    ASSUME NEW t \in Tree, NEW path \in Path
    PROVE  /\ Resolve(t, path) \in Seq(Names)
           /\ LookupPath(t, path) \in Reach(t, Root) \cup {None}
           /\ LookupPath(t, path) \in Nodes \cup {None}
           /\ ParentOf(t, path) \in Nodes \cup {None}
           /\ NameOf(t, path) \in Names
           /\ LookupPath(t, path) = Enter(t, ParentOf(t, path), NameOf(t, path))
  <1> DEFINE p == Resolve(t, path)
  <1>1. p \in Seq(Names) /\ p # << >>
    BY ResolveIs
  <1> HIDE DEF p
  <1>2. Front(p) \in Seq(Names) /\ Last(p) \in Names
    BY ONLY <1>1, FrontLast
  <1>3. /\ Lookup(t, p) \in Reach(t, Root) \cup {None}
        /\ Lookup(t, Front(p)) \in Reach(t, Root) \cup {None}
        /\ Lookup(t, p) = Enter(t, Lookup(t, Front(p)), Last(p))
    BY ONLY <1>1, <1>2, t \in Tree, LookupIs
  <1>4. Reach(t, Root) \in SUBSET Nodes
    BY TreeParts, ReachIs DEF ReachSpec
  <1> QED
    BY ONLY <1>1, <1>2, <1>3, <1>4 DEF LookupPath, ParentOf, NameOf, p

\* One entry set, in a directory.
Put(t, P, N, v) == [t EXCEPT !.entries[P][N] = v]

\* It is a tree, and no other entry has changed.
LEMMA PutIs ==
    ASSUME NEW t \in Tree, NEW P \in Nodes, NEW N \in Names, NEW v \in Nodes \cup {None}
    PROVE  /\ Put(t, P, N, v) \in Tree
           /\ Put(t, P, N, v).kind = t.kind /\ Put(t, P, N, v).cwd = t.cwd
           /\ \A d \in Nodes : \A n \in Names :
                 Put(t, P, N, v).entries[d][n] = IF d = P /\ n = N THEN v ELSE t.entries[d][n]
  <1> DEFINE E == [t.entries EXCEPT ![P] = [t.entries[P] EXCEPT ![N] = v]]
  <1>1. t.entries \in [Nodes -> [Names -> Nodes \cup {None}]]
    BY TreeParts
  <1>2. E \in [Nodes -> [Names -> Nodes \cup {None}]]
    BY ONLY <1>1, P \in Nodes, N \in Names, v \in Nodes \cup {None}
  <1>3. \A d \in Nodes : \A n \in Names :
           E[d][n] = IF d = P /\ n = N THEN v ELSE t.entries[d][n]
    BY ONLY <1>1, P \in Nodes, N \in Names, v \in Nodes \cup {None}
  <1>4. Put(t, P, N, v) = [t EXCEPT !.entries = E]
    BY DEF Put, Tree
  <1> HIDE DEF E
  <1>5. /\ [t EXCEPT !.entries = E] \in Tree
        /\ [t EXCEPT !.entries = E].kind = t.kind /\ [t EXCEPT !.entries = E].cwd = t.cwd
        /\ [t EXCEPT !.entries = E].entries = E
    BY ONLY <1>2, t \in Tree DEF Tree
  <1> QED
    BY ONLY <1>3, <1>4, <1>5

\* An object put where no other entry leads to it, or an entry removed.
LEMMA PutKeeps ==
    ASSUME NEW b \in BOOLEAN, NEW t \in Good(b),
           NEW P \in Nodes, NEW N \in Names, NEW v \in Nodes \cup {None},
           v # None => t.kind[v] # "free",
           b /\ v # None => v # Root /\ \A d \in Nodes : \A n \in Names :
                                          t.entries[d][n] = v => d = P /\ n = N
    PROVE  Put(t, P, N, v) \in Good(b)
  <1> DEFINE u == Put(t, P, N, v)
  <1>1. t \in Tree /\ Sound(t) /\ (b => Single(t))
    BY DEF Good
  <1>2. /\ u \in Tree /\ u.kind = t.kind
        /\ \A d \in Nodes : \A n \in Names :
              u.entries[d][n] = IF d = P /\ n = N THEN v ELSE t.entries[d][n]
    BY ONLY <1>1, P \in Nodes, N \in Names, v \in Nodes \cup {None}, PutIs
  <1> HIDE DEF u
  <1>3. Sound(u)
    <2>1. ASSUME NEW d \in Nodes, NEW n \in Names, u.entries[d][n] # None
          PROVE  u.kind[u.entries[d][n]] # "free"
      BY ONLY <1>1, <1>2, <2>1, d \in Nodes, n \in Names, v # None => t.kind[v] # "free" DEF Sound
    <2>2. u.kind[Root] = "dir"
      BY ONLY <1>1, <1>2 DEF Sound
    <2> QED
      BY ONLY <1>2, <2>1, <2>2 DEF Sound
  <1>4. ASSUME b PROVE Single(u)
    <2>1. /\ Single(t)
          /\ v # None => v # Root /\ \A d \in Nodes : \A n \in Names :
                                       t.entries[d][n] = v => d = P /\ n = N
      BY <1>1, <1>4
    <2>2. ASSUME NEW d \in Nodes, NEW e \in Nodes, NEW m \in Names, NEW n \in Names,
                 u.entries[d][m] # None, u.entries[d][m] = u.entries[e][n]
          PROVE  d = e /\ m = n
      BY ONLY <1>2, <2>1, <2>2, d \in Nodes, e \in Nodes, m \in Names, n \in Names DEF Single
    <2>3. \A d \in Nodes : \A n \in Names : u.entries[d][n] # Root
      <3>1. None # Root
        BY ONLY DEF None, Root
      <3> QED
        BY ONLY <1>2, <2>1, <3>1 DEF Single
    <2> QED
      BY ONLY <2>2, <2>3 DEF Single
  <1>5. u \in Good(b)
    BY ONLY <1>2, <1>3, <1>4 DEF Good
  <1> QED
    BY ONLY <1>5 DEF u

\* A new object: its node was free, so that no entry leads to it.
LEMMA NewKeeps ==
    ASSUME NEW b \in BOOLEAN, NEW t \in Good(b), NEW k \in {"dir", "file"}
    PROVE  /\ New(t, k) \in Good(b)
           /\ NewNode(t) \in Nodes \cup {None}
           /\ \A d \in Nodes : t.kind[d] = "dir" => New(t, k).kind[d] = "dir"
           /\ NewNode(t) # None => /\ New(t, k).kind[NewNode(t)] # "free" /\ NewNode(t) # Root
                                   /\ \A d \in Nodes : \A n \in Names :
                                         New(t, k).entries[d][n] # NewNode(t)
  <1> DEFINE v == NewNode(t)
             K == [t.kind EXCEPT ![v] = k]
             u == New(t, k)
  <1>1. t \in Tree /\ Sound(t) /\ (b => Single(t))
    BY DEF Good
  <1>2. /\ t.kind \in [Nodes -> {"free", "dir", "file", "link"}]
        /\ Root \in Nodes /\ None \notin Nodes
        /\ Free(t) \in SUBSET Nodes /\ Free(t) \in SUBSET Nat
    BY ONLY <1>1, TreeParts
  <1>3. v = None \/ v \in Free(t)
    <2>1. CASE Free(t) = {}
      BY ONLY <2>1 DEF NewNode
    <2>2. CASE Free(t) # {}
      <3>1. \E x \in Free(t) : \A y \in Free(t) : x <= y
        BY ONLY <1>2, <2>2, LeastNatural
      <3>2. Min(Free(t)) \in Free(t)
        BY ONLY <3>1 DEF Min
      <3> QED
        BY ONLY <2>2, <3>2 DEF NewNode
    <2> QED
      BY ONLY <2>1, <2>2
  <1>4. v # None => v \in Nodes /\ t.kind[v] = "free"
    BY ONLY <1>3 DEF Free
  <1>5. u = [t EXCEPT !.kind = K]
    BY <1>1 DEF New, Tree
  <1> HIDE DEF v
  <1>6. K \in [Nodes -> {"free", "dir", "file", "link"}]
    BY ONLY <1>2, k \in {"dir", "file"}
  <1>7. \A d \in Nodes : K[d] = IF d = v THEN k ELSE t.kind[d]
    BY ONLY <1>2
  <1> HIDE DEF K, u
  <1>8. u \in Tree /\ u.kind = K /\ u.entries = t.entries
    BY ONLY <1>1, <1>5, <1>6 DEF Tree
  <1>9. k # "free" /\ "dir" # "free"
    BY ONLY k \in {"dir", "file"}
  <1>10. \A d \in Nodes : t.kind[d] # "free" => u.kind[d] = t.kind[d]
    BY ONLY <1>2, <1>4, <1>7, <1>8
  <1>11. ASSUME NEW d \in Nodes, NEW n \in Names, u.entries[d][n] # None
         PROVE  u.kind[u.entries[d][n]] # "free" /\ u.entries[d][n] # v
    <2>1. t.kind[t.entries[d][n]] # "free" /\ t.entries[d][n] \in Nodes
      BY <1>1, <1>8, <1>11, TreeParts DEF Sound
    <2> QED
      BY ONLY <1>4, <1>8, <1>10, <2>1, <1>11
  <1>12. Sound(u)
    <2>1. u.kind[Root] = "dir"
      BY ONLY <1>1, <1>2, <1>9, <1>10 DEF Sound
    <2> QED
      BY ONLY <1>8, <1>11, <2>1 DEF Sound
  <1>13. b => Single(u)
    BY ONLY <1>1, <1>8 DEF Single
  <1>14. u \in Good(b)
    BY ONLY <1>8, <1>12, <1>13 DEF Good
  <1>15. v # None => v # Root /\ u.kind[v] # "free"
    <2>1. t.kind[Root] = "dir"
      BY ONLY <1>1 DEF Sound
    <2> QED
      BY ONLY <1>4, <1>7, <1>8, <1>9, <2>1
  <1>16. ASSUME NEW d \in Nodes, NEW n \in Names, v # None PROVE u.entries[d][n] # v
    BY ONLY <1>11, <1>16, d \in Nodes, n \in Names
  <1>17. \A d \in Nodes : t.kind[d] = "dir" => u.kind[d] = "dir"
    BY ONLY <1>9, <1>10
  <1> QED
    BY ONLY <1>2, <1>4, <1>14, <1>15, <1>16, <1>17 DEF v, u

\* echo and touch: a new file, whatever the entry held.
LEMMA WriteFileKeeps ==
    ASSUME NEW b \in BOOLEAN, NEW t \in Good(b), NEW path \in Path
    PROVE  WriteFile(t, path) \in Good(b)
  <1> DEFINE P == ParentOf(t, path)
             N == NameOf(t, path)
             u == New(t, "file")
             v == NewNode(t)
  <1>1. CASE ~IsDir(t, P)
    BY ONLY <1>1, t \in Good(b) DEF WriteFile
  <1>2. CASE IsDir(t, P)
    <2>1. t \in Tree
      BY ONLY t \in Good(b) DEF Good
    <2>2. P \in Nodes /\ N \in Names
      BY <1>2, <2>1, PathIs, TreeParts
    <2>3. /\ u \in Good(b) /\ v \in Nodes \cup {None}
          /\ v # None => /\ u.kind[v] # "free" /\ v # Root
                         /\ \A d \in Nodes : \A n \in Names : u.entries[d][n] # v
      <3>1. "file" \in {"dir", "file"}
        BY ONLY TRUE
      <3> QED
        BY ONLY <3>1, b \in BOOLEAN, t \in Good(b), NewKeeps
    <2>4. WriteFile(t, path) = Put(u, P, N, v)
      BY ONLY <1>2 DEF WriteFile, Put
    <2> HIDE DEF u, v, P, N
    <2>5. Put(u, P, N, v) \in Good(b)
      BY ONLY <2>2, <2>3, b \in BOOLEAN, PutKeeps
    <2> QED
      BY ONLY <2>4, <2>5
  <1> QED
    BY ONLY <1>1, <1>2

\* A new directory; an entry that exists is kept.
LEMMA MakeDirKeeps ==
    ASSUME NEW b \in BOOLEAN, NEW t \in Good(b), NEW path \in Path
    PROVE  MakeDir(t, path) \in Good(b)
  <1> DEFINE P == ParentOf(t, path)
             N == NameOf(t, path)
             u == New(t, "dir")
             v == NewNode(t)
             Makes == IsDir(t, P) /\ t.entries[P][N] = None
  <1>1. CASE ~Makes
    BY ONLY <1>1, t \in Good(b) DEF MakeDir
  <1>2. CASE Makes
    <2>1. t \in Tree
      BY ONLY t \in Good(b) DEF Good
    <2>2. P \in Nodes /\ N \in Names
      BY <1>2, <2>1, PathIs, TreeParts
    <2>3. /\ u \in Good(b) /\ v \in Nodes \cup {None}
          /\ v # None => /\ u.kind[v] # "free" /\ v # Root
                         /\ \A d \in Nodes : \A n \in Names : u.entries[d][n] # v
      <3>1. "dir" \in {"dir", "file"}
        BY ONLY TRUE
      <3> QED
        BY ONLY <3>1, b \in BOOLEAN, t \in Good(b), NewKeeps
    <2>4. MakeDir(t, path) = Put(u, P, N, v)
      BY ONLY <1>2 DEF MakeDir, Put
    <2> HIDE DEF u, v, P, N
    <2>5. Put(u, P, N, v) \in Good(b)
      BY ONLY <2>2, <2>3, b \in BOOLEAN, PutKeeps
    <2> QED
      BY ONLY <2>4, <2>5
  <1> QED
    BY ONLY <1>1, <1>2

\* An entry removed.
LEMMA ClearKeeps ==
    ASSUME NEW b \in BOOLEAN, NEW t \in Good(b), NEW P \in Nodes, NEW N \in Names
    PROVE  Put(t, P, N, None) \in Good(b)
  <1>1. None \in Nodes \cup {None}
    BY ONLY TRUE
  <1> QED
    BY ONLY <1>1, b \in BOOLEAN, t \in Good(b), P \in Nodes, N \in Names, PutKeeps

\* rm of one path.
LEMMA RemoveEntryKeeps ==
    ASSUME NEW b \in BOOLEAN, NEW t \in Good(b), NEW path \in Path
    PROVE  RemoveEntry(t, path) \in Good(b)
  <1> DEFINE P == ParentOf(t, path)
             N == NameOf(t, path)
  <1>1. CASE ~IsDir(t, P)
    BY ONLY <1>1, t \in Good(b) DEF RemoveEntry
  <1>2. CASE IsDir(t, P)
    <2>1. t \in Tree
      BY ONLY t \in Good(b) DEF Good
    <2>2. P \in Nodes /\ N \in Names
      BY <1>2, <2>1, PathIs, TreeParts
    <2>3. RemoveEntry(t, path) = Put(t, P, N, None)
      BY ONLY <1>2 DEF RemoveEntry, Put
    <2> HIDE DEF P, N
    <2> QED
      BY ONLY <2>2, <2>3, b \in BOOLEAN, t \in Good(b), ClearKeeps
  <1> QED
    BY ONLY <1>1, <1>2

\* cd changes nothing but the working directory.
LEMMA ChdirKeeps ==
    ASSUME NEW b \in BOOLEAN, NEW t \in Good(b), NEW path \in Path
    PROVE  Chdir(t, path) \in Good(b)
  <1> DEFINE u == [t EXCEPT !.cwd = Resolve(t, path)]
  <1>1. t \in Tree /\ Sound(t) /\ (b => Single(t))
    BY DEF Good
  <1>2. Resolve(t, path) \in Seq(Names)
    BY <1>1, PathIs
  <1>3. u \in Tree /\ u.kind = t.kind /\ u.entries = t.entries
    BY ONLY <1>1, <1>2 DEF Tree
  <1> HIDE DEF u
  <1>4. u \in Good(b)
    BY ONLY <1>1, <1>3 DEF Good, Sound, Single
  <1> QED
    BY ONLY <1>4, t \in Good(b) DEF Chdir, u

\* Python frees what nothing refers to: what is reached keeps all it holds.
LEMMA CollectKeeps ==
    ASSUME NEW b \in BOOLEAN, NEW t \in Good(b)
    PROVE  Collect(t) \in Good(b)
  <1> DEFINE S == Reach(t, Root)
             K == [d \in Nodes |-> IF d \in S THEN t.kind[d] ELSE "free"]
             E == [d \in Nodes |-> IF d \in S THEN t.entries[d] ELSE NoEntries]
             u == Collect(t)
  <1>1. t \in Tree /\ Sound(t) /\ (b => Single(t))
    BY DEF Good
  <1>2. /\ t.kind \in [Nodes -> {"free", "dir", "file", "link"}]
        /\ t.entries \in [Nodes -> [Names -> Nodes \cup {None}]]
        /\ Root \in Nodes
    BY ONLY <1>1, TreeParts
  <1>3. Root \in S /\ Closed(t, S) /\ S \in SUBSET Nodes
    BY ONLY <1>1, <1>2, ReachIs DEF ReachSpec
  <1>4. u = [t EXCEPT !.kind = K, !.entries = E]
    BY ONLY <1>1 DEF Collect, Tree
  <1> HIDE DEF S, u
  <1>5. NoEntries \in [Names -> Nodes \cup {None}] /\ \A n \in Names : NoEntries[n] = None
    BY ONLY DEF NoEntries
  <1>6. /\ K \in [Nodes -> {"free", "dir", "file", "link"}]
        /\ E \in [Nodes -> [Names -> Nodes \cup {None}]]
    BY ONLY <1>2, <1>5
  <1>7. /\ \A d \in S : K[d] = t.kind[d]
        /\ \A d \in Nodes : \A n \in Names : E[d][n] # None => d \in S /\ E[d][n] = t.entries[d][n]
    BY ONLY <1>3, <1>5
  <1> HIDE DEF K, E
  <1>8. u \in Tree /\ u.kind = K /\ u.entries = E
    BY ONLY <1>1, <1>4, <1>6 DEF Tree
  <1>9. u.kind[Root] = "dir"
    BY ONLY <1>1, <1>3, <1>7, <1>8 DEF Sound
  <1>10. ASSUME NEW d \in Nodes, NEW n \in Names, u.entries[d][n] # None
         PROVE  u.kind[u.entries[d][n]] # "free"
    <2>1. d \in S /\ E[d][n] = t.entries[d][n] /\ E[d][n] # None
      BY ONLY <1>7, <1>8, <1>10, d \in Nodes, n \in Names
    <2>2. t.entries[d][n] \in Children(t, d)
      BY ONLY <1>1, <2>1, d \in Nodes, n \in Names, ChildIs
    <2>3. t.entries[d][n] \in S
      BY ONLY <1>3, <2>1, <2>2 DEF Closed
    <2>4. t.kind[t.entries[d][n]] # "free"
      BY ONLY <1>1, <2>1, d \in Nodes, n \in Names DEF Sound
    <2> QED
      BY ONLY <1>7, <1>8, <2>1, <2>3, <2>4
  <1>11. Sound(u)
    BY ONLY <1>8, <1>9, <1>10 DEF Sound
  <1>12. ASSUME b PROVE Single(u)
    <2>1. Single(t)
      BY ONLY <1>1, <1>12
    <2>2. ASSUME NEW d \in Nodes, NEW e \in Nodes, NEW m \in Names, NEW n \in Names,
                 E[d][m] # None, E[d][m] = E[e][n]
          PROVE  d = e /\ m = n
      <3>0. E[e][n] # None
        BY ONLY <2>2
      <3>1. E[d][m] = t.entries[d][m] /\ E[e][n] = t.entries[e][n]
        BY ONLY <1>7, <2>2, <3>0, d \in Nodes, e \in Nodes, m \in Names, n \in Names
      <3>2. t.entries[d][m] # None /\ t.entries[d][m] = t.entries[e][n]
        BY ONLY <2>2, <3>1
      <3> QED
        BY ONLY <2>1, <3>2, d \in Nodes, e \in Nodes, m \in Names, n \in Names DEF Single
    <2>3. ASSUME NEW d \in Nodes, NEW n \in Names PROVE E[d][n] # Root
      <3>1. Root # None
        BY ONLY DEF None, Root
      <3> QED
        BY ONLY <1>7, <2>1, <3>1, d \in Nodes, n \in Names DEF Single
    <2> QED
      BY ONLY <1>8, <2>2, <2>3 DEF Single
  <1>13. u \in Good(b)
    BY ONLY <1>8, <1>11, <1>12 DEF Good
  <1> QED
    BY ONLY <1>13 DEF u

\* What the root reaches is there.
LEMMA ReachedIsThere ==
    ASSUME NEW t, Sound(t), NEW d \in Nodes, t.kind[d] # "free", NEW e \in Reach(t, d)
    PROVE  e \in Nodes /\ t.kind[e] # "free"
  <1> DEFINE T == {x \in Nodes : t.kind[x] # "free"}
  <1>1. t \in Tree
    BY DEF Sound
  <1>2. ReachSpec(t, d, Reach(t, d))
    BY ONLY <1>1, d \in Nodes, ReachIs
  <1>3. Closed(t, T)
    <2>1. ASSUME NEW x \in T, NEW y \in Children(t, x) PROVE y \in T
      <3>1. y \in Nodes /\ y # None /\ \E n \in Names : t.entries[x][n] = y
        BY <1>1, <2>1, ChildIs
      <3>2. t.kind[y] # "free"
        BY <2>1, <3>1 DEF Sound
      <3> QED
        BY ONLY <3>1, <3>2
    <2> QED
      BY ONLY <2>1 DEF Closed
  <1>4. Reach(t, d) \subseteq T
    <2>1. T \in SUBSET Nodes /\ d \in T
      BY ONLY d \in Nodes, t.kind[d] # "free"
    <2> QED
      BY ONLY <1>2, <1>3, <2>1 DEF ReachSpec
  <1> QED
    BY ONLY <1>4, e \in Reach(t, d)

\* Two trees with the same entries are the same.
LEMMA SameTree ==
    ASSUME NEW t \in Tree, NEW u \in Tree, t.kind = u.kind, t.cwd = u.cwd,
           \A d \in Nodes : \A n \in Names : t.entries[d][n] = u.entries[d][n]
    PROVE  t = u
  <1>1. /\ t.entries \in [Nodes -> [Names -> Nodes \cup {None}]]
        /\ u.entries \in [Nodes -> [Names -> Nodes \cup {None}]]
    BY TreeParts
  <1>2. ASSUME NEW d \in Nodes PROVE t.entries[d] = u.entries[d]
    <2>1. t.entries[d] \in [Names -> Nodes \cup {None}] /\ u.entries[d] \in [Names -> Nodes \cup {None}]
      BY ONLY <1>1, d \in Nodes
    <2>2. \A n \in Names : t.entries[d][n] = u.entries[d][n]
      BY d \in Nodes
    <2> QED
      BY ONLY <2>1, <2>2
  <1>3. t.entries = u.entries
    BY ONLY <1>1, <1>2
  <1>4. /\ t = [kind |-> t.kind, entries |-> t.entries, cwd |-> t.cwd]
        /\ u = [kind |-> u.kind, entries |-> u.entries, cwd |-> u.cwd]
    BY DEF Tree
  <1> QED
    BY ONLY <1>3, <1>4, t.kind = u.kind, t.cwd = u.cwd

\* One tree is another with one entry set.
IsPut(u, t, P, N, v) ==
    /\ u \in Tree /\ u.kind = t.kind /\ u.cwd = t.cwd
    /\ \A d \in Nodes : \A n \in Names :
          u.entries[d][n] = IF d = P /\ n = N THEN v ELSE t.entries[d][n]

\* What setting an entry gives.
LEMMA PutSpec ==
    ASSUME NEW t \in Tree, NEW P \in Nodes, NEW N \in Names, NEW v \in Nodes \cup {None}
    PROVE  IsPut(Put(t, P, N, v), t, P, N, v)
  BY PutIs DEF IsPut

\* Two entries set, in either order, or the same one twice.
LEMMA PutTwice ==
    ASSUME NEW t \in Tree, NEW P \in Nodes, NEW N \in Names, NEW Q \in Nodes, NEW M \in Names,
           NEW v \in Nodes \cup {None}, NEW w \in Nodes \cup {None}
    PROVE  /\ Q = P /\ M = N => Put(Put(t, Q, M, v), P, N, w) = Put(t, P, N, w)
           /\ ~(Q = P /\ M = N) => Put(Put(t, Q, M, v), P, N, w) = Put(Put(t, P, N, w), Q, M, v)
  <1> DEFINE x == Put(t, Q, M, v)
             y == Put(t, P, N, w)
             xx == Put(x, P, N, w)
             yy == Put(y, Q, M, v)
  <1>1. IsPut(x, t, Q, M, v)
    BY ONLY t \in Tree, Q \in Nodes, M \in Names, v \in Nodes \cup {None}, PutSpec
  <1>2. IsPut(y, t, P, N, w)
    BY ONLY t \in Tree, P \in Nodes, N \in Names, w \in Nodes \cup {None}, PutSpec
    <1>3. IsPut(xx, x, P, N, w)
    <2>1. x \in Tree
      BY ONLY <1>1 DEF IsPut
    <2> QED
      BY ONLY <2>1, P \in Nodes, N \in Names, w \in Nodes \cup {None}, PutSpec
  <1>4. IsPut(yy, y, Q, M, v)
    <2>1. y \in Tree
      BY ONLY <1>2 DEF IsPut
    <2> QED
      BY ONLY <2>1, Q \in Nodes, M \in Names, v \in Nodes \cup {None}, PutSpec
  <1> HIDE DEF x, y, xx, yy
  <1>5. ASSUME Q = P, M = N PROVE xx = y
    <2>1. \A d \in Nodes : \A n \in Names : xx.entries[d][n] = y.entries[d][n]
      BY ONLY <1>1, <1>2, <1>3, <1>5 DEF IsPut
    <2>2. xx.kind = y.kind /\ xx.cwd = y.cwd
      BY ONLY <1>1, <1>2, <1>3 DEF IsPut
    <2>3. xx \in Tree /\ y \in Tree
      BY ONLY <1>2, <1>3 DEF IsPut
    <2> QED
      BY ONLY <2>1, <2>2, <2>3, SameTree
  <1>6. ASSUME ~(Q = P /\ M = N) PROVE xx = yy
    <2>1. \A d \in Nodes : \A n \in Names : xx.entries[d][n] = yy.entries[d][n]
      BY ONLY <1>1, <1>2, <1>3, <1>4, <1>6 DEF IsPut
    <2>2. xx.kind = yy.kind /\ xx.cwd = yy.cwd
      BY ONLY <1>1, <1>2, <1>3, <1>4 DEF IsPut
    <2>3. xx \in Tree /\ yy \in Tree
      BY ONLY <1>3, <1>4 DEF IsPut
    <2> QED
      BY ONLY <2>1, <2>2, <2>3, SameTree
  <1> QED
    BY ONLY <1>5, <1>6 DEF x, y, xx, yy

\* mv: the node has one entry again once the old one is gone.
LEMMA MoveNodeKeeps ==
    ASSUME NEW b \in BOOLEAN, NEW t \in Good(b), NEW src \in Path, NEW dst \in Path,
           b => NameOf(t, src) # "root"
    PROVE  MoveNode(t, src, dst) \in Good(b)
  <1> DEFINE P == ParentOf(t, src)
             N == NameOf(t, src)
             Q == DstDir(t, dst)
             M == DstName(t, src, dst)
             v == LookupPath(t, src)
             u == Put(Put(t, Q, M, v), P, N, None)
  <1>1. CASE ~CanMove(t, src, dst)
    BY ONLY <1>1, t \in Good(b) DEF MoveNode
  <1>2. CASE CanMove(t, src, dst)
    <2>0. t \in Tree /\ Sound(t) /\ (b => Single(t))
      BY ONLY t \in Good(b) DEF Good
    <2>1. v # None /\ IsDir(t, Q) /\ IsDir(t, P)
      BY ONLY <1>2 DEF CanMove, CanCopy
    <2>2. v \in Reach(t, Root) /\ v \in Nodes /\ P \in Nodes /\ N \in Names
      BY <2>0, <2>1, PathIs, TreeParts
    <2>3. Q \in Nodes /\ M \in Names
      <3>1. /\ LookupPath(t, dst) \in Nodes \cup {None} /\ ParentOf(t, dst) \in Nodes \cup {None}
            /\ NameOf(t, dst) \in Names /\ N \in Names
        BY <2>0, PathIs
      <3> QED
        BY <2>0, <2>1, <3>1, TreeParts DEF DstDir, DstName
    <2>4. MoveNode(t, src, dst) = u
      BY ONLY <1>2 DEF MoveNode, Placed, Put
    <2>5. b => v = t.entries[P][N]
      BY <2>0, <2>1, PathIs DEF Enter
    <2> HIDE DEF P, N, Q, M, v
    <2>6. t.kind[v] # "free"
      <3>1. Root \in Nodes /\ t.kind[Root] # "free"
        <4>1. Root \in Nodes
          BY ONLY <2>0, TreeParts
        <4> QED
          BY ONLY <2>0, <4>1 DEF Sound
      <3> QED
        BY ONLY <2>0, <2>2, <3>1, ReachedIsThere
    <2>7. CASE ~b
      <3>1. Put(t, Q, M, v) \in Good(b)
        BY <2>2, <2>3, <2>6, <2>7, PutKeeps
      <3> QED
        BY ONLY <2>2, <2>4, <3>1, b \in BOOLEAN, ClearKeeps
    <2>8. CASE b
      <3> DEFINE r == Put(t, P, N, None)
      <3>1. r \in Good(b)
        BY ONLY <2>2, b \in BOOLEAN, t \in Good(b), ClearKeeps
      <3>2. /\ r \in Tree /\ r.kind = t.kind /\ r.cwd = t.cwd
            /\ \A d \in Nodes : \A n \in Names :
                  r.entries[d][n] = IF d = P /\ n = N THEN None ELSE t.entries[d][n]
        <4>1. None \in Nodes \cup {None}
          BY ONLY TRUE
        <4> QED
          BY ONLY <2>0, <2>2, <4>1, PutIs
      <3>3. /\ \A d \in Nodes : \A n \in Names : t.entries[d][n] = v => d = P /\ n = N
            /\ v # Root
        BY ONLY <2>0, <2>1, <2>2, <2>5, <2>8 DEF Single
      <3> HIDE DEF r
      <3>4. \A d \in Nodes : \A n \in Names : r.entries[d][n] # v
        BY ONLY <2>1, <3>2, <3>3
      <3>5. Put(r, Q, M, v) \in Good(b)
        <4>1. r.kind[v] # "free"
          BY ONLY <2>6, <3>2
        <4> QED
          BY ONLY <2>2, <2>3, <3>1, <3>3, <3>4, <4>1, b \in BOOLEAN, PutKeeps
      <3>6. CASE Q = P /\ M = N
        <4>1. u = r
          BY ONLY <2>0, <2>2, <2>3, <3>2, <3>6, PutTwice DEF r
        <4> QED
          BY ONLY <2>4, <3>1, <4>1
      <3>7. CASE ~(Q = P /\ M = N)
        <4>1. u = Put(r, Q, M, v)
          BY ONLY <2>0, <2>2, <2>3, <3>7, PutTwice DEF r
        <4> QED
          BY ONLY <2>4, <3>5, <4>1
      <3> QED
        BY ONLY <3>6, <3>7
    <2> QED
      BY ONLY <2>7, <2>8, b \in BOOLEAN
  <1> QED
    BY ONLY <1>1, <1>2

-----------------------------------------------------------------------------
(* cp: the objects that are copied, and the nodes that the copies get.      *)

\* Sets of nodes are finite sets of numbers.
LEMMA SomeNodes ==
    ASSUME NEW S \in SUBSET Nodes
    PROVE  /\ IsFiniteSet(S) /\ Cardinality(S) \in Nat /\ S \in SUBSET Nat
  <1>1. MaxNodes \in Nat
    BY NodesAssumption
  <1>2. Nodes \in SUBSET Nat
    BY ONLY <1>1 DEF Nodes
  <1>3. IsFiniteSet(Nodes)
    <2>1. 1 \in Int /\ MaxNodes \in Int
      BY ONLY <1>1
    <2> QED
      BY ONLY <2>1, FS_Interval DEF Nodes
  <1>4. IsFiniteSet(S)
    BY ONLY <1>3, S \in SUBSET Nodes, FS_Subset
  <1> QED
    BY ONLY <1>2, <1>4, S \in SUBSET Nodes, FS_CardinalityType

\* The places of the members of a set are the numbers below its size.
LEMMA PlaceIs ==
    ASSUME NEW S \in SUBSET Nodes
    PROVE  /\ \A x \in S : Place(S, x) \in 0 .. (Cardinality(S) - 1)
           /\ \A x, y \in S : Place(S, x) = Place(S, y) => x = y
  <1> DEFINE Lower(x) == {y \in S : y < x}
  <1>1. S \in SUBSET Nat /\ IsFiniteSet(S) /\ Cardinality(S) \in Nat
    BY SomeNodes
  <1>2. \A T \in SUBSET S : IsFiniteSet(T) /\ Cardinality(T) \in Nat
    BY ONLY <1>1, FS_Subset, FS_CardinalityType
  <1>3. ASSUME NEW A \in SUBSET S, NEW B \in SUBSET A, A # B
        PROVE  Cardinality(B) < Cardinality(A)
    <2>1. IsFiniteSet(A) /\ Cardinality(A) \in Nat /\ Cardinality(B) \in Nat
      BY ONLY <1>2, A \in SUBSET S, B \in SUBSET A
    <2>2. Cardinality(B) <= Cardinality(A) /\ Cardinality(A) # Cardinality(B)
      BY ONLY <2>1, B \in SUBSET A, A # B, FS_Subset
    <2> QED
      BY ONLY <2>1, <2>2
  <1>4. ASSUME NEW x \in S PROVE Cardinality(Lower(x)) \in 0 .. (Cardinality(S) - 1)
    <2>1. x \in Nat
      BY ONLY <1>1, x \in S
    <2>2. Lower(x) \in SUBSET S /\ x \notin Lower(x)
      BY ONLY <2>1
    <2> HIDE DEF Lower
    <2>3. S # Lower(x) /\ S \in SUBSET S
      BY ONLY <2>2, x \in S
    <2>4. Cardinality(Lower(x)) < Cardinality(S)
      BY ONLY <1>3, <2>2, <2>3
    <2>5. Cardinality(Lower(x)) \in Nat
      BY ONLY <1>2, <2>2
    <2> QED
      BY ONLY <1>1, <2>4, <2>5
  <1>5. ASSUME NEW x \in S, NEW y \in S, x < y
        PROVE  Cardinality(Lower(x)) # Cardinality(Lower(y))
    <2>1. x \in Nat /\ y \in Nat /\ \A z \in S : z \in Nat
      BY ONLY <1>1, x \in S, y \in S
    <2>2. /\ Lower(y) \in SUBSET S /\ Lower(x) \in SUBSET Lower(y)
          /\ x \in Lower(y) /\ x \notin Lower(x)
      <3>1. \A z \in S : z < x => z < y
        BY ONLY <1>5, <2>1
      <3>2. ~(x < x)
        BY ONLY <2>1
      <3> QED
        BY ONLY <1>5, <3>1, <3>2, x \in S
    <2> HIDE DEF Lower
    <2>3. Lower(y) # Lower(x)
      BY ONLY <2>2
    <2>4. Cardinality(Lower(x)) < Cardinality(Lower(y))
      BY ONLY <1>3, <2>2, <2>3
    <2>5. Cardinality(Lower(x)) \in Nat /\ Cardinality(Lower(y)) \in Nat
      BY ONLY <1>2, <2>2
    <2> QED
      BY ONLY <2>4, <2>5
  <1>6. \A x, y \in S : x = y \/ x < y \/ y < x
    BY ONLY <1>1
  <1>7. \A x, y \in S : Cardinality(Lower(x)) = Cardinality(Lower(y)) => x = y
    BY ONLY <1>5, <1>6
  <1> QED
    BY ONLY <1>4, <1>7 DEF Place

\* Every place of a set is some member's.
LEMMA PlaceOnto ==
    ASSUME NEW S \in SUBSET Nodes, NEW i \in 0 .. (Cardinality(S) - 1)
    PROVE  \E x \in S : Place(S, x) = i
  <1> DEFINE m == Cardinality(S) - 1
             f == [x \in S |-> Place(S, x)]
  <1>1. /\ \A x \in S : Place(S, x) \in 0 .. m
        /\ \A x, y \in S : Place(S, x) = Place(S, y) => x = y
    BY ONLY S \in SUBSET Nodes, PlaceIs
  <1>2. f \in [S -> 0 .. m]
    BY ONLY <1>1
  <1>3. f \in Injection(S, 0 .. m)
    BY ONLY <1>1, <1>2 DEF Injection, IsInjective
  <1>4. IsFiniteSet(0 .. m) /\ Cardinality(0 .. m) = Cardinality(S)
    <2>1. Cardinality(S) \in Nat
      BY SomeNodes
    <2>2. i \in 0 .. m
      OBVIOUS
    <2>3. 0 \in Int /\ m \in Int /\ ~(0 > m) /\ m - 0 + 1 = Cardinality(S)
      BY ONLY <2>1, <2>2
    <2> QED
      BY ONLY <2>3, FS_Interval
  <1>5. f \in Surjection(S, 0 .. m)
    BY ONLY <1>3, <1>4, FS_Injection
  <1>6. \E x \in S : f[x] = i
    BY ONLY <1>5, i \in 0 .. m DEF Surjection
  <1> QED
    BY ONLY <1>6

\* The member of the one set that has the place of a member of the other.
LEMMA SamePlaceIs ==
    ASSUME NEW S \in SUBSET Nodes, NEW T \in SUBSET Nodes, NEW x \in S,
           Place(S, x) \in 0 .. (Cardinality(T) - 1)
    PROVE  SamePlace(S, T, x) \in T /\ Place(T, SamePlace(S, T, x)) = Place(S, x)
  <1>1. \E y \in T : Place(T, y) = Place(S, x)
    BY PlaceOnto
  <1> QED
    BY ONLY <1>1 DEF SamePlace

\* With room for all, the copies have nodes of their own, and each one knows
\* what it copies.
LEMMA Copies ==
    ASSUME NEW S \in SUBSET Nodes, NEW T \in SUBSET Nodes, Cardinality(T) >= Cardinality(S)
    PROVE  /\ \A x \in S : SamePlace(S, T, x) \in T /\ SamePlace(T, S, SamePlace(S, T, x)) = x
           /\ \A x, y \in S : SamePlace(S, T, x) = SamePlace(S, T, y) => x = y
  <1>1. ASSUME NEW x \in S
        PROVE  SamePlace(S, T, x) \in T /\ SamePlace(T, S, SamePlace(S, T, x)) = x
    <2> DEFINE y == SamePlace(S, T, x)
               z == SamePlace(T, S, y)
    <2>1. Place(S, x) \in 0 .. (Cardinality(S) - 1)
      BY ONLY S \in SUBSET Nodes, x \in S, PlaceIs
    <2>2. Cardinality(S) \in Nat /\ Cardinality(T) \in Nat
      BY SomeNodes
    <2>3. Place(S, x) \in 0 .. (Cardinality(T) - 1)
      BY ONLY <2>1, <2>2, Cardinality(T) >= Cardinality(S)
    <2>4. y \in T /\ Place(T, y) = Place(S, x)
      BY ONLY <2>3, S \in SUBSET Nodes, T \in SUBSET Nodes, x \in S, SamePlaceIs
    <2>5. z \in S /\ Place(S, z) = Place(T, y)
      <3> HIDE DEF y
      <3>1. Place(T, y) \in 0 .. (Cardinality(S) - 1)
        BY ONLY <2>1, <2>4
      <3> QED
        BY ONLY <2>4, <3>1, S \in SUBSET Nodes, T \in SUBSET Nodes, SamePlaceIs
    <2> HIDE DEF y, z
    <2>6. z = x
      BY ONLY <2>4, <2>5, S \in SUBSET Nodes, x \in S, PlaceIs
    <2> QED
      BY ONLY <2>4, <2>6 DEF y, z
  <1>2. ASSUME NEW x \in S, NEW y \in S, SamePlace(S, T, x) = SamePlace(S, T, y)
        PROVE  x = y
    BY ONLY <1>1, <1>2, x \in S, y \in S
  <1> QED
    BY ONLY <1>1, <1>2

\* A tree with the copies in it: at[e] is the copy of e.
IsCopy(u, t, old, at) ==
    /\ u \in Tree
    /\ at \in [old -> Free(t)]
    /\ \A e, f \in old : at[e] = at[f] => e = f
    /\ \A e \in old : u.kind[at[e]] = t.kind[e]
    /\ \A e \in old : \A m \in Names :
          u.entries[at[e]][m] = IF t.entries[e][m] = None THEN None ELSE at[t.entries[e][m]]
    /\ \A d \in Nodes : (\A e \in old : d # at[e]) =>
          u.kind[d] = t.kind[d] /\ u.entries[d] = t.entries[d]

\* deepcopy (filesystem.py, copy_node).
LEMMA CopyIs ==
    ASSUME NEW t \in Tree, NEW n \in Nodes, Cardinality(Free(t)) >= Cardinality(Reach(t, n))
    PROVE  \E at : IsCopy(Copy(t, n), t, Reach(t, n), at) /\ at[n] = CopyOf(t, n)
  <1> DEFINE old == Reach(t, n)
             free == Free(t)
             at0 == [e \in old \cup {None} |-> IF e = None THEN None ELSE SamePlace(old, free, e)]
             new == {at0[e] : e \in old}
             from == [d \in new |-> SamePlace(free, old, d)]
             K == [d \in Nodes |-> IF d \in new THEN t.kind[from[d]] ELSE t.kind[d]]
             E == [d \in Nodes |-> IF d \in new
                                   THEN [m \in Names |-> at0[t.entries[from[d]][m]]]
                                   ELSE t.entries[d]]
             u == Copy(t, n)
             at == [e \in old |-> SamePlace(old, free, e)]
  <1>1. /\ t.kind \in [Nodes -> {"free", "dir", "file", "link"}]
        /\ t.entries \in [Nodes -> [Names -> Nodes \cup {None}]]
        /\ \A d \in Nodes : \A m \in Names : t.entries[d][m] \in Nodes \cup {None}
        /\ None \notin Nodes /\ free \in SUBSET Nodes
    BY ONLY t \in Tree, TreeParts
  <1>2. old \in SUBSET Nodes /\ n \in old /\ Closed(t, old)
    BY ONLY t \in Tree, n \in Nodes, ReachIs DEF ReachSpec
  <1>3. u = [t EXCEPT !.kind = K, !.entries = E]
    BY ONLY t \in Tree DEF Copy, Tree
  <1>4. CopyOf(t, n) = SamePlace(old, free, n)
    BY ONLY DEF CopyOf
  <1>5. Cardinality(free) >= Cardinality(old)
    OBVIOUS
  <1> HIDE DEF old, free, u
  <1>6. /\ \A x \in old : /\ SamePlace(old, free, x) \in free
                          /\ SamePlace(free, old, SamePlace(old, free, x)) = x
        /\ \A x, y \in old : SamePlace(old, free, x) = SamePlace(old, free, y) => x = y
    BY ONLY <1>1, <1>2, <1>5, Copies
  <1>7. /\ at \in [old -> free]
        /\ \A e, f \in old : at[e] = at[f] => e = f
        /\ \A e \in old : at[e] \in free /\ at[e] = SamePlace(old, free, e)
    BY ONLY <1>6
  <1>8. at0[None] = None /\ \A e \in old : e \in Nodes /\ at0[e] = at[e]
    BY ONLY <1>1, <1>2
  <1>9. /\ \A d : d \in new <=> \E e \in old : d = at[e]
        /\ \A e \in old : at[e] \in new
    BY ONLY <1>8
  <1> HIDE DEF at0, at, new
  <1>10. \A e \in old : from[at[e]] = e
    BY ONLY <1>6, <1>7, <1>9
  <1> HIDE DEF from
  <1>11. ASSUME NEW e \in old, NEW m \in Names
         PROVE  /\ t.entries[e][m] \in old \cup {None}
                /\ at0[t.entries[e][m]] = IF t.entries[e][m] = None THEN None ELSE at[t.entries[e][m]]
                /\ at0[t.entries[e][m]] \in Nodes \cup {None}
    <2>1. e \in Nodes
      BY ONLY <1>8, e \in old
    <2>2. t.entries[e][m] = None \/ t.entries[e][m] \in Children(t, e)
      BY ONLY <2>1, t \in Tree, m \in Names, ChildIs
    <2>3. t.entries[e][m] \in old \cup {None}
      BY ONLY <1>2, <2>2, e \in old DEF Closed
    <2>4. \A f \in old : at0[f] \in Nodes /\ f # None
      BY ONLY <1>1, <1>7, <1>8
    <2> QED
      BY ONLY <1>8, <2>3, <2>4
  <1>12. ASSUME NEW d \in Nodes
         PROVE  /\ K[d] \in {"free", "dir", "file", "link"}
                /\ E[d] \in [Names -> Nodes \cup {None}]
    <2>1. CASE d \notin new
      BY ONLY <1>1, <2>1, d \in Nodes
    <2>2. CASE d \in new
      <3>1. PICK e \in old : d = at[e]
        BY ONLY <1>9, <2>2
      <3>2. from[d] = e /\ e \in Nodes
        BY ONLY <1>8, <1>10, <3>1
      <3>3. K[d] = t.kind[e]
        BY ONLY <2>2, <3>2, d \in Nodes
      <3>4. E[d] = [m \in Names |-> at0[t.entries[e][m]]]
        BY ONLY <2>2, <3>2, d \in Nodes
      <3>5. [m \in Names |-> at0[t.entries[e][m]]] \in [Names -> Nodes \cup {None}]
        BY ONLY <1>11, <3>1
      <3>6. t.kind[e] \in {"free", "dir", "file", "link"}
        BY ONLY <1>1, <3>2
      <3> QED
        BY ONLY <3>3, <3>4, <3>5, <3>6
    <2> QED
      BY ONLY <2>1, <2>2
  <1>13. /\ K \in [Nodes -> {"free", "dir", "file", "link"}]
         /\ E \in [Nodes -> [Names -> Nodes \cup {None}]]
    BY ONLY <1>12
  <1>14. ASSUME NEW e \in old
         PROVE  /\ K[at[e]] = t.kind[e]
                /\ \A m \in Names :
                      E[at[e]][m] = IF t.entries[e][m] = None THEN None ELSE at[t.entries[e][m]]
    <2>1. at[e] \in Nodes /\ at[e] \in new /\ from[at[e]] = e
      BY ONLY <1>1, <1>7, <1>9, <1>10, e \in old
    <2>2. K[at[e]] = t.kind[e]
      BY ONLY <2>1
    <2>3. E[at[e]] = [m \in Names |-> at0[t.entries[e][m]]]
      BY ONLY <2>1
    <2> QED
      BY ONLY <1>11, <2>2, <2>3, e \in old
  <1>15. ASSUME NEW d \in Nodes, \A e \in old : d # at[e]
         PROVE  K[d] = t.kind[d] /\ E[d] = t.entries[d]
    BY ONLY <1>9, <1>15, d \in Nodes
  <1> HIDE DEF K, E
  <1>16. u \in Tree /\ u.kind = K /\ u.entries = E
    BY ONLY <1>3, <1>13, t \in Tree DEF Tree
  <1>17. IsCopy(u, t, old, at)
    BY ONLY <1>7, <1>14, <1>15, <1>16 DEF IsCopy, free
  <1>18. at[n] = CopyOf(t, n)
    BY ONLY <1>2, <1>4, <1>7
  <1> QED
    BY ONLY <1>17, <1>18 DEF u, old

\* The tree with the copies is as good as the one without, and nothing that was
\* there has changed.
LEMMA CopyKeeps ==
    ASSUME NEW b \in BOOLEAN, NEW t \in Good(b), NEW old \in SUBSET Nodes, Closed(t, old),
           \A e \in old : t.kind[e] # "free", NEW u, NEW at, IsCopy(u, t, old, at)
    PROVE  /\ u \in Good(b)
           /\ \A d \in Nodes : t.kind[d] # "free" => u.kind[d] = t.kind[d]
           /\ \A e \in old : at[e] \in Nodes /\ at[e] # Root /\ u.kind[at[e]] # "free"
           /\ \A d \in Nodes : \A m \in Names : \A e \in old :
                 u.entries[d][m] = at[e] => \E f \in old : d = at[f] /\ t.entries[f][m] = e
  <1>1. t \in Tree /\ Sound(t) /\ (b => Single(t))
    BY DEF Good
  <1>2. /\ u \in Tree
        /\ \A e, f \in old : at[e] = at[f] => e = f
        /\ \A e \in old : u.kind[at[e]] = t.kind[e]
        /\ \A e \in old : \A m \in Names :
              u.entries[at[e]][m] = IF t.entries[e][m] = None THEN None ELSE at[t.entries[e][m]]
        /\ \A d \in Nodes : (\A e \in old : d # at[e]) =>
              u.kind[d] = t.kind[d] /\ u.entries[d] = t.entries[d]
    BY ONLY IsCopy(u, t, old, at) DEF IsCopy
  <1>3. /\ \A d \in Nodes : \A m \in Names : t.entries[d][m] \in Nodes \cup {None}
        /\ None \notin Nodes /\ Root \in Nodes /\ t.kind[Root] # "free"
    <2>1. t.kind[Root] = "dir"
      BY ONLY <1>1 DEF Sound
    <2>2. "dir" # "free"
      BY ONLY TRUE
    <2>3. /\ \A d \in Nodes : \A m \in Names : t.entries[d][m] \in Nodes \cup {None}
          /\ None \notin Nodes /\ Root \in Nodes
      BY ONLY <1>1, TreeParts
    <2> QED
      BY ONLY <2>1, <2>2, <2>3
  <1>4. \A e \in old : at[e] \in Nodes /\ t.kind[at[e]] = "free" /\ at[e] # None
    BY ONLY <1>3, IsCopy(u, t, old, at) DEF IsCopy, Free
  <1>5. \A d \in Nodes : t.kind[d] # "free" =>
           u.kind[d] = t.kind[d] /\ u.entries[d] = t.entries[d]
    BY ONLY <1>2, <1>4
  <1>6. \A e \in old : at[e] # Root /\ u.kind[at[e]] # "free"
    BY ONLY <1>2, <1>3, <1>4, \A e \in old : t.kind[e] # "free"
  <1>7. ASSUME NEW d \in Nodes, NEW m \in Names, u.entries[d][m] # None
        PROVE  \/ \E f \in old : /\ d = at[f] /\ t.entries[f][m] \in old
                                 /\ t.entries[f][m] # None /\ u.entries[d][m] = at[t.entries[f][m]]
               \/ /\ \A f \in old : d # at[f]
                  /\ u.entries[d][m] = t.entries[d][m] /\ t.entries[d][m] \in Nodes
                  /\ t.kind[t.entries[d][m]] # "free"
    <2>1. CASE \E f \in old : d = at[f]
      <3>1. PICK f \in old : d = at[f]
        BY ONLY <2>1
      <3>2. t.entries[f][m] # None /\ u.entries[d][m] = at[t.entries[f][m]]
        BY ONLY <1>2, <1>7, <3>1, m \in Names
      <3>3. t.entries[f][m] \in Children(t, f)
        <4>1. f \in Nodes
          BY ONLY f \in old, old \in SUBSET Nodes
        <4> QED
          BY ONLY <1>1, <3>2, <4>1, m \in Names, ChildIs
      <3>4. t.entries[f][m] \in old
        BY ONLY <3>3, f \in old, Closed(t, old) DEF Closed
      <3> QED
        BY ONLY <3>1, <3>2, <3>4
    <2>2. CASE ~(\E f \in old : d = at[f])
      <3>1. u.entries[d][m] = t.entries[d][m]
        BY ONLY <1>2, <2>2, d \in Nodes
      <3>2. t.entries[d][m] \in Nodes
        BY ONLY <1>3, <1>7, <3>1, d \in Nodes, m \in Names
      <3>3. t.kind[t.entries[d][m]] # "free"
        BY ONLY <1>1, <1>7, <3>1, d \in Nodes, m \in Names DEF Sound
      <3> QED
        BY ONLY <2>2, <3>1, <3>2, <3>3
    <2> QED
      BY ONLY <2>1, <2>2
  <1>8. Sound(u)
    <2>1. ASSUME NEW d \in Nodes, NEW m \in Names, u.entries[d][m] # None
          PROVE  u.kind[u.entries[d][m]] # "free"
      <3>1. CASE \E f \in old : t.entries[f][m] \in old /\ u.entries[d][m] = at[t.entries[f][m]]
        BY ONLY <1>6, <3>1
      <3>2. CASE /\ u.entries[d][m] = t.entries[d][m] /\ t.entries[d][m] \in Nodes
                 /\ t.kind[t.entries[d][m]] # "free"
        BY ONLY <1>5, <3>2
      <3> QED
        BY ONLY <1>7, <2>1, <3>1, <3>2, d \in Nodes, m \in Names
    <2>2. u.kind[Root] = "dir"
      BY ONLY <1>1, <1>3, <1>5 DEF Sound
    <2> QED
      BY ONLY <1>2, <2>1, <2>2 DEF Sound
  <1>9. ASSUME NEW d \in Nodes, NEW m \in Names, NEW e \in old, u.entries[d][m] = at[e]
        PROVE  \E f \in old : d = at[f] /\ t.entries[f][m] = e
    <2>1. u.entries[d][m] # None /\ t.kind[u.entries[d][m]] = "free"
      BY ONLY <1>4, <1>9, e \in old
    <2>2. PICK f \in old : d = at[f] /\ t.entries[f][m] \in old /\ u.entries[d][m] = at[t.entries[f][m]]
      BY ONLY <1>7, <2>1, d \in Nodes, m \in Names
    <2>3. t.entries[f][m] = e
      BY ONLY <1>2, <1>9, <2>2, e \in old
    <2> QED
      BY ONLY <2>2, <2>3
  <1>10. ASSUME b PROVE Single(u)
    <2>1. /\ \A d, e \in Nodes : \A m, n \in Names :
                t.entries[d][m] # None /\ t.entries[d][m] = t.entries[e][n] => d = e /\ m = n
          /\ \A d \in Nodes : \A n \in Names : t.entries[d][n] # Root
      BY ONLY <1>1, <1>10 DEF Single
    <2>2. ASSUME NEW d \in Nodes, NEW e \in Nodes, NEW m \in Names, NEW n \in Names,
                 u.entries[d][m] # None, u.entries[d][m] = u.entries[e][n]
          PROVE  d = e /\ m = n
      <3>0. u.entries[e][n] # None
        BY ONLY <2>2
      <3>1. CASE \E f \in old : /\ d = at[f] /\ t.entries[f][m] \in old
                                /\ t.entries[f][m] # None /\ u.entries[d][m] = at[t.entries[f][m]]
        <4>1. PICK f \in old : /\ d = at[f] /\ t.entries[f][m] \in old
                               /\ t.entries[f][m] # None /\ u.entries[d][m] = at[t.entries[f][m]]
          BY ONLY <3>1
        <4>2. u.entries[e][n] = at[t.entries[f][m]]
          BY ONLY <2>2, <4>1
        <4>3. PICK g \in old : e = at[g] /\ t.entries[g][n] = t.entries[f][m]
          BY ONLY <1>9, <4>1, <4>2, e \in Nodes, n \in Names
        <4>4. f \in Nodes /\ g \in Nodes
          BY ONLY f \in old, g \in old, old \in SUBSET Nodes
        <4>5. f = g /\ m = n
          BY ONLY <2>1, <4>1, <4>3, <4>4, m \in Names, n \in Names
        <4> QED
          BY ONLY <4>1, <4>3, <4>5
      <3>2. CASE /\ \A f \in old : d # at[f]
                 /\ u.entries[d][m] = t.entries[d][m] /\ t.entries[d][m] \in Nodes
                 /\ t.kind[t.entries[d][m]] # "free"
        <4>1. \A f \in old : u.entries[e][n] # at[f]
          BY ONLY <1>4, <2>2, <3>2
        <4>2. u.entries[e][n] = t.entries[e][n]
          BY ONLY <1>7, <3>0, <4>1, e \in Nodes, n \in Names
        <4>3. t.entries[d][m] # None /\ t.entries[d][m] = t.entries[e][n]
          BY ONLY <2>2, <3>2, <4>2
        <4> QED
          BY ONLY <2>1, <4>3, d \in Nodes, e \in Nodes, m \in Names, n \in Names
      <3> QED
        BY ONLY <1>7, <2>2, <3>1, <3>2, d \in Nodes, m \in Names
    <2>3. ASSUME NEW d \in Nodes, NEW n \in Names PROVE u.entries[d][n] # Root
      <3>1. Root # None
        BY ONLY <1>3
      <3> QED
        BY ONLY <1>6, <1>7, <2>1, <3>1, d \in Nodes, n \in Names
    <2> QED
      BY ONLY <2>2, <2>3 DEF Single
  <1>11. u \in Good(b)
    BY ONLY <1>2, <1>8, <1>10 DEF Good
  <1> QED
    BY ONLY <1>4, <1>5, <1>6, <1>9, <1>11

\* An object that the root reaches is in nothing it reaches itself, as long as
\* no object has two entries.
LEMMA NoCycle ==
    ASSUME NEW t \in Tree, Single(t), NEW n \in Reach(t, Root), NEW e \in Reach(t, n)
    PROVE  n \notin Children(t, e)
  <1> DEFINE S == Reach(t, n)
             A == Reach(t, Root)
  <1>0. Root \in Nodes
    BY ONLY t \in Tree, TreeParts
  <1>1. ReachSpec(t, Root, A)
    BY ONLY <1>0, t \in Tree, ReachIs
  <1>2. n \in Nodes
    BY ONLY <1>1, n \in Reach(t, Root) DEF ReachSpec
  <1>3. ReachSpec(t, n, S)
    BY ONLY <1>2, t \in Tree, ReachIs
  <1>4. n \in A /\ e \in S
    OBVIOUS
  <1> HIDE DEF S, A
  <1>5. S \in SUBSET Nodes /\ n \in S /\ Closed(t, S)
    BY ONLY <1>3 DEF ReachSpec
  <1>6. \A x, z \in Nodes : \A y : y \in Children(t, x) /\ y \in Children(t, z) => x = z
    BY ONLY t \in Tree, Single(t), ChildIs DEF Single
  <1>7. \A x \in Nodes : Root \notin Children(t, x)
    BY ONLY t \in Tree, Single(t), ChildIs DEF Single
  <1> SUFFICES ASSUME n \in Children(t, e) PROVE FALSE
    OBVIOUS
  <1>8. e \in Nodes /\ n # Root
    BY ONLY <1>4, <1>5, <1>7, n \in Children(t, e)
  \* What n reaches beyond itself is an entry of something n reaches.
  <1>9. ASSUME NEW y \in S PROVE \E z \in S : y \in Children(t, z)
    <2> DEFINE W == {x \in S : \E z \in S : x \in Children(t, z)}
    <2>1. W \in SUBSET Nodes /\ n \in W
      BY ONLY <1>4, <1>5, n \in Children(t, e)
    <2>2. ASSUME NEW x \in W, NEW c \in Children(t, x) PROVE c \in W
      BY ONLY <1>5, <2>2 DEF Closed
    <2>3. Closed(t, W)
      BY ONLY <2>2 DEF Closed
    <2>4. S \subseteq W
      <3> HIDE DEF W
      <3> QED
        BY ONLY <1>3, <2>1, <2>3 DEF ReachSpec
    <2> QED
      BY ONLY <2>4, y \in S
  <1> DEFINE T == Nodes \ S
  <1>10. Root \notin S
    BY ONLY <1>5, <1>7, <1>9
  <1>11. Closed(t, T)
    <2>1. ASSUME NEW x \in T, NEW y \in Children(t, x) PROVE y \in T
      <3>1. x \in Nodes /\ x \notin S
        BY ONLY <2>1
      <3>2. y \in Nodes
        BY ONLY <3>1, t \in Tree, y \in Children(t, x), ChildIs
      <3>3. ASSUME y \in S PROVE FALSE
        <4>1. PICK z \in S : y \in Children(t, z)
          BY ONLY <1>9, <3>3
        <4>2. z \in Nodes
          BY ONLY <1>5, <4>1
        <4>3. x = z
          BY ONLY <1>6, <3>1, <4>1, <4>2, y \in Children(t, x)
        <4> QED
          BY ONLY <3>1, <4>1, <4>3
      <3> QED
        BY ONLY <3>2, <3>3
    <2> QED
      BY ONLY <2>1 DEF Closed
  <1>12. T \in SUBSET Nodes /\ Root \in T /\ n \notin T
    BY ONLY <1>0, <1>5, <1>10
  <1> HIDE DEF T
  <1>13. A \subseteq T
    BY ONLY <1>1, <1>11, <1>12 DEF ReachSpec
  <1> QED
    BY ONLY <1>4, <1>12, <1>13

\* cp: the copy has one entry, and nothing it holds is the original's.
LEMMA CopyNodeKeeps ==
    ASSUME NEW b \in BOOLEAN, NEW t \in Good(b), NEW src \in Path, NEW dst \in Path,
           LookupPath(t, src) # None =>
              Cardinality(Free(t)) >= Cardinality(Reach(t, LookupPath(t, src)))
    PROVE  CopyNode(t, src, dst) \in Good(b)
  <1> DEFINE n == LookupPath(t, src)
             Q == DstDir(t, dst)
             M == DstName(t, src, dst)
             old == Reach(t, n)
             u == Copy(t, n)
             v == CopyOf(t, n)
  <1>1. CASE ~CanCopy(t, src, dst)
    BY ONLY <1>1, t \in Good(b) DEF CopyNode
  <1>2. CASE CanCopy(t, src, dst)
    <2>0. t \in Tree /\ Sound(t) /\ (b => Single(t))
      BY ONLY t \in Good(b) DEF Good
    <2>1. n # None /\ IsDir(t, Q)
      BY ONLY <1>2 DEF CanCopy
    <2>2. n \in Reach(t, Root) /\ n \in Nodes
      BY <2>0, <2>1, PathIs
    <2>3. Q \in Nodes /\ M \in Names /\ t.kind[Q] # "free"
      <3>1. /\ LookupPath(t, dst) \in Nodes \cup {None} /\ ParentOf(t, dst) \in Nodes \cup {None}
            /\ NameOf(t, dst) \in Names /\ NameOf(t, src) \in Names
        BY <2>0, PathIs
      <3> QED
        BY <2>0, <2>1, <3>1, TreeParts DEF DstDir, DstName
    <2>4. CopyNode(t, src, dst) = Put(u, Q, M, v)
      BY ONLY <1>2 DEF CopyNode, Put
    <2>5. Cardinality(Free(t)) >= Cardinality(old)
      BY <2>1
    <2> HIDE DEF n, Q, M
    <2>6. PICK at : IsCopy(u, t, old, at) /\ at[n] = v
      BY ONLY <2>0, <2>2, <2>5, CopyIs
    <2>7. old \in SUBSET Nodes /\ n \in old /\ Closed(t, old)
      BY ONLY <2>0, <2>2, ReachIs DEF ReachSpec
    <2>8. \A e \in old : t.kind[e] # "free"
      <3>1. Root \in Nodes /\ t.kind[Root] # "free"
        <4>1. Root \in Nodes
          BY ONLY <2>0, TreeParts
        <4> QED
          BY ONLY <2>0, <4>1 DEF Sound
      <3>2. t.kind[n] # "free"
        BY ONLY <2>0, <2>2, <3>1, ReachedIsThere
      <3> QED
        BY ONLY <2>0, <2>2, <3>2, ReachedIsThere
    <2>9. b => \A e \in old : n \notin Children(t, e)
      BY ONLY <2>0, <2>2, NoCycle
    <2> HIDE DEF old, u, v
    <2>10. /\ u \in Good(b)
           /\ \A e \in old : at[e] \in Nodes /\ at[e] # Root /\ u.kind[at[e]] # "free"
           /\ \A d \in Nodes : \A m \in Names : \A e \in old :
                 u.entries[d][m] = at[e] => \E f \in old : d = at[f] /\ t.entries[f][m] = e
      BY ONLY <2>6, <2>7, <2>8, b \in BOOLEAN, t \in Good(b), CopyKeeps
    <2>11. v \in Nodes /\ v # Root /\ u.kind[v] # "free"
      BY ONLY <2>6, <2>7, <2>10
    <2>12. ASSUME b, NEW d \in Nodes, NEW m \in Names PROVE u.entries[d][m] # v
      <3> SUFFICES ASSUME u.entries[d][m] = v PROVE FALSE
        OBVIOUS
      <3>1. PICK f \in old : t.entries[f][m] = n
        BY ONLY <2>6, <2>7, <2>10, u.entries[d][m] = v, d \in Nodes, m \in Names
      <3>2. f \in Nodes
        BY ONLY <2>7, <3>1
      <3>3. n \in Children(t, f)
        BY ONLY <2>0, <2>1, <3>1, <3>2, m \in Names, ChildIs
      <3> QED
        BY ONLY <2>9, <2>12, <3>1, <3>3
    <2>13. Put(u, Q, M, v) \in Good(b)
      <3>1. v \in Nodes \cup {None} /\ (v # None => u.kind[v] # "free")
        BY ONLY <2>11
      <3>2. b /\ v # None => v # Root /\ \A d \in Nodes : \A m \in Names :
                                           u.entries[d][m] = v => d = Q /\ m = M
        BY ONLY <2>11, <2>12
      <3> QED
        BY ONLY <2>3, <2>10, <3>1, <3>2, b \in BOOLEAN, PutKeeps
    <2> QED
      BY ONLY <2>4, <2>13
  <1> QED
    BY ONLY <1>1, <1>2

-----------------------------------------------------------------------------
(* dispatch (commands.py).                                                  *)

\* What the root reaches: a closed set of objects that are there.
LEMMA RootReach ==
    ASSUME NEW t \in Tree
    PROVE  /\ ReachSpec(t, Root, Reach(t, Root)) /\ Root \in Nodes
           /\ Reach(t, Root) \in SUBSET Nodes /\ Root \in Reach(t, Root) /\ Closed(t, Reach(t, Root))
           /\ Sound(t) => \A x \in Reach(t, Root) : t.kind[x] # "free"
  <1>1. Root \in Nodes
    BY ONLY t \in Tree, TreeParts
  <1>2. ReachSpec(t, Root, Reach(t, Root))
    BY ONLY <1>1, t \in Tree, ReachIs
  <1>3. Reach(t, Root) \in SUBSET Nodes /\ Root \in Reach(t, Root) /\ Closed(t, Reach(t, Root))
    BY ONLY <1>2 DEF ReachSpec
  <1>4. ASSUME Sound(t), NEW x \in Reach(t, Root) PROVE t.kind[x] # "free"
    <2>1. t.kind[Root] # "free"
      BY ONLY <1>4 DEF Sound
    <2> QED
      BY ONLY <1>1, <1>4, <2>1, x \in Reach(t, Root), ReachedIsThere
  <1> QED
    BY ONLY <1>1, <1>2, <1>3, <1>4

\* A node that is free has no entries.
Clean(t) == \A d \in Nodes : t.kind[d] = "free" => \A m \in Names : t.entries[d][m] = None

\* Collecting what is not reached leaves the free nodes without entries.
LEMMA CollectClean ==
    ASSUME NEW t, Sound(t)
    PROVE  Clean(Collect(t))
  <1> DEFINE S == Reach(t, Root)
             K == [d \in Nodes |-> IF d \in S THEN t.kind[d] ELSE "free"]
             E == [d \in Nodes |-> IF d \in S THEN t.entries[d] ELSE NoEntries]
             u == Collect(t)
  <1>1. t \in Tree
    BY ONLY Sound(t) DEF Sound
  <1>2. \A x \in S : t.kind[x] # "free"
    BY ONLY <1>1, Sound(t), RootReach
  <1>3. u = [t EXCEPT !.kind = K, !.entries = E]
    BY ONLY <1>1 DEF Collect, Tree
  <1>4. u.kind = K /\ u.entries = E
    BY ONLY <1>1, <1>3 DEF Tree
  <1> HIDE DEF S, u
  <1>5. \A m \in Names : NoEntries[m] = None
    BY ONLY DEF NoEntries
  <1>6. ASSUME NEW d \in Nodes, K[d] = "free", NEW m \in Names PROVE E[d][m] = None
    <2>1. d \notin S
      BY ONLY <1>2, <1>6, d \in Nodes
    <2>2. E[d] = NoEntries
      BY ONLY <2>1, d \in Nodes
    <2> QED
      BY ONLY <1>5, <2>2, m \in Names
  <1> HIDE DEF K, E
  <1> QED
    BY ONLY <1>4, <1>6 DEF Clean, u

\* What a command may leave.
Statuses == {0, 1, 2, 127}

Fine(r, b) == r.fs \in Good(b) /\ Clean(r.fs) /\ r.status \in Statuses /\ r.exit \in BOOLEAN

\* The result of a command that leaves a good tree.
LEMMA ResultFine ==
    ASSUME NEW b \in BOOLEAN, NEW t \in Good(b), NEW st \in Statuses
    PROVE  Fine(Result(t, st), b)
  <1>1. Collect(t) \in Good(b)
    BY CollectKeeps
  <1>2. Clean(Collect(t))
    BY CollectClean DEF Good
  <1>3. Result(t, st).fs = Collect(t) /\ Result(t, st).status = st /\ Result(t, st).exit = FALSE
    BY ONLY DEF Result
  <1> QED
    BY ONLY <1>1, <1>2, <1>3, st \in Statuses DEF Fine

\* The operands of a command.
LEMMA Operands ==
    ASSUME NEW c \in Symbol
    PROVE  /\ c.args \in Seq(Path) /\ Len(c.args) \in Nat /\ DOMAIN c.args = 1 .. Len(c.args)
           /\ \A i \in 1 .. Len(c.args) : c.args[i] \in Path
           /\ c.args # << >> => c.args[1] \in Path
           /\ ~(Len(c.args) < 2) => c.args[1] \in Path /\ c.args[2] \in Path
  <1>1. c.args \in Seq(Path)
    BY DEF Symbol
  <1>2. /\ Len(c.args) \in Nat /\ DOMAIN c.args = 1 .. Len(c.args)
        /\ \A i \in 1 .. Len(c.args) : c.args[i] \in Path
    BY ONLY <1>1, LenProperties, ElementOfSeq
  <1>3. c.args # << >> => Len(c.args) # 0
    BY ONLY <1>1, EmptySeq
  <1>4. /\ Len(c.args) # 0 => 1 \in 1 .. Len(c.args)
        /\ ~(Len(c.args) < 2) => 1 \in 1 .. Len(c.args) /\ 2 \in 1 .. Len(c.args)
    BY ONLY <1>2
  <1> QED
    BY ONLY <1>1, <1>2, <1>3, <1>4

\* The commands that work through their operands.
LEMMA FoldsKeep ==
    ASSUME NEW b \in BOOLEAN, fs \in Good(b), NEW c \in Symbol
    PROVE  /\ MakeDirs(fs, c.args) \in Good(b)
           /\ TouchAll(fs, c.args) \in Good(b)
           /\ RemoveAll(fs, c.args) \in Good(b)
  <1> DEFINE X == Good(b)
             n == Len(c.args)
             w == c.args
  <1>1. n \in Nat /\ DOMAIN w = 1 .. n /\ \A i \in 1 .. n : w[i] \in Path
    BY ONLY c \in Symbol, Operands
  <1>2. \A x \in X : \A m \in 1 .. n : MakeDir(x, w[m]) \in X
    BY ONLY <1>1, b \in BOOLEAN, MakeDirKeeps
  <1>3. \A x \in X : \A m \in 1 .. n : TouchOne(x, w[m]) \in X
    BY ONLY <1>1, b \in BOOLEAN, WriteFileKeeps DEF TouchOne
  <1>4. \A x \in X : \A m \in 1 .. n : RemoveEntry(x, w[m]) \in X
    BY ONLY <1>1, b \in BOOLEAN, RemoveEntryKeeps
  <1>5. fs \in X
    OBVIOUS
  <1> HIDE DEF X, n, w
  <1>6. MakeDirs(fs, w) \in X
    BY ONLY <1>1, <1>2, <1>5, MakeDirFold
  <1>7. TouchAll(fs, w) \in X
    BY ONLY <1>1, <1>3, <1>5, TouchFold
  <1>8. RemoveAll(fs, w) \in X
    BY ONLY <1>1, <1>4, <1>5, RemoveFold
  <1> QED
    BY ONLY <1>6, <1>7, <1>8 DEF X, w

\* A command changes the tree the way the methods of the file system do.
LEMMA DispatchFine ==
    ASSUME NEW b \in BOOLEAN, fs \in Good(b), NEW c \in Symbol, HasRoom(c),
           b /\ c.name = "mv" /\ Len(c.args) >= 2 => NameOf(fs, c.args[1]) # "root"
    PROVE  Fine(Dispatch(c), b)
  <1>0. 0 \in Statuses /\ 1 \in Statuses /\ 2 \in Statuses /\ 127 \in Statuses
    BY ONLY DEF Statuses
  <1>1. \A st \in Statuses : Fine(Result(fs, st), b)
    BY ONLY b \in BOOLEAN, fs \in Good(b), ResultFine
  <1>2. Fine(Done, b)
    BY ONLY <1>0, <1>1 DEF Done
  <1>3. \A t \in Good(b) : Fine(Result(t, 0), b)
    BY ONLY <1>0, b \in BOOLEAN, ResultFine
  <1>4. /\ c.args # << >> => c.args[1] \in Path
        /\ ~(Len(c.args) < 2) => c.args[1] \in Path /\ c.args[2] \in Path
        /\ Len(c.args) \in Nat
    BY ONLY c \in Symbol, Operands
  <1>5. Fine(Download(c), b)
    <2> DEFINE asked == [Done EXCEPT !.download = c.url = "good" \/ c.name = "tftp",
                                     !.raised = c.url = "malformed"]
    <2>1. asked.fs = Done.fs /\ asked.status = Done.status /\ asked.exit = Done.exit
      BY ONLY DEF Done, Result
    <2>2. Fine(asked, b)
      BY ONLY <1>2, <2>1 DEF Fine
    <2>3. Download(c) = Result(fs, 1) \/ Download(c) = asked
      BY ONLY DEF Download
    <2> QED
      BY ONLY <1>0, <1>1, <2>2, <2>3
  <1>6. Fine(Cd(c), b)
    <2> DEFINE path == IF c.args = << >> THEN [abs |-> TRUE, parts |-> <<"root">>] ELSE c.args[1]
               st == IF IsDir(fs, LookupPath(fs, path)) THEN 0 ELSE 1
    <2>1. [abs |-> TRUE, parts |-> <<"root">>] \in Path
      <3>1. "root" \in Names \cup {".."}
        BY ONLY NamesAssumption
      <3>2. <<"root">> \in Seq(Names \cup {".."})
        BY ONLY <3>1
      <3> QED
        BY ONLY <3>2 DEF Path
    <2>2. path \in Path
      BY ONLY <1>4, <2>1
    <2>3. Cd(c) = Result(Chdir(fs, path), st)
      BY ONLY DEF Cd
    <2>4. st \in Statuses
      BY ONLY <1>0
    <2> HIDE DEF path, st
    <2>5. Chdir(fs, path) \in Good(b)
      BY ONLY <2>2, b \in BOOLEAN, fs \in Good(b), ChdirKeeps
    <2>6. Fine(Result(Chdir(fs, path), st), b)
      BY ONLY <2>4, <2>5, b \in BOOLEAN, ResultFine
    <2> QED
      BY ONLY <2>3, <2>6
  <1>7. Fine(Ls(c), b)
    BY ONLY <1>0, <1>1 DEF Ls
  <1>8. Fine(Cat(c), b)
    BY ONLY <1>0, <1>1 DEF Cat
  <1>9. Fine(Echo(c), b)
    <2>1. c.args # << >> => WriteFile(fs, c.args[1]) \in Good(b)
      BY ONLY <1>4, b \in BOOLEAN, fs \in Good(b), WriteFileKeeps
    <2> QED
      BY ONLY <1>2, <1>3, <2>1 DEF Echo
  <1>10. Fine(Mkdir(c), b) /\ Fine(Touch(c), b) /\ Fine(Rm(c), b)
    <2>1. /\ Mkdir(c) = Result(MakeDirs(fs, c.args), 0)
          /\ Touch(c) = Result(TouchAll(fs, c.args), 0)
          /\ Rm(c) = Result(RemoveAll(fs, c.args), 0)
      BY ONLY DEF Mkdir, Touch, Rm, MakeDirs, TouchAll, RemoveAll
    <2>2. /\ MakeDirs(fs, c.args) \in Good(b)
          /\ TouchAll(fs, c.args) \in Good(b)
          /\ RemoveAll(fs, c.args) \in Good(b)
      BY ONLY b \in BOOLEAN, fs \in Good(b), c \in Symbol, FoldsKeep
    <2> QED
      BY ONLY <1>3, <2>1, <2>2
  <1>11. ASSUME c.name = "cp" PROVE Fine(Cp(c), b)
    <2>1. CASE Len(c.args) < 2
      BY ONLY <1>2, <2>1 DEF Cp
    <2>2. CASE ~(Len(c.args) < 2)
      <3>1. c.args[1] \in Path /\ c.args[2] \in Path /\ Len(c.args) >= 2
        BY ONLY <1>4, <2>2
      <3>2. LookupPath(fs, c.args[1]) # None =>
               Cardinality(Free(fs)) >= Cardinality(Reach(fs, LookupPath(fs, c.args[1])))
        BY ONLY <1>11, <3>1, HasRoom(c) DEF HasRoom
      <3>3. CopyNode(fs, c.args[1], c.args[2]) \in Good(b)
        BY ONLY <3>1, <3>2, b \in BOOLEAN, fs \in Good(b), CopyNodeKeeps
      <3> QED
        BY ONLY <1>3, <2>2, <3>3 DEF Cp
    <2> QED
      BY ONLY <2>1, <2>2
  <1>12. ASSUME c.name = "mv" PROVE Fine(Mv(c), b)
    <2>1. CASE Len(c.args) < 2
      BY ONLY <1>2, <2>1 DEF Mv
    <2>2. CASE ~(Len(c.args) < 2)
      <3> DEFINE t == MoveNode(fs, c.args[1], c.args[2])
                 r == [Result(t, 0) EXCEPT !.raised = MoveRaises(fs, c.args[1], c.args[2])]
      <3>1. c.args[1] \in Path /\ c.args[2] \in Path /\ Len(c.args) >= 2
        BY ONLY <1>4, <2>2
      <3>2. b => NameOf(fs, c.args[1]) # "root"
        BY <1>12, <3>1
      <3>3. t \in Good(b)
        BY ONLY <3>1, <3>2, b \in BOOLEAN, fs \in Good(b), MoveNodeKeeps
      <3>4. Fine(Result(t, 0), b)
        BY ONLY <1>3, <3>3
      <3>5. Mv(c) = r
        BY ONLY <2>2 DEF Mv
      <3>6. r.fs = Result(t, 0).fs /\ r.status = Result(t, 0).status /\ r.exit = Result(t, 0).exit
        BY ONLY DEF Result
      <3> QED
        BY ONLY <3>4, <3>5, <3>6 DEF Fine
    <2> QED
      BY ONLY <2>1, <2>2
  <1>13. Fine([Done EXCEPT !.exit = TRUE], b)
    <2>1. /\ [Done EXCEPT !.exit = TRUE].fs = Done.fs
          /\ [Done EXCEPT !.exit = TRUE].status = Done.status
          /\ [Done EXCEPT !.exit = TRUE].exit = TRUE
      BY ONLY DEF Done, Result
    <2> QED
      BY ONLY <1>2, <2>1 DEF Fine
  <1>14. Fine(Result(fs, 1), b) /\ Fine(Result(fs, 127), b)
    BY ONLY <1>0, <1>1
  <1> HIDE DEF Fine, Done
  <1> QED
    BY ONLY <1>2, <1>5, <1>6, <1>7, <1>8, <1>9, <1>10, <1>11, <1>12, <1>13, <1>14 DEF Dispatch

-----------------------------------------------------------------------------
(* What a change of the tree loses.                                         *)

\* The objects that were reached and are no more.
Gone(t, u) == Reach(t, Root) \ Reach(u, Root)

\* All below an entry that holds w.
Under(t, w) == IF w = None THEN {} ELSE Reach(t, w)

\* It is closed: what one of its objects holds is in it.
LEMMA UnderIs ==
    ASSUME NEW t \in Tree, NEW w \in Nodes \cup {None}
    PROVE  /\ Under(t, w) \in SUBSET Nodes /\ Closed(t, Under(t, w))
           /\ w # None => w \in Under(t, w)
  <1>1. CASE w = None
    BY ONLY <1>1 DEF Under, Closed
  <1>2. CASE w # None
    <2>1. w \in Nodes
      BY ONLY <1>2, w \in Nodes \cup {None}
    <2>2. Reach(t, w) \in SUBSET Nodes /\ w \in Reach(t, w) /\ Closed(t, Reach(t, w))
      BY ONLY <2>1, t \in Tree, ReachIs DEF ReachSpec
    <2>3. Under(t, w) = Reach(t, w)
      BY ONLY <1>2 DEF Under
    <2> QED
      BY ONLY <2>2, <2>3
  <1> QED
    BY ONLY <1>1, <1>2

\* An entry that is reached leads to what is reached.
LEMMA Follow ==
    ASSUME NEW t \in Tree, NEW S \in SUBSET Nodes, Closed(t, S), NEW d \in S, NEW m \in Names,
           t.entries[d][m] # None
    PROVE  t.entries[d][m] \in S
  <1>1. d \in Nodes
    BY ONLY d \in S, S \in SUBSET Nodes
  <1>2. t.entries[d][m] \in Children(t, d)
    BY ONLY <1>1, t \in Tree, m \in Names, t.entries[d][m] # None, ChildIs
  <1> QED
    BY ONLY <1>2, d \in S, Closed(t, S) DEF Closed

\* Every entry of an object that is still reached leads to something that is
\* still reached, or that is known to be lost.
Accounts(t, u, U) ==
    \A d \in Reach(u, Root) : \A m \in Names :
       t.kind[d] # "free" /\ t.entries[d][m] # None =>
          t.entries[d][m] \in U \/ t.entries[d][m] \in Reach(u, Root)

\* A tree that accounts for the entries of another has lost nothing else.
LEMMA Lost ==
    ASSUME NEW t, Sound(t), NEW u \in Tree, NEW U \in SUBSET Nodes, Closed(t, U), Accounts(t, u, U)
    PROVE  Gone(t, u) \subseteq U
  <1> DEFINE R == Reach(u, Root)
             T == {x \in R \cup U : t.kind[x] # "free"}
  <1>1. t \in Tree /\ t.kind[Root] # "free"
    BY ONLY Sound(t) DEF Sound
  <1>2. ReachSpec(t, Root, Reach(t, Root))
    BY ONLY <1>1, RootReach
  <1>3. R \in SUBSET Nodes /\ Root \in R
    BY ONLY u \in Tree, RootReach
  <1>4. \A d \in R : \A m \in Names :
           t.kind[d] # "free" /\ t.entries[d][m] # None => t.entries[d][m] \in U \/ t.entries[d][m] \in R
    BY ONLY Accounts(t, u, U) DEF Accounts
  <1>5. Gone(t, u) = Reach(t, Root) \ R
    BY ONLY DEF Gone
  <1> HIDE DEF R
  <1>6. T \in SUBSET Nodes /\ Root \in T
    BY ONLY <1>1, <1>3, U \in SUBSET Nodes
  <1>7. ASSUME NEW x \in T, NEW y \in Children(t, x) PROVE y \in T
    <2>1. x \in Nodes /\ t.kind[x] # "free" /\ (x \in R \/ x \in U)
      BY ONLY <1>6, <1>7
    <2>2. PICK m \in Names : t.entries[x][m] = y /\ y # None
      BY ONLY <1>1, <2>1, y \in Children(t, x), ChildIs
    <2>3. t.kind[y] # "free"
      BY ONLY <2>1, <2>2, Sound(t) DEF Sound
    <2>4. y \in U \/ y \in R
      <3>1. CASE x \in R
        BY ONLY <1>4, <2>1, <2>2, <3>1
      <3>2. CASE x \in U
        BY ONLY <3>2, y \in Children(t, x), Closed(t, U) DEF Closed
      <3> QED
        BY ONLY <2>1, <3>1, <3>2
    <2> QED
      BY ONLY <2>3, <2>4
  <1>8. Closed(t, T)
    BY ONLY <1>7 DEF Closed
  <1>9. Reach(t, Root) \subseteq T
    <2> HIDE DEF T
    <2> QED
      BY ONLY <1>2, <1>6, <1>8 DEF ReachSpec
  <1> QED
    BY ONLY <1>5, <1>9

\* One tree is another with one entry set, as far as the objects go that the
\* other has.
OneSet(t, u, Q, M) ==
    \A d \in Nodes : \A m \in Names :
       t.kind[d] # "free" /\ ~(d = Q /\ m = M) => u.entries[d][m] = t.entries[d][m]

\* A tree with one entry set has lost at the most what that entry held.
LEMMA OneSetLoses ==
    ASSUME NEW t, Sound(t), NEW u \in Tree, NEW Q \in Nodes, NEW M \in Names, OneSet(t, u, Q, M)
    PROVE  Gone(t, u) \subseteq Under(t, t.entries[Q][M])
  <1> DEFINE w == t.entries[Q][M]
             R == Reach(u, Root)
  <1>1. t \in Tree
    BY ONLY Sound(t) DEF Sound
  <1>2. w \in Nodes \cup {None}
    BY ONLY <1>1, Q \in Nodes, M \in Names, TreeParts
  <1>3. /\ Under(t, w) \in SUBSET Nodes /\ Closed(t, Under(t, w))
        /\ w # None => w \in Under(t, w)
    BY ONLY <1>1, <1>2, UnderIs
  <1>4. R \in SUBSET Nodes /\ Closed(u, R)
    BY ONLY u \in Tree, RootReach
  <1>5. ASSUME NEW d \in R, NEW m \in Names, t.kind[d] # "free", t.entries[d][m] # None
        PROVE  t.entries[d][m] \in Under(t, w) \/ t.entries[d][m] \in R
    <2>1. CASE d = Q /\ m = M
      BY ONLY <1>3, <1>5, <2>1
    <2>2. CASE ~(d = Q /\ m = M)
      <3>1. d \in Nodes
        BY ONLY <1>4, d \in R
      <3>2. u.entries[d][m] = t.entries[d][m]
        BY ONLY <1>5, <2>2, <3>1, m \in Names, OneSet(t, u, Q, M) DEF OneSet
      <3>3. u.entries[d][m] # None
        BY ONLY <1>5, <3>2
      <3> HIDE DEF R
      <3>4. u.entries[d][m] \in R
        BY ONLY <1>4, <3>3, u \in Tree, d \in R, m \in Names, Follow
      <3> QED
        BY ONLY <3>2, <3>4
    <2> QED
      BY ONLY <2>1, <2>2
  <1>6. Accounts(t, u, Under(t, w))
    BY ONLY <1>5 DEF Accounts
  <1> HIDE DEF w
  <1>7. Gone(t, u) \subseteq Under(t, w)
    BY ONLY <1>3, <1>6, Sound(t), u \in Tree, Lost
  <1> QED
    BY ONLY <1>7 DEF w

\* Collecting what is not reached loses nothing.
LEMMA CollectLoses ==
    ASSUME NEW t \in Tree
    PROVE  Reach(Collect(t), Root) = Reach(t, Root)
  <1> DEFINE S == Reach(t, Root)
             K == [d \in Nodes |-> IF d \in S THEN t.kind[d] ELSE "free"]
             E == [d \in Nodes |-> IF d \in S THEN t.entries[d] ELSE NoEntries]
             u == Collect(t)
             R == Reach(u, Root)
  <1>1. /\ t.kind \in [Nodes -> {"free", "dir", "file", "link"}]
        /\ t.entries \in [Nodes -> [Names -> Nodes \cup {None}]]
    BY ONLY t \in Tree, TreeParts
  <1>2. ReachSpec(t, Root, S) /\ S \in SUBSET Nodes /\ Root \in S /\ Closed(t, S)
    BY ONLY t \in Tree, RootReach
  <1>3. u = [t EXCEPT !.kind = K, !.entries = E]
    BY ONLY t \in Tree DEF Collect, Tree
  <1> HIDE DEF S
  <1>4. NoEntries \in [Names -> Nodes \cup {None}]
    BY ONLY DEF NoEntries
  <1>5. /\ K \in [Nodes -> {"free", "dir", "file", "link"}]
        /\ E \in [Nodes -> [Names -> Nodes \cup {None}]]
    BY ONLY <1>1, <1>4
  <1>6. \A d \in S : E[d] = t.entries[d]
    BY ONLY <1>2
  <1> HIDE DEF K, E, u
  <1>7. u \in Tree /\ u.entries = E
    BY ONLY <1>3, <1>5, t \in Tree DEF Tree
  <1>8. \A d \in S : Children(u, d) = Children(t, d)
    BY ONLY <1>6, <1>7 DEF Children
  <1>9. ReachSpec(u, Root, R) /\ R \in SUBSET Nodes /\ Root \in R /\ Closed(u, R)
    BY ONLY <1>7, RootReach
  <1> HIDE DEF R
  <1>10. R \subseteq S
    <2>1. Closed(u, S)
      BY ONLY <1>2, <1>8 DEF Closed
    <2> QED
      BY ONLY <1>2, <1>9, <2>1 DEF ReachSpec
  <1>11. S \subseteq R
    <2>1. Closed(t, R)
      BY ONLY <1>8, <1>9, <1>10 DEF Closed
    <2> QED
      BY ONLY <1>2, <1>9, <2>1 DEF ReachSpec
  <1> QED
    BY ONLY <1>10, <1>11 DEF R, S, u

\* cp loses what the entry it sets has held.
LEMMA CopyNodeLoses ==
    ASSUME NEW b \in BOOLEAN, NEW t \in Good(b), NEW src \in Path, NEW dst \in Path,
           LookupPath(t, src) # None =>
              Cardinality(Free(t)) >= Cardinality(Reach(t, LookupPath(t, src)))
    PROVE  Gone(t, CopyNode(t, src, dst)) \subseteq Replaced(t, src, dst)
  <1> DEFINE n == LookupPath(t, src)
             Q == DstDir(t, dst)
             M == DstName(t, src, dst)
             old == Reach(t, n)
             u == Copy(t, n)
             v == CopyOf(t, n)
             y == CopyNode(t, src, dst)
  <1>1. CASE ~CanCopy(t, src, dst)
    <2>1. y = t
      BY ONLY <1>1 DEF CopyNode
    <2> QED
      BY ONLY <2>1 DEF Gone
  <1>2. CASE CanCopy(t, src, dst)
    <2>0. t \in Tree /\ Sound(t)
      BY ONLY t \in Good(b) DEF Good
    <2>1. n # None /\ IsDir(t, Q)
      BY ONLY <1>2 DEF CanCopy
    <2>2. n \in Nodes
      BY <2>0, <2>1, PathIs
    <2>3. Q \in Nodes /\ M \in Names
      <3>1. /\ LookupPath(t, dst) \in Nodes \cup {None} /\ ParentOf(t, dst) \in Nodes \cup {None}
            /\ NameOf(t, dst) \in Names /\ NameOf(t, src) \in Names
        BY <2>0, PathIs
      <3> QED
        BY <2>0, <2>1, <3>1, TreeParts DEF DstDir, DstName
    <2>4. y = Put(u, Q, M, v)
      BY ONLY <1>2 DEF CopyNode, Put
    <2>5. y \in Tree
      <3>1. y \in Good(b)
        BY CopyNodeKeeps
      <3> QED
        BY ONLY <3>1 DEF Good
    <2>6. Cardinality(Free(t)) >= Cardinality(old)
      BY <2>1
    <2>7. Replaced(t, src, dst) = Under(t, t.entries[Q][M])
      BY ONLY <2>1 DEF Replaced, Under
    <2> HIDE DEF n, Q, M, y
    <2>8. PICK at : IsCopy(u, t, old, at) /\ at[n] = v
      BY ONLY <2>0, <2>2, <2>6, CopyIs
    <2>9. n \in old
      BY ONLY <2>0, <2>2, ReachIs DEF ReachSpec
    <2> HIDE DEF old, u, v
    <2>10. /\ u \in Tree /\ at \in [old -> Free(t)]
           /\ \A d \in Nodes : (\A e \in old : d # at[e]) => u.entries[d] = t.entries[d]
      BY ONLY <2>8 DEF IsCopy
    <2>11. \A e \in old : at[e] \in Nodes /\ t.kind[at[e]] = "free"
      BY ONLY <2>10 DEF Free
    <2>12. \A d \in Nodes : t.kind[d] # "free" => u.entries[d] = t.entries[d]
      BY ONLY <2>10, <2>11
    <2>13. IsPut(y, u, Q, M, v)
      <3>1. v \in Nodes \cup {None}
        BY ONLY <2>8, <2>9, <2>11
      <3> QED
        BY ONLY <2>3, <2>4, <2>10, <3>1, PutSpec
    <2>14. OneSet(t, y, Q, M)
      BY ONLY <2>12, <2>13 DEF OneSet, IsPut
    <2>15. Gone(t, y) \subseteq Under(t, t.entries[Q][M])
      BY ONLY <2>0, <2>3, <2>5, <2>14, OneSetLoses
    <2> QED
      BY ONLY <2>7, <2>15 DEF y
  <1> QED
    BY ONLY <1>1, <1>2

\* An object with one entry, and what it reaches: the way in is that entry.
LEMMA WayIn ==
    ASSUME NEW t \in Tree, Single(t), NEW v \in Nodes, NEW x \in Nodes, x \notin Reach(t, v),
           NEW m \in Names, t.entries[x][m] # None, t.entries[x][m] \in Reach(t, v)
    PROVE  t.entries[x][m] = v
  <1> DEFINE S == Reach(t, v)
             W == {y \in S : y = v \/ \E z \in S : y \in Children(t, z)}
             y == t.entries[x][m]
  <1>1. ReachSpec(t, v, S) /\ S \in SUBSET Nodes /\ v \in S /\ Closed(t, S)
    BY ONLY t \in Tree, v \in Nodes, ReachIs DEF ReachSpec
  <1>2. y \in S /\ x \notin S
    OBVIOUS
  <1> HIDE DEF S
  <1>3. W \in SUBSET Nodes /\ v \in W
    BY ONLY <1>1
  <1>4. Closed(t, W)
    <2>1. ASSUME NEW e \in W, NEW c \in Children(t, e) PROVE c \in W
      BY ONLY <1>1, <2>1 DEF Closed
    <2> QED
      BY ONLY <2>1 DEF Closed
  <1>5. S \subseteq W
    <2> HIDE DEF W
    <2> QED
      BY ONLY <1>1, <1>3, <1>4 DEF ReachSpec
  <1>6. ASSUME y # v PROVE FALSE
    <2>1. PICK z \in S : y \in Children(t, z)
      BY ONLY <1>2, <1>5, <1>6
    <2>2. z \in Nodes
      BY ONLY <1>1, <2>1
    <2>3. PICK k \in Names : t.entries[z][k] = y
      BY ONLY <2>1, <2>2, t \in Tree, ChildIs
    <2>4. x = z
      BY ONLY <2>2, <2>3, x \in Nodes, m \in Names, Single(t), t.entries[x][m] # None DEF Single
    <2> QED
      BY ONLY <1>2, <2>1, <2>4
  <1> QED
    BY ONLY <1>6

\* A node moved into what it reaches is lost, with all it reaches.
LEMMA MovedIntoItself ==
    ASSUME NEW t, Sound(t), Single(t), NEW P \in Nodes, NEW N \in Names, NEW Q \in Nodes,
           NEW M \in Names, NEW v \in Nodes, v = t.entries[P][N], v \in Reach(t, Root),
           Q \in Reach(t, v), NEW u \in Tree, u.entries[P][N] = None,
           \A d \in Nodes : \A m \in Names :
              ~(d = P /\ m = N) /\ ~(d = Q /\ m = M) => u.entries[d][m] = t.entries[d][m]
    PROVE  Gone(t, u) = Reach(t, v)
  <1> DEFINE S == Reach(t, v)
             A == Reach(t, Root)
             R == Reach(u, Root)
             T == A \ S
  <1>1. t \in Tree
    BY ONLY Sound(t) DEF Sound
  <1>2. ReachSpec(t, v, S) /\ S \in SUBSET Nodes /\ v \in S /\ Closed(t, S)
    BY ONLY <1>1, v \in Nodes, ReachIs DEF ReachSpec
  <1>3. ReachSpec(t, Root, A) /\ A \in SUBSET Nodes /\ Root \in A /\ Closed(t, A) /\ Root \in Nodes
    BY ONLY <1>1, RootReach
  <1>4. ReachSpec(u, Root, R) /\ R \in SUBSET Nodes /\ Root \in R /\ Closed(u, R)
    BY ONLY u \in Tree, RootReach
  <1>5. Q \in S /\ v \in A /\ Gone(t, u) = A \ R
    BY DEF Gone
  <1>6. S \subseteq A
    BY ONLY <1>2, <1>3, <1>5 DEF ReachSpec
  <1>7. Root \notin S
    <2> DEFINE V == Nodes \ {Root}
    <2>1. v # Root
      BY ONLY v = t.entries[P][N], P \in Nodes, N \in Names, Single(t) DEF Single
    <2>2. V \in SUBSET Nodes /\ v \in V /\ Root \notin V
      BY ONLY <2>1, v \in Nodes
    <2>3. Closed(t, V)
      <3>1. ASSUME NEW x \in V, NEW y \in Children(t, x) PROVE y \in V
        <4>1. y \in Nodes /\ \E m \in Names : t.entries[x][m] = y
          BY ONLY <1>1, <3>1, ChildIs
        <4> QED
          BY ONLY <3>1, <4>1, Single(t) DEF Single
      <3> QED
        BY ONLY <3>1 DEF Closed
    <2> HIDE DEF V
    <2>4. S \subseteq V
      BY ONLY <1>2, <2>2, <2>3 DEF ReachSpec
    <2> QED
      BY ONLY <2>2, <2>4
  <1> HIDE DEF S, A, R
  <1>8. \A d \in Nodes : \A m \in Names : d \notin S /\ t.entries[d][m] # None /\ t.entries[d][m] \in S
           => d = P /\ m = N
    <2>1. ASSUME NEW d \in Nodes, NEW m \in Names, d \notin S, t.entries[d][m] # None,
                 t.entries[d][m] \in S
          PROVE  d = P /\ m = N
      <3>1. t.entries[d][m] = v
        BY ONLY <1>1, <2>1, Single(t), v \in Nodes, d \in Nodes, m \in Names, WayIn DEF S
      <3> QED
        BY ONLY <2>1, <3>1, v = t.entries[P][N], P \in Nodes, N \in Names, d \in Nodes, m \in Names,
                Single(t) DEF Single
    <2> QED
      BY ONLY <2>1
  <1>9. Closed(u, T)
    <2>1. ASSUME NEW x \in T, NEW y \in Children(u, x) PROVE y \in T
      <3>1. x \in A /\ x \notin S /\ x \in Nodes /\ x # Q
        BY ONLY <1>3, <1>5, <2>1
      <3>2. PICK m \in Names : u.entries[x][m] = y /\ y # None
        BY ONLY <3>1, u \in Tree, y \in Children(u, x), ChildIs
      <3>3. ~(x = P /\ m = N)
        BY ONLY <3>2, u.entries[P][N] = None
      <3>4. u.entries[x][m] = t.entries[x][m]
        BY <3>1, <3>3
      <3>5. t.entries[x][m] # None
        BY ONLY <3>2, <3>4
      <3>6. y \in A
        <4>1. t.entries[x][m] \in A
          BY ONLY <1>1, <1>3, <3>1, <3>5, m \in Names, Follow
        <4> QED
          BY ONLY <3>2, <3>4, <4>1
      <3>7. y \notin S
        BY ONLY <1>8, <3>1, <3>2, <3>3, <3>4, <3>5
      <3> QED
        BY ONLY <3>6, <3>7
    <2> QED
      BY ONLY <2>1 DEF Closed
  <1>10. R \subseteq T
    <2>1. T \in SUBSET Nodes /\ Root \in T
      BY ONLY <1>3, <1>7
    <2> HIDE DEF T
    <2> QED
      BY ONLY <1>4, <1>9, <2>1 DEF ReachSpec
  <1>11. S \subseteq Gone(t, u)
    BY ONLY <1>5, <1>6, <1>10
  <1>12. ASSUME NEW d \in R, NEW m \in Names, t.entries[d][m] # None
         PROVE  t.entries[d][m] \in S \/ t.entries[d][m] \in R
    <2>1. d \in Nodes /\ d \notin S /\ d # Q
      BY ONLY <1>4, <1>5, <1>10, d \in R
    <2>2. CASE d = P /\ m = N
      BY ONLY <1>2, <2>2, v = t.entries[P][N]
    <2>3. CASE ~(d = P /\ m = N)
      <3>1. u.entries[d][m] = t.entries[d][m]
        BY <2>1, <2>3
      <3>2. u.entries[d][m] # None
        BY ONLY <1>12, <3>1
      <3>3. u.entries[d][m] \in R
        BY ONLY <1>4, <3>2, u \in Tree, d \in R, m \in Names, Follow
      <3> QED
        BY ONLY <3>1, <3>3
    <2> QED
      BY ONLY <2>2, <2>3
  <1>13. Accounts(t, u, S)
    BY ONLY <1>12 DEF Accounts, R
  <1>14. Gone(t, u) \subseteq S
    BY ONLY <1>2, <1>13, Sound(t), u \in Tree, Lost
  <1> QED
    BY ONLY <1>11, <1>14 DEF S

\* A node moved elsewhere is kept, with all it reaches; only what the new entry
\* has held is lost.
LEMMA MovedElsewhere ==
    ASSUME NEW t, Sound(t), Single(t), NEW P \in Nodes, NEW N \in Names, NEW Q \in Nodes,
           NEW M \in Names, NEW v \in Nodes, v = t.entries[P][N], Q \in Reach(t, Root),
           Q \notin Reach(t, v), NEW u \in Tree,
           \A d \in Nodes : \A m \in Names :
              u.entries[d][m] = IF d = P /\ m = N THEN None
                                ELSE IF d = Q /\ m = M THEN v ELSE t.entries[d][m]
    PROVE  Gone(t, u) \subseteq Under(t, t.entries[Q][M])
  <1> DEFINE w == t.entries[Q][M]
             B == Under(t, w)
             S == Reach(t, v)
             U == B \cup S
             R == Reach(u, Root)
  <1>1. t \in Tree
    BY ONLY Sound(t) DEF Sound
  <1>2. S \in SUBSET Nodes /\ v \in S /\ Closed(t, S)
    BY ONLY <1>1, v \in Nodes, ReachIs DEF ReachSpec
  <1>3. w \in Nodes \cup {None}
    BY ONLY <1>1, Q \in Nodes, M \in Names, TreeParts
  <1>4. B \in SUBSET Nodes /\ Closed(t, B) /\ (w # None => w \in B)
    BY ONLY <1>1, <1>3, UnderIs
  <1>5. R \in SUBSET Nodes /\ Closed(u, R)
    BY ONLY u \in Tree, RootReach
  <1>6. Q \notin S
    OBVIOUS
  <1>7. Q \notin B
    <2>1. CASE w = None
      BY ONLY <2>1 DEF Under
    <2>2. CASE w # None
      <3>1. w \in Children(t, Q)
        BY ONLY <1>1, <2>2, Q \in Nodes, M \in Names, ChildIs
      <3>2. w \in Reach(t, Root)
        BY ONLY <1>1, <3>1, Q \in Reach(t, Root), RootReach DEF Closed
      <3> HIDE DEF w
      <3>3. \A e \in Reach(t, w) : w \notin Children(t, e)
        BY ONLY <1>1, <3>2, Single(t), NoCycle
      <3> QED
        BY ONLY <2>2, <3>1, <3>3 DEF Under
    <2> QED
      BY ONLY <2>1, <2>2
  <1> HIDE DEF B, S, R, w
  <1>8. ASSUME NEW d \in R, NEW m \in Names, t.entries[d][m] # None
        PROVE  \/ t.entries[d][m] \in R
               \/ d = P /\ m = N /\ t.entries[d][m] = v
               \/ t.entries[d][m] \in B
    <2>1. d \in Nodes
      BY ONLY <1>5, d \in R
    <2>2. CASE d = P /\ m = N
      BY ONLY <2>2, v = t.entries[P][N]
    <2>3. CASE d = Q /\ m = M
      BY ONLY <1>4, <1>8, <2>3 DEF w
    <2>4. CASE ~(d = P /\ m = N) /\ ~(d = Q /\ m = M)
      <3>1. u.entries[d][m] = t.entries[d][m]
        BY <2>1, <2>4
      <3>2. u.entries[d][m] # None
        BY ONLY <1>8, <3>1
      <3>3. u.entries[d][m] \in R
        BY ONLY <1>5, <3>2, u \in Tree, d \in R, m \in Names, Follow
      <3> QED
        BY ONLY <3>1, <3>3
    <2> QED
      BY ONLY <2>2, <2>3, <2>4
  <1>9. Gone(t, u) \subseteq U
    <2>1. U \in SUBSET Nodes /\ Closed(t, U)
      BY ONLY <1>2, <1>4 DEF Closed
    <2>2. Accounts(t, u, U)
      BY ONLY <1>2, <1>8 DEF Accounts, R
    <2> HIDE DEF U
    <2> QED
      BY ONLY <2>1, <2>2, Sound(t), u \in Tree, Lost
  <1>10. Q \in R
    BY ONLY <1>6, <1>7, <1>9, Q \in Reach(t, Root) DEF Gone, R
  <1>11. v \in B \/ v \in R
    <2>1. CASE Q = P /\ M = N
      <3>1. w = v /\ w # None
        <4>1. None \notin Nodes
          BY ONLY <1>1, TreeParts
        <4> QED
          BY ONLY <2>1, <4>1, v = t.entries[P][N], v \in Nodes DEF w
      <3> QED
        BY ONLY <1>4, <3>1
    <2>2. CASE ~(Q = P /\ M = N)
      <3>1. u.entries[Q][M] = v
        BY <2>2
      <3>2. u.entries[Q][M] # None
        <4>1. None \notin Nodes
          BY ONLY <1>1, TreeParts
        <4> QED
          BY ONLY <3>1, <4>1, v \in Nodes
      <3>3. u.entries[Q][M] \in R
        BY ONLY <1>5, <1>10, <3>2, u \in Tree, M \in Names, Follow
      <3> QED
        BY ONLY <3>1, <3>3
    <2> QED
      BY ONLY <2>1, <2>2
  <1>12. Accounts(t, u, B)
    BY ONLY <1>8, <1>11 DEF Accounts, R
  <1>13. Gone(t, u) \subseteq B
    BY ONLY <1>4, <1>12, Sound(t), u \in Tree, Lost
  <1> QED
    BY ONLY <1>13 DEF B, w

\* The directory that a path ends in is reached from the root.
LEMMA ParentReached ==
    ASSUME NEW t \in Tree, NEW path \in Path
    PROVE  ParentOf(t, path) \in Reach(t, Root) \cup {None}
  <1> DEFINE p == Resolve(t, path)
  <1>1. p \in Seq(Names) /\ p # << >>
    BY ResolveIs
  <1> HIDE DEF p
  <1>2. Front(p) \in Seq(Names)
    BY ONLY <1>1, FrontLast
  <1>3. Lookup(t, Front(p)) \in Reach(t, Root) \cup {None}
    BY ONLY <1>2, t \in Tree, LookupIs
  <1> QED
    BY ONLY <1>3 DEF ParentOf, p

\* mv loses what the new entry has held, or the node that it moves into itself.
LEMMA MoveNodeLoses ==
    ASSUME NEW t \in Good(TRUE), NEW src \in Path, NEW dst \in Path, NameOf(t, src) # "root"
    PROVE  LET gone == Gone(t, MoveNode(t, src, dst))
           IN  \/ gone \subseteq Replaced(t, src, dst)
               \/ DstDir(t, dst) \in Below(t, src) /\ gone = Below(t, src)
  <1> DEFINE P == ParentOf(t, src)
             N == NameOf(t, src)
             Q == DstDir(t, dst)
             M == DstName(t, src, dst)
             v == LookupPath(t, src)
             x == Put(t, Q, M, v)
             u == Put(x, P, N, None)
             y == MoveNode(t, src, dst)
  <1>1. CASE ~CanMove(t, src, dst)
    <2>1. y = t
      BY ONLY <1>1 DEF MoveNode
    <2> QED
      BY ONLY <2>1 DEF Gone
  <1>2. CASE CanMove(t, src, dst)
    <2>0. t \in Tree /\ Sound(t) /\ Single(t)
      BY ONLY t \in Good(TRUE) DEF Good
    <2>1. v # None /\ IsDir(t, Q) /\ IsDir(t, P)
      BY ONLY <1>2 DEF CanMove, CanCopy
    <2>2. v \in Reach(t, Root) /\ v \in Nodes /\ P \in Nodes /\ N \in Names
      BY <2>0, <2>1, PathIs, TreeParts
    <2>3. Q \in Nodes /\ M \in Names /\ Q \in Reach(t, Root)
      <3>1. /\ LookupPath(t, dst) \in Nodes \cup {None} /\ ParentOf(t, dst) \in Nodes \cup {None}
            /\ LookupPath(t, dst) \in Reach(t, Root) \cup {None}
            /\ NameOf(t, dst) \in Names /\ N \in Names
        BY <2>0, PathIs
      <3>2. ParentOf(t, dst) \in Reach(t, Root) \cup {None}
        BY <2>0, ParentReached
      <3>3. Q # None
        BY ONLY <2>1 DEF IsDir
      <3> QED
        BY ONLY <3>1, <3>2, <3>3 DEF DstDir, DstName
    <2>4. y = u
      BY ONLY <1>2 DEF MoveNode, Placed, Put
    <2>5. v = t.entries[P][N]
      BY <2>0, <2>1, PathIs DEF Enter
    <2>6. Below(t, src) = Reach(t, v) /\ Replaced(t, src, dst) = Under(t, t.entries[Q][M])
      BY ONLY <2>1 DEF Below, Replaced, Under
    <2> HIDE DEF P, N, Q, M, v, y
    <2>7. IsPut(x, t, Q, M, v)
      <3>1. v \in Nodes \cup {None}
        BY ONLY <2>2
      <3> QED
        BY ONLY <2>0, <2>3, <3>1, PutSpec
    <2>8. IsPut(u, x, P, N, None)
      <3>1. x \in Tree /\ None \in Nodes \cup {None}
        BY ONLY <2>7 DEF IsPut
      <3> HIDE DEF x
      <3> QED
        BY ONLY <2>2, <3>1, PutSpec
    <2> HIDE DEF u, x
    <2>9. u \in Tree /\ \A d \in Nodes : \A m \in Names :
             u.entries[d][m] = IF d = P /\ m = N THEN None
                               ELSE IF d = Q /\ m = M THEN v ELSE t.entries[d][m]
      BY ONLY <2>7, <2>8 DEF IsPut
    <2>10. CASE Q \in Reach(t, v)
      <3>1. u.entries[P][N] = None
        BY ONLY <2>2, <2>9
      <3>2. \A d \in Nodes : \A m \in Names :
               ~(d = P /\ m = N) /\ ~(d = Q /\ m = M) => u.entries[d][m] = t.entries[d][m]
        BY ONLY <2>9
      <3>3. Gone(t, u) = Reach(t, v)
        BY ONLY <2>0, <2>2, <2>3, <2>5, <2>9, <2>10, <3>1, <3>2, MovedIntoItself
      <3> QED
        BY ONLY <2>4, <2>6, <2>10, <3>3 DEF y, Q
    <2>11. CASE Q \notin Reach(t, v)
      <3>1. Gone(t, u) \subseteq Under(t, t.entries[Q][M])
        BY ONLY <2>0, <2>2, <2>3, <2>5, <2>9, <2>11, MovedElsewhere
      <3> QED
        BY ONLY <2>4, <2>6, <3>1 DEF y
    <2> QED
      BY ONLY <2>10, <2>11
  <1> QED
    BY ONLY <1>1, <1>2

\* A tree that commands made of another: what was there keeps its kind, and an
\* entry holds what it did, or nothing, or something new.
Later(t, x) ==
    /\ x \in Tree
    /\ x.cwd = t.cwd
    /\ \A d \in Nodes : t.kind[d] # "free" => x.kind[d] = t.kind[d]
    /\ \A d \in Nodes : \A m \in Names :
          \/ x.entries[d][m] = None
          \/ x.entries[d][m] \in Free(t)
          \/ t.kind[d] # "free" /\ x.entries[d][m] = t.entries[d][m]

\* What an object reaches in the later tree it has reached before, or it is new.
LEMMA LaterReach ==
    ASSUME NEW t, Sound(t), NEW x, Later(t, x), NEW d \in Nodes
    PROVE  /\ t.kind[d] = "free" => Reach(x, d) \subseteq Free(t)
           /\ t.kind[d] # "free" => Reach(x, d) \subseteq Free(t) \cup Reach(t, d)
  <1> DEFINE F == Free(t)
             S == Reach(t, d)
             V == F \cup S
             R == Reach(x, d)
  <1>1. t \in Tree /\ x \in Tree
    BY DEF Sound, Later
  <1>2. ReachSpec(x, d, R)
    BY ONLY <1>1, d \in Nodes, ReachIs
  <1>3. S \in SUBSET Nodes /\ d \in S /\ Closed(t, S)
    BY ONLY <1>1, d \in Nodes, ReachIs DEF ReachSpec
  <1>4. F \in SUBSET Nodes /\ \A e \in Nodes : e \in F <=> t.kind[e] = "free"
    BY ONLY DEF Free
  <1>5. \A e \in Nodes : \A m \in Names :
           \/ x.entries[e][m] = None
           \/ x.entries[e][m] \in F
           \/ t.kind[e] # "free" /\ x.entries[e][m] = t.entries[e][m]
    BY ONLY Later(t, x) DEF Later
  <1> HIDE DEF F, S, R
  <1>6. Closed(x, F)
    <2>1. ASSUME NEW e \in F, NEW y \in Children(x, e) PROVE y \in F
      <3>1. e \in Nodes /\ t.kind[e] = "free"
        BY ONLY <1>4, e \in F
      <3>2. PICK m \in Names : x.entries[e][m] = y /\ y # None
        BY ONLY <1>1, <3>1, y \in Children(x, e), ChildIs
      <3> QED
        BY ONLY <1>5, <3>1, <3>2
    <2> QED
      BY ONLY <2>1 DEF Closed
  <1>7. Closed(x, V)
    <2>1. ASSUME NEW e \in V, NEW y \in Children(x, e) PROVE y \in V
      <3>1. e \in Nodes
        BY ONLY <1>3, <1>4, e \in V
      <3>2. PICK m \in Names : x.entries[e][m] = y /\ y # None
        BY ONLY <1>1, <3>1, y \in Children(x, e), ChildIs
      <3>3. CASE y \in F
        BY ONLY <3>3
      <3>4. CASE t.kind[e] # "free" /\ y = t.entries[e][m]
        <4>1. e \in S /\ t.entries[e][m] # None
          BY ONLY <1>4, <3>1, <3>2, <3>4, e \in V
        <4>2. t.entries[e][m] \in S
          BY ONLY <1>1, <1>3, <4>1, m \in Names, Follow
        <4> QED
          BY ONLY <3>4, <4>2
      <3> QED
        BY ONLY <1>5, <3>1, <3>2, <3>3, <3>4
    <2> QED
      BY ONLY <2>1 DEF Closed
  <1>8. V \in SUBSET Nodes /\ d \in V
    BY ONLY <1>3, <1>4
  <1> HIDE DEF V
  <1>9. R \subseteq V
    BY ONLY <1>2, <1>7, <1>8 DEF ReachSpec
  <1>10. t.kind[d] = "free" => R \subseteq F
    BY ONLY <1>2, <1>4, <1>6, d \in Nodes DEF ReachSpec
  <1> QED
    BY ONLY <1>9, <1>10 DEF F, S, V, R

\* A path leads in the later tree where it did before, or to nothing, or to
\* something new.
LEMMA LaterLookup ==
    ASSUME NEW t, Sound(t), NEW x, Later(t, x), NEW p \in Seq(Names)
    PROVE  Lookup(x, p) \in Free(t) \cup {None, Lookup(t, p)}
  <1> DEFINE n == Len(p)
             A == Reach(t, Root) \cup {None}
             B == Reach(x, Root) \cup {None}
  <1>1. t \in Tree /\ x \in Tree
    BY DEF Sound, Later
  <1>2. n \in Nat /\ \A m \in 1 .. n : p[m] \in Names
    BY ONLY p \in Seq(Names), LenProperties, ElementOfSeq
  <1>3. PICK g \in [0 .. n -> B] : LookupTrace(x, p, g, n)
    BY ONLY <1>1, <1>2, p \in Seq(Names), LookupSteps
  <1>4. PICK h \in [0 .. n -> A] : LookupTrace(t, p, h, n)
    BY ONLY <1>1, <1>2, p \in Seq(Names), LookupSteps
  <1>5. A \subseteq Nodes \cup {None} /\ B \subseteq Nodes \cup {None}
    BY ONLY <1>1, RootReach
  <1>6. \A d \in A : d # None => d \in Nodes /\ t.kind[d] # "free"
    BY ONLY <1>1, Sound(t), RootReach
  <1> HIDE DEF A, B
  <1> DEFINE I == {m \in 0 .. n : g[m] \in Free(t) \cup {None, h[m]}}
  <1>7. 0 \in I
    <2>1. 0 \in 0 .. n
      BY ONLY <1>2
    <2>2. g[0] = h[0]
      BY ONLY <1>3, <1>4 DEF LookupTrace
    <2> QED
      BY ONLY <2>1, <2>2
  <1>8. ASSUME NEW m \in 1 .. n, m - 1 \in I PROVE m \in I
    <2>1. m \in 0 .. n /\ m - 1 \in 0 .. n /\ p[m] \in Names
      BY ONLY <1>2, m \in 1 .. n
    <2>2. g[m] = Enter(x, g[m - 1], p[m]) /\ h[m] = Enter(t, h[m - 1], p[m])
      BY ONLY <1>3, <1>4, m \in 1 .. n DEF LookupTrace
    <2>3. g[m - 1] \in Nodes \cup {None} /\ h[m - 1] \in A
      BY ONLY <1>3, <1>4, <1>5, <2>1
    <2>4. g[m - 1] \in Free(t) \cup {None, h[m - 1]}
      BY ONLY <1>8
    <2>5. CASE p[m] = "root"
      <3>1. g[m] = g[m - 1] /\ h[m] = h[m - 1]
        BY ONLY <2>2, <2>5 DEF Enter
      <3> QED
        BY ONLY <2>1, <2>4, <3>1
    <2>6. CASE p[m] # "root" /\ ~IsDir(x, g[m - 1])
      <3>1. g[m] = None
        BY ONLY <2>2, <2>6 DEF Enter
      <3> QED
        BY ONLY <2>1, <3>1
    <2>7. CASE p[m] # "root" /\ IsDir(x, g[m - 1])
      <3>1. g[m] = x.entries[g[m - 1]][p[m]] /\ g[m - 1] \in Nodes
        <4>1. g[m - 1] # None
          BY ONLY <2>7 DEF IsDir
        <4> QED
          BY ONLY <2>2, <2>3, <2>7, <4>1 DEF Enter
      <3>2. \/ g[m] = None \/ g[m] \in Free(t)
            \/ t.kind[g[m - 1]] # "free" /\ g[m] = t.entries[g[m - 1]][p[m]]
        BY ONLY <2>1, <3>1, Later(t, x) DEF Later
      <3>3. CASE t.kind[g[m - 1]] # "free" /\ g[m] = t.entries[g[m - 1]][p[m]]
        <4>1. g[m - 1] = h[m - 1]
          <5>1. g[m - 1] \notin Free(t) /\ g[m - 1] # None
            BY ONLY <2>7, <3>3 DEF Free, IsDir
          <5> QED
            BY ONLY <2>4, <5>1
        <4>2. IsDir(t, h[m - 1])
          <5>1. x.kind[g[m - 1]] = t.kind[g[m - 1]]
            BY ONLY <3>1, <3>3, Later(t, x) DEF Later
          <5> QED
            BY ONLY <2>7, <4>1, <5>1 DEF IsDir
        <4>3. h[m] = t.entries[h[m - 1]][p[m]]
          BY ONLY <2>2, <2>7, <4>2 DEF Enter
        <4> QED
          BY ONLY <2>1, <3>3, <4>1, <4>3
      <3> QED
        BY ONLY <2>1, <3>2, <3>3
    <2> QED
      BY ONLY <2>5, <2>6, <2>7
  <1> HIDE DEF I
  <1>9. n \in I
    <2>1. n \in 0 .. n
      BY ONLY <1>2
    <2>2. \A m \in 0 .. n : m \in I
      BY ONLY <1>2, <1>7, <1>8, Climb
    <2> QED
      BY ONLY <2>1, <2>2
  <1>10. Lookup(x, p) = g[n] /\ Lookup(t, p) = h[n]
    BY ONLY <1>3, <1>4 DEF LookupTrace
  <1> QED
    BY ONLY <1>9, <1>10 DEF I

\* The entry that a path ends in: what it holds in the later tree was below the
\* path before, or is new.
LEMMA WithinPath ==
    ASSUME NEW t, Sound(t), NEW x, Later(t, x), NEW path \in Path, IsDir(x, ParentOf(x, path))
    PROVE  \A y \in Under(x, x.entries[ParentOf(x, path)][NameOf(x, path)]) :
              y \in Free(t) \/ y \in Below(t, path)
  <1> DEFINE P == ParentOf(x, path)
             N == NameOf(x, path)
             w == x.entries[P][N]
             l == LookupPath(x, path)
             k == LookupPath(t, path)
  <1>1. t \in Tree /\ x \in Tree
    BY DEF Sound, Later
  <1>2. P \in Nodes \cup {None} /\ N \in Names /\ l \in Nodes \cup {None} /\ l = Enter(x, P, N)
    BY ONLY <1>1, path \in Path, PathIs
  <1>3. P \in Nodes /\ P # None
    BY ONLY <1>2, IsDir(x, ParentOf(x, path)) DEF IsDir
  <1>4. w \in Nodes \cup {None} /\ None \notin Nodes
    BY ONLY <1>1, <1>2, <1>3, TreeParts
  <1>5. k \in Reach(t, Root) \cup {None} /\ k \in Nodes \cup {None}
    BY ONLY <1>1, path \in Path, PathIs
  <1>6. l \in Free(t) \cup {None, k}
    <2>1. Resolve(x, path) = Resolve(t, path)
      BY ONLY Later(t, x) DEF Resolve, Later
    <2>2. Resolve(t, path) \in Seq(Names)
      BY ONLY <1>1, path \in Path, PathIs
    <2> QED
      BY ONLY <2>1, <2>2, Sound(t), Later(t, x), LaterLookup DEF LookupPath
  <1>7. Under(x, w) \subseteq Under(x, l)
    <2>1. CASE w = None
      BY ONLY <2>1 DEF Under
    <2>2. CASE w # None /\ N # "root"
      <3>1. l = w
        BY ONLY <1>2, <2>2, IsDir(x, ParentOf(x, path)) DEF Enter
      <3> QED
        BY ONLY <3>1
    <2>3. CASE w # None /\ N = "root"
      <3>1. l = P
        BY ONLY <1>2, <2>3 DEF Enter
      <3>2. /\ Under(x, l) \in SUBSET Nodes /\ Closed(x, Under(x, l)) /\ l \in Under(x, l)
        <4>1. l # None
          BY ONLY <1>3, <3>1
        <4> QED
          BY ONLY <1>1, <1>2, <4>1, UnderIs
      <3>3. w \in Under(x, l)
        BY ONLY <1>1, <1>2, <2>3, <3>1, <3>2, Follow
      <3>4. w \in Nodes
        BY ONLY <1>4, <2>3
      <3>5. ReachSpec(x, w, Reach(x, w))
        BY ONLY <1>1, <3>4, ReachIs
      <3>6. Reach(x, w) \subseteq Under(x, l)
        BY ONLY <3>2, <3>3, <3>5 DEF ReachSpec
      <3> QED
        BY ONLY <2>3, <3>6 DEF Under
    <2> QED
      BY ONLY <2>1, <2>2, <2>3
  <1>8. \A y \in Under(x, l) : y \in Free(t) \/ y \in Below(t, path)
    <2>1. CASE l = None
      BY ONLY <2>1 DEF Under
    <2>2. CASE l # None /\ l \in Free(t)
      <3>1. l \in Nodes /\ t.kind[l] = "free"
        BY ONLY <2>2 DEF Free
      <3>2. Reach(x, l) \subseteq Free(t)
        BY ONLY <3>1, Sound(t), Later(t, x), LaterReach
      <3> QED
        BY ONLY <2>2, <3>2 DEF Under
    <2>3. CASE l # None /\ l = k
      <3>1. l \in Nodes /\ t.kind[l] # "free"
        BY ONLY <1>1, <1>2, <1>5, <2>3, Sound(t), RootReach
      <3>2. Reach(x, l) \subseteq Free(t) \cup Reach(t, l)
        BY ONLY <3>1, Sound(t), Later(t, x), LaterReach
      <3>3. Below(t, path) = Reach(t, l)
        BY ONLY <2>3 DEF Below
      <3> QED
        BY ONLY <2>3, <3>2, <3>3 DEF Under
    <2> QED
      BY ONLY <1>6, <2>1, <2>2, <2>3
  <1> QED
    BY ONLY <1>7, <1>8

\* The later trees that have lost nothing but what is in U.
Losing(b, t, U) == {x \in Good(b) : Later(t, x) /\ Gone(t, x) \subseteq U}

\* One more entry that is set, to nothing or to something new.
SetsEntry(x, y, P, N, v) ==
    /\ y.cwd = x.cwd
    /\ \A d \in Nodes : x.kind[d] # "free" => y.kind[d] = x.kind[d]
    /\ \A d \in Nodes : \A m \in Names :
          y.entries[d][m] = IF d = P /\ m = N THEN v ELSE x.entries[d][m]

\* Setting it loses nothing but what is in U, if what it held is in U or new.
LEMMA SetLoses ==
    ASSUME NEW b \in BOOLEAN, NEW t, Sound(t), NEW U, NEW x \in Losing(b, t, U), NEW y \in Good(b),
           NEW P \in Nodes, NEW N \in Names, NEW v, v = None \/ v \in Free(t),
           SetsEntry(x, y, P, N, v),
           \A z \in Under(x, x.entries[P][N]) : z \in Free(t) \/ z \in U
    PROVE  y \in Losing(b, t, U)
  <1>1. x \in Good(b) /\ Later(t, x) /\ Gone(t, x) \subseteq U
    BY ONLY x \in Losing(b, t, U) DEF Losing
  <1>2. x \in Tree /\ Sound(x) /\ y \in Tree /\ t \in Tree
    BY ONLY <1>1, y \in Good(b), Sound(t) DEF Good, Sound
  <1>3. /\ y.cwd = x.cwd
        /\ \A d \in Nodes : x.kind[d] # "free" => y.kind[d] = x.kind[d]
        /\ \A d \in Nodes : \A m \in Names :
              y.entries[d][m] = IF d = P /\ m = N THEN v ELSE x.entries[d][m]
    BY ONLY SetsEntry(x, y, P, N, v) DEF SetsEntry
  <1>4. /\ x.cwd = t.cwd
        /\ \A d \in Nodes : t.kind[d] # "free" => x.kind[d] = t.kind[d]
        /\ \A d \in Nodes : \A m \in Names :
              \/ x.entries[d][m] = None
              \/ x.entries[d][m] \in Free(t)
              \/ t.kind[d] # "free" /\ x.entries[d][m] = t.entries[d][m]
    BY ONLY <1>1 DEF Later
  <1>5. Later(t, y)
    <2>1. \A d \in Nodes : t.kind[d] # "free" => y.kind[d] = t.kind[d]
      BY ONLY <1>3, <1>4
    <2>2. \A d \in Nodes : \A m \in Names :
             \/ y.entries[d][m] = None
             \/ y.entries[d][m] \in Free(t)
             \/ t.kind[d] # "free" /\ y.entries[d][m] = t.entries[d][m]
      BY ONLY <1>3, <1>4, v = None \/ v \in Free(t)
    <2> QED
      BY ONLY <1>2, <1>3, <1>4, <2>1, <2>2 DEF Later
  <1>6. OneSet(x, y, P, N)
    BY ONLY <1>3 DEF OneSet
  <1>7. Gone(x, y) \subseteq Under(x, x.entries[P][N])
    BY ONLY <1>2, <1>6, P \in Nodes, N \in Names, OneSetLoses
  <1>8. ASSUME NEW z \in Gone(t, y) PROVE z \in U
    <2>1. z \in Reach(t, Root) /\ z \notin Reach(y, Root)
      BY ONLY z \in Gone(t, y) DEF Gone
    <2>2. z \notin Free(t)
      BY ONLY <1>2, <2>1, Sound(t), RootReach DEF Free
    <2>3. CASE z \in Reach(x, Root)
      <3>1. z \in Under(x, x.entries[P][N])
        BY ONLY <1>7, <2>1, <2>3 DEF Gone
      <3> QED
        BY <2>2, <3>1
    <2>4. CASE z \notin Reach(x, Root)
      BY ONLY <1>1, <2>1, <2>4 DEF Gone
    <2> QED
      BY ONLY <2>3, <2>4
  <1> QED
    BY ONLY <1>5, <1>8, y \in Good(b) DEF Losing

\* A new object changes no other.
LEMMA NewIs ==
    ASSUME NEW x \in Tree, NEW k \in {"dir", "file"}
    PROVE  /\ New(x, k) \in Tree /\ New(x, k).entries = x.entries /\ New(x, k).cwd = x.cwd
           /\ \A d \in Nodes : x.kind[d] # "free" => New(x, k).kind[d] = x.kind[d]
           /\ NewNode(x) = None \/ NewNode(x) \in Free(x)
  <1> DEFINE v == NewNode(x)
             K == [x.kind EXCEPT ![v] = k]
             u == New(x, k)
  <1>1. /\ x.kind \in [Nodes -> {"free", "dir", "file", "link"}]
        /\ Free(x) \in SUBSET Nodes /\ Free(x) \in SUBSET Nat /\ None \notin Nodes
    BY ONLY x \in Tree, TreeParts
  <1>2. v = None \/ v \in Free(x)
    <2>1. CASE Free(x) = {}
      BY ONLY <2>1 DEF NewNode
    <2>2. CASE Free(x) # {}
      <3>1. \E z \in Free(x) : \A y \in Free(x) : z <= y
        BY ONLY <1>1, <2>2, LeastNatural
      <3>2. Min(Free(x)) \in Free(x)
        BY ONLY <3>1 DEF Min
      <3> QED
        BY ONLY <2>2, <3>2 DEF NewNode
    <2> QED
      BY ONLY <2>1, <2>2
  <1>3. u = [x EXCEPT !.kind = K]
    BY ONLY x \in Tree DEF New, Tree
  <1> HIDE DEF v
  <1>4. K \in [Nodes -> {"free", "dir", "file", "link"}]
    BY ONLY <1>1, k \in {"dir", "file"}
  <1>5. \A d \in Nodes : x.kind[d] # "free" => K[d] = x.kind[d]
    <2>1. \A d \in Nodes : K[d] = IF d = v THEN k ELSE x.kind[d]
      BY ONLY <1>1
    <2>2. \A d \in Nodes : d = v => x.kind[d] = "free"
      BY ONLY <1>1, <1>2 DEF Free
    <2> QED
      BY ONLY <2>1, <2>2
  <1> HIDE DEF K, u
  <1>6. u \in Tree /\ u.kind = K /\ u.entries = x.entries /\ u.cwd = x.cwd
    BY ONLY <1>3, <1>4, x \in Tree DEF Tree
  <1> QED
    BY ONLY <1>2, <1>5, <1>6 DEF u, v

\* A new object put into a directory.
LEMMA PutNew ==
    ASSUME NEW x \in Tree, NEW k \in {"dir", "file"}, NEW P \in Nodes, NEW N \in Names
    PROVE  SetsEntry(x, Put(New(x, k), P, N, NewNode(x)), P, N, NewNode(x))
  <1> DEFINE v == NewNode(x)
             u == New(x, k)
             y == Put(u, P, N, v)
  <1>1. /\ u \in Tree /\ u.entries = x.entries /\ u.cwd = x.cwd
        /\ \A d \in Nodes : x.kind[d] # "free" => u.kind[d] = x.kind[d]
        /\ v = None \/ v \in Free(x)
    BY ONLY x \in Tree, k \in {"dir", "file"}, NewIs
  <1>2. v \in Nodes \cup {None}
    BY ONLY <1>1 DEF Free
  <1> HIDE DEF u, v
  <1>3. IsPut(y, u, P, N, v)
    BY ONLY <1>1, <1>2, P \in Nodes, N \in Names, PutSpec
  <1> HIDE DEF y
  <1>4. SetsEntry(x, y, P, N, v)
    BY ONLY <1>1, <1>3 DEF SetsEntry, IsPut
  <1> QED
    BY ONLY <1>4 DEF y, u, v

\* Nothing that is there in the earlier tree is free in the later one.
LEMMA LaterFree ==
    ASSUME NEW t, NEW x, Later(t, x), NEW v, v = None \/ v \in Free(x)
    PROVE  v = None \/ v \in Free(t)
  BY DEF Later, Free

\* write_file replaces what its path names.
LEMMA WriteFileLoses ==
    ASSUME NEW b \in BOOLEAN, NEW t, Sound(t), NEW U, NEW x \in Losing(b, t, U), NEW path \in Path,
           Below(t, path) \subseteq U
    PROVE  WriteFile(x, path) \in Losing(b, t, U)
  <1> DEFINE P == ParentOf(x, path)
             N == NameOf(x, path)
             v == NewNode(x)
             y == WriteFile(x, path)
  <1>1. CASE ~IsDir(x, P)
    BY ONLY <1>1, x \in Losing(b, t, U) DEF WriteFile
  <1>2. CASE IsDir(x, P)
    <2>1. x \in Good(b) /\ x \in Tree /\ Later(t, x)
      BY ONLY x \in Losing(b, t, U) DEF Losing, Good
    <2>2. P \in Nodes /\ N \in Names
      BY <1>2, <2>1, PathIs, TreeParts
    <2>3. "file" \in {"dir", "file"}
      BY ONLY TRUE
    <2>4. y = Put(New(x, "file"), P, N, v)
      BY ONLY <1>2 DEF WriteFile, Put
    <2>5. y \in Good(b)
      BY ONLY <2>1, b \in BOOLEAN, path \in Path, WriteFileKeeps
    <2>6. \A z \in Under(x, x.entries[P][N]) : z \in Free(t) \/ z \in U
      <3>1. \A z \in Under(x, x.entries[P][N]) : z \in Free(t) \/ z \in Below(t, path)
        BY ONLY <1>2, <2>1, Sound(t), path \in Path, WithinPath
      <3> QED
        BY ONLY <3>1, Below(t, path) \subseteq U
    <2>7. v = None \/ v \in Free(t)
      <3>1. v = None \/ v \in Free(x)
        BY ONLY <2>1, <2>3, NewIs
      <3> QED
        BY ONLY <2>1, <3>1, LaterFree
    <2> HIDE DEF P, N, y
    <2>8. SetsEntry(x, y, P, N, v)
      BY ONLY <2>1, <2>2, <2>3, <2>4, PutNew
    <2> HIDE DEF v
    <2>9. y \in Losing(b, t, U)
      BY ONLY <2>2, <2>5, <2>6, <2>7, <2>8, b \in BOOLEAN, Sound(t), x \in Losing(b, t, U), SetLoses
    <2> QED
      BY ONLY <2>9 DEF y
  <1> QED
    BY ONLY <1>1, <1>2

\* mkdir replaces nothing.
LEMMA MakeDirLoses ==
    ASSUME NEW b \in BOOLEAN, NEW t, Sound(t), NEW U, NEW x \in Losing(b, t, U), NEW path \in Path
    PROVE  MakeDir(x, path) \in Losing(b, t, U)
  <1> DEFINE P == ParentOf(x, path)
             N == NameOf(x, path)
             v == NewNode(x)
             y == MakeDir(x, path)
             Makes == IsDir(x, P) /\ x.entries[P][N] = None
  <1>1. CASE ~Makes
    BY ONLY <1>1, x \in Losing(b, t, U) DEF MakeDir
  <1>2. CASE Makes
    <2>1. x \in Good(b) /\ x \in Tree /\ Later(t, x)
      BY ONLY x \in Losing(b, t, U) DEF Losing, Good
    <2>2. P \in Nodes /\ N \in Names
      BY <1>2, <2>1, PathIs, TreeParts
    <2>3. "dir" \in {"dir", "file"}
      BY ONLY TRUE
    <2>4. y = Put(New(x, "dir"), P, N, v)
      BY ONLY <1>2 DEF MakeDir, Put
    <2>5. y \in Good(b)
      BY ONLY <2>1, b \in BOOLEAN, path \in Path, MakeDirKeeps
    <2>6. \A z \in Under(x, x.entries[P][N]) : z \in Free(t) \/ z \in U
      BY ONLY <1>2 DEF Under
    <2>7. v = None \/ v \in Free(t)
      <3>1. v = None \/ v \in Free(x)
        BY ONLY <2>1, <2>3, NewIs
      <3> QED
        BY ONLY <2>1, <3>1, LaterFree
    <2> HIDE DEF P, N, y
    <2>8. SetsEntry(x, y, P, N, v)
      BY ONLY <2>1, <2>2, <2>3, <2>4, PutNew
    <2> HIDE DEF v
    <2>9. y \in Losing(b, t, U)
      BY ONLY <2>2, <2>5, <2>6, <2>7, <2>8, b \in BOOLEAN, Sound(t), x \in Losing(b, t, U), SetLoses
    <2> QED
      BY ONLY <2>9 DEF y
  <1> QED
    BY ONLY <1>1, <1>2

\* rm removes what its path names.
LEMMA RemoveEntryLoses ==
    ASSUME NEW b \in BOOLEAN, NEW t, Sound(t), NEW U, NEW x \in Losing(b, t, U), NEW path \in Path,
           Below(t, path) \subseteq U
    PROVE  RemoveEntry(x, path) \in Losing(b, t, U)
  <1> DEFINE P == ParentOf(x, path)
             N == NameOf(x, path)
             y == RemoveEntry(x, path)
  <1>1. CASE ~IsDir(x, P)
    BY ONLY <1>1, x \in Losing(b, t, U) DEF RemoveEntry
  <1>2. CASE IsDir(x, P)
    <2>1. x \in Good(b) /\ x \in Tree /\ Later(t, x)
      BY ONLY x \in Losing(b, t, U) DEF Losing, Good
    <2>2. P \in Nodes /\ N \in Names
      BY <1>2, <2>1, PathIs, TreeParts
    <2>4. y = Put(x, P, N, None)
      BY ONLY <1>2 DEF RemoveEntry, Put
    <2>5. y \in Good(b)
      BY ONLY <2>1, b \in BOOLEAN, path \in Path, RemoveEntryKeeps
    <2>6. \A z \in Under(x, x.entries[P][N]) : z \in Free(t) \/ z \in U
      <3>1. \A z \in Under(x, x.entries[P][N]) : z \in Free(t) \/ z \in Below(t, path)
        BY ONLY <1>2, <2>1, Sound(t), path \in Path, WithinPath
      <3> QED
        BY ONLY <3>1, Below(t, path) \subseteq U
    <2> HIDE DEF P, N, y
    <2>8. SetsEntry(x, y, P, N, None)
      <3>1. None \in Nodes \cup {None}
        BY ONLY TRUE
      <3>2. IsPut(y, x, P, N, None)
        BY ONLY <2>1, <2>2, <2>4, <3>1, PutSpec
      <3> QED
        BY ONLY <3>2 DEF SetsEntry, IsPut
    <2>9. y \in Losing(b, t, U)
      BY ONLY <2>2, <2>5, <2>6, <2>8, b \in BOOLEAN, Sound(t), x \in Losing(b, t, U), SetLoses
    <2> QED
      BY ONLY <2>9 DEF y
  <1> QED
    BY ONLY <1>1, <1>2

-----------------------------------------------------------------------------
(* What the commands lose.                                                  *)

\* The entries decide what is reached.
LEMMA SameEntriesLose ==
    ASSUME NEW t, Sound(t), NEW u \in Tree, u.entries = t.entries
    PROVE  Gone(t, u) = {}
  <1> DEFINE R == Reach(u, Root)
  <1>1. t \in Tree
    BY ONLY Sound(t) DEF Sound
  <1>2. R \in SUBSET Nodes /\ Closed(u, R)
    BY ONLY u \in Tree, RootReach
  <1>3. {} \in SUBSET Nodes /\ Closed(t, {})
    BY ONLY DEF Closed
  <1>4. ASSUME NEW d \in R, NEW m \in Names, t.entries[d][m] # None PROVE t.entries[d][m] \in R
    <2>1. u.entries[d][m] # None
      BY ONLY <1>4, u.entries = t.entries
    <2>2. u.entries[d][m] \in R
      <3> HIDE DEF R
      <3> QED
        BY ONLY <1>2, <2>1, u \in Tree, d \in R, m \in Names, Follow
    <2> QED
      BY ONLY <2>2, u.entries = t.entries
  <1>5. Accounts(t, u, {})
    BY ONLY <1>4 DEF Accounts
  <1>6. Gone(t, u) \subseteq {}
    BY ONLY <1>3, <1>5, Sound(t), u \in Tree, Lost
  <1> QED
    BY ONLY <1>6

\* A command has lost nothing before it starts.
LEMMA NothingYet ==
    ASSUME NEW b \in BOOLEAN, NEW t \in Good(b), Clean(t), NEW U
    PROVE  t \in Losing(b, t, U)
  <1>1. t \in Tree /\ Sound(t)
    BY ONLY t \in Good(b) DEF Good
  <1>2. Later(t, t)
    <2>1. \A d \in Nodes : \A m \in Names :
             \/ t.entries[d][m] = None
             \/ t.entries[d][m] \in Free(t)
             \/ t.kind[d] # "free" /\ t.entries[d][m] = t.entries[d][m]
      BY ONLY Clean(t) DEF Clean
    <2> QED
      BY ONLY <1>1, <2>1 DEF Later
  <1>3. Gone(t, t) \subseteq U
    BY ONLY DEF Gone
  <1> QED
    BY ONLY <1>2, <1>3, t \in Good(b) DEF Losing

\* All that is below the operands of a command.
Operated(c) == UNION {Below(fs, c.args[i]) : i \in DOMAIN c.args}

\* The commands that work through their operands: mkdir loses nothing, touch and
\* rm lose what is below them, also when one operand removes what another names.
LEMMA FoldsLose ==
    ASSUME NEW b \in BOOLEAN, fs \in Good(b), Clean(fs), NEW c \in Symbol
    PROVE  /\ MakeDirs(fs, c.args) \in Losing(b, fs, {})
           /\ TouchAll(fs, c.args) \in Losing(b, fs, Operated(c))
           /\ RemoveAll(fs, c.args) \in Losing(b, fs, Operated(c))
  <1> DEFINE U == Operated(c)
             X == Losing(b, fs, U)
             Y == Losing(b, fs, {})
             n == Len(c.args)
             w == c.args
  <1>0. Sound(fs)
    BY ONLY fs \in Good(b) DEF Good
  <1>1. n \in Nat /\ DOMAIN w = 1 .. n /\ \A i \in 1 .. n : w[i] \in Path
    BY ONLY c \in Symbol, Operands
  <1>2. \A i \in 1 .. n : Below(fs, w[i]) \subseteq U
    BY ONLY <1>1 DEF Operated
  <1> HIDE DEF U, n, w
  <1>3. \A x \in Y : \A m \in 1 .. n : MakeDir(x, w[m]) \in Y
    <2> SUFFICES ASSUME NEW x \in Y, NEW m \in 1 .. n PROVE MakeDir(x, w[m]) \in Y
      OBVIOUS
    <2> QED
      BY ONLY <1>0, <1>1, x \in Y, m \in 1 .. n, b \in BOOLEAN, MakeDirLoses
  <1>4. \A x \in X : \A m \in 1 .. n : TouchOne(x, w[m]) \in X
    <2> SUFFICES ASSUME NEW x \in X, NEW m \in 1 .. n PROVE TouchOne(x, w[m]) \in X
      OBVIOUS
    <2>1. WriteFile(x, w[m]) \in X
      BY ONLY <1>0, <1>1, <1>2, x \in X, m \in 1 .. n, b \in BOOLEAN, WriteFileLoses
    <2> HIDE DEF X
    <2> QED
      BY ONLY <2>1, x \in X DEF TouchOne
  <1>5. \A x \in X : \A m \in 1 .. n : RemoveEntry(x, w[m]) \in X
    <2> SUFFICES ASSUME NEW x \in X, NEW m \in 1 .. n PROVE RemoveEntry(x, w[m]) \in X
      OBVIOUS
    <2> QED
      BY ONLY <1>0, <1>1, <1>2, x \in X, m \in 1 .. n, b \in BOOLEAN, RemoveEntryLoses
  <1>6. fs \in X /\ fs \in Y
    BY ONLY b \in BOOLEAN, fs \in Good(b), Clean(fs), NothingYet
  <1> HIDE DEF X, Y
  <1>7. MakeDirs(fs, w) \in Y
    BY ONLY <1>1, <1>3, <1>6, MakeDirFold
  <1>8. TouchAll(fs, w) \in X
    BY ONLY <1>1, <1>4, <1>6, TouchFold
  <1>9. RemoveAll(fs, w) \in X
    BY ONLY <1>1, <1>5, <1>6, RemoveFold
  <1> QED
    BY ONLY <1>7, <1>8, <1>9 DEF X, Y, U, w

\* What a command leaves is what its method leaves, collected.
LEMMA ResultLoses ==
    ASSUME NEW t \in Tree, NEW st
    PROVE  Gone(fs, Result(t, st).fs) = Gone(fs, t)
  <1>1. Result(t, st).fs = Collect(t)
    BY ONLY DEF Result
  <1>2. Reach(Collect(t), Root) = Reach(t, Root)
    BY CollectLoses
  <1> QED
    BY ONLY <1>1, <1>2 DEF Gone

\* What a command may lose, as NothingVanishes says it.
MayLose(c, gone) ==
    CASE c.name \in {"rm", "echo", "touch"} -> gone \subseteq Operated(c)
      [] c.name = "cp" -> gone \subseteq Replaced(fs, c.args[1], c.args[2])
      [] c.name = "mv" -> \/ gone \subseteq Replaced(fs, c.args[1], c.args[2])
                          \/ /\ DstDir(fs, c.args[2]) \in Below(fs, c.args[1])
                             /\ gone = Below(fs, c.args[1])
      [] OTHER -> gone = {}

\* A command loses no more than it may.
LEMMA DispatchLoses ==
    ASSUME fs \in Good(TRUE), Clean(fs), NEW c \in Symbol, HasRoom(c),
           c.name = "mv" /\ Len(c.args) >= 2 => NameOf(fs, c.args[1]) # "root"
    PROVE  MayLose(c, Gone(fs, Dispatch(c).fs))
  <1> DEFINE L(r) == Gone(fs, r.fs)
  <1>0. fs \in Tree /\ Sound(fs) /\ TRUE \in BOOLEAN
    BY ONLY fs \in Good(TRUE) DEF Good
  <1>1. MayLose(c, {})
    BY ONLY DEF MayLose
  <1>2. \A st : L(Result(fs, st)) = {}
    <2>1. Gone(fs, fs) = {}
      BY ONLY DEF Gone
    <2> QED
      BY ONLY <1>0, <2>1, ResultLoses
  <1>3. L(Done) = {}
    BY ONLY <1>2 DEF Done
  <1>4. /\ c.args # << >> => c.args[1] \in Path
        /\ ~(Len(c.args) < 2) => c.args[1] \in Path /\ c.args[2] \in Path
        /\ Len(c.args) \in Nat
    BY ONLY c \in Symbol, Operands
  <1>5. L(Download(c)) = {}
    <2> DEFINE asked == [Done EXCEPT !.download = c.url = "good" \/ c.name = "tftp",
                                     !.raised = c.url = "malformed"]
    <2>1. asked.fs = Done.fs
      BY ONLY DEF Done, Result
    <2>2. Download(c) = Result(fs, 1) \/ Download(c) = asked
      BY ONLY DEF Download
    <2> QED
      BY ONLY <1>2, <1>3, <2>1, <2>2
  <1>6. L(Cd(c)) = {}
    <2> DEFINE path == IF c.args = << >> THEN [abs |-> TRUE, parts |-> <<"root">>] ELSE c.args[1]
               st == IF IsDir(fs, LookupPath(fs, path)) THEN 0 ELSE 1
               u == Chdir(fs, path)
    <2>1. [abs |-> TRUE, parts |-> <<"root">>] \in Path
      <3>1. "root" \in Names \cup {".."}
        BY ONLY NamesAssumption
      <3>2. <<"root">> \in Seq(Names \cup {".."})
        BY ONLY <3>1
      <3> QED
        BY ONLY <3>2 DEF Path
    <2>2. path \in Path
      BY ONLY <1>4, <2>1
    <2>3. Cd(c) = Result(u, st)
      BY ONLY DEF Cd
    <2> HIDE DEF path, st
    <2>4. u \in Tree
      <3>1. u \in Good(TRUE)
        BY ONLY <1>0, <2>2, fs \in Good(TRUE), ChdirKeeps
      <3> QED
        BY ONLY <3>1 DEF Good
    <2>5. u.entries = fs.entries
      BY ONLY <1>0 DEF Chdir, Tree
    <2> HIDE DEF u
    <2>6. Gone(fs, u) = {}
      BY ONLY <1>0, <2>4, <2>5, SameEntriesLose
    <2>7. L(Result(u, st)) = Gone(fs, u)
      BY ONLY <2>4, ResultLoses
    <2> QED
      BY ONLY <2>3, <2>6, <2>7
  <1>7. L(Ls(c)) = {} /\ L(Cat(c)) = {}
    BY ONLY <1>2 DEF Ls, Cat
  <1>8. L(Mkdir(c)) = {} /\ L(Touch(c)) \subseteq Operated(c) /\ L(Rm(c)) \subseteq Operated(c)
    <2>1. /\ Mkdir(c) = Result(MakeDirs(fs, c.args), 0)
          /\ Touch(c) = Result(TouchAll(fs, c.args), 0)
          /\ Rm(c) = Result(RemoveAll(fs, c.args), 0)
      BY ONLY DEF Mkdir, Touch, Rm, MakeDirs, TouchAll, RemoveAll
    <2>2. /\ MakeDirs(fs, c.args) \in Losing(TRUE, fs, {})
          /\ TouchAll(fs, c.args) \in Losing(TRUE, fs, Operated(c))
          /\ RemoveAll(fs, c.args) \in Losing(TRUE, fs, Operated(c))
      BY ONLY <1>0, fs \in Good(TRUE), Clean(fs), c \in Symbol, FoldsLose
    <2>3. \A U : \A t \in Losing(TRUE, fs, U) : t \in Tree /\ Gone(fs, t) \subseteq U
      BY ONLY DEF Losing, Good
    <2>4. \A U : \A t \in Losing(TRUE, fs, U) : L(Result(t, 0)) \subseteq U
      <3> SUFFICES ASSUME NEW U, NEW t \in Losing(TRUE, fs, U) PROVE L(Result(t, 0)) \subseteq U
        OBVIOUS
      <3>1. t \in Tree /\ Gone(fs, t) \subseteq U
        BY ONLY <2>3, t \in Losing(TRUE, fs, U)
      <3>2. L(Result(t, 0)) = Gone(fs, t)
        BY ONLY <3>1, ResultLoses
      <3> QED
        BY ONLY <3>1, <3>2
    <2> HIDE DEF L
    <2> QED
      BY ONLY <2>1, <2>2, <2>4
  <1>9. L(Echo(c)) \subseteq Operated(c)
    <2>1. CASE c.args = << >>
      BY ONLY <1>3, <2>1 DEF Echo
    <2>2. CASE c.args # << >>
      <3> DEFINE u == WriteFile(fs, c.args[1])
      <3>1. c.args[1] \in Path /\ 1 \in DOMAIN c.args
        <4>1. c.args \in Seq(Path) /\ DOMAIN c.args = 1 .. Len(c.args) /\ Len(c.args) \in Nat
          BY ONLY c \in Symbol, Operands
        <4>2. Len(c.args) # 0
          BY ONLY <2>2, <4>1, EmptySeq
        <4> QED
          BY ONLY <1>4, <2>2, <4>1, <4>2
      <3>2. Below(fs, c.args[1]) \subseteq Operated(c)
        BY ONLY <3>1 DEF Operated
      <3>3. fs \in Losing(TRUE, fs, Operated(c))
        BY ONLY <1>0, fs \in Good(TRUE), Clean(fs), NothingYet
      <3>4. u \in Losing(TRUE, fs, Operated(c))
        BY ONLY <1>0, <3>1, <3>2, <3>3, WriteFileLoses
      <3>5. u \in Tree /\ Gone(fs, u) \subseteq Operated(c)
        BY ONLY <3>4 DEF Losing, Good
      <3>6. L(Result(u, 0)) = Gone(fs, u)
        BY ONLY <3>5, ResultLoses
      <3>7. Echo(c) = Result(u, 0)
        BY ONLY <2>2 DEF Echo
      <3> QED
        BY ONLY <3>5, <3>6, <3>7
    <2> QED
      BY ONLY <2>1, <2>2
  <1>10. ASSUME c.name = "cp" PROVE L(Cp(c)) \subseteq Replaced(fs, c.args[1], c.args[2])
    <2>1. CASE Len(c.args) < 2
      BY ONLY <1>3, <2>1 DEF Cp
    <2>2. CASE ~(Len(c.args) < 2)
      <3> DEFINE u == CopyNode(fs, c.args[1], c.args[2])
      <3>1. c.args[1] \in Path /\ c.args[2] \in Path /\ Len(c.args) >= 2
        BY ONLY <1>4, <2>2
      <3>2. LookupPath(fs, c.args[1]) # None =>
               Cardinality(Free(fs)) >= Cardinality(Reach(fs, LookupPath(fs, c.args[1])))
        BY ONLY <1>10, <3>1, HasRoom(c) DEF HasRoom
      <3>3. u \in Good(TRUE)
        BY ONLY <1>0, <3>1, <3>2, fs \in Good(TRUE), CopyNodeKeeps
      <3>4. Gone(fs, u) \subseteq Replaced(fs, c.args[1], c.args[2])
        BY ONLY <1>0, <3>1, <3>2, fs \in Good(TRUE), CopyNodeLoses
      <3>5. Cp(c) = Result(u, 0)
        BY ONLY <2>2 DEF Cp
      <3> HIDE DEF u
      <3>6. L(Result(u, 0)) = Gone(fs, u)
        <4>1. u \in Tree
          BY ONLY <3>3 DEF Good
        <4> QED
          BY ONLY <4>1, ResultLoses
      <3> QED
        BY ONLY <3>4, <3>5, <3>6
    <2> QED
      BY ONLY <2>1, <2>2
  <1>11. ASSUME c.name = "mv"
         PROVE  \/ L(Mv(c)) \subseteq Replaced(fs, c.args[1], c.args[2])
                \/ /\ DstDir(fs, c.args[2]) \in Below(fs, c.args[1])
                   /\ L(Mv(c)) = Below(fs, c.args[1])
    <2>1. CASE Len(c.args) < 2
      BY ONLY <1>3, <2>1 DEF Mv
    <2>2. CASE ~(Len(c.args) < 2)
      <3> DEFINE u == MoveNode(fs, c.args[1], c.args[2])
                 r == [Result(u, 0) EXCEPT !.raised = MoveRaises(fs, c.args[1], c.args[2])]
      <3>1. c.args[1] \in Path /\ c.args[2] \in Path /\ Len(c.args) >= 2
        BY ONLY <1>4, <2>2
      <3>2. NameOf(fs, c.args[1]) # "root"
        BY <1>11, <3>1
      <3>3. u \in Good(TRUE)
        BY ONLY <1>0, <3>1, <3>2, fs \in Good(TRUE), MoveNodeKeeps
      <3>4. \/ Gone(fs, u) \subseteq Replaced(fs, c.args[1], c.args[2])
            \/ /\ DstDir(fs, c.args[2]) \in Below(fs, c.args[1])
               /\ Gone(fs, u) = Below(fs, c.args[1])
        BY ONLY <3>1, <3>2, fs \in Good(TRUE), MoveNodeLoses
      <3>5. Mv(c) = r
        BY ONLY <2>2 DEF Mv
      <3>6. r.fs = Result(u, 0).fs
        BY ONLY DEF Result
      <3> HIDE DEF u, r
      <3>7. L(Result(u, 0)) = Gone(fs, u)
        <4>1. u \in Tree
          BY ONLY <3>3 DEF Good
        <4> QED
          BY ONLY <4>1, ResultLoses
      <3>8. L(Mv(c)) = Gone(fs, u)
        BY ONLY <3>5, <3>6, <3>7
      <3> HIDE DEF L
      <3> QED
        BY ONLY <3>4, <3>8
    <2> QED
      BY ONLY <2>1, <2>2
  <1>12. L([Done EXCEPT !.exit = TRUE]) = {}
    <2>1. [Done EXCEPT !.exit = TRUE].fs = Done.fs
      BY ONLY DEF Done, Result
    <2> QED
      BY ONLY <1>3, <2>1
  <1>13. L(Result(fs, 1)) = {} /\ L(Result(fs, 127)) = {}
    BY ONLY <1>2
  <1>14. L(Dispatch(c)) = L(Dispatch(c)) /\ L(Dispatch(c)) = Gone(fs, Dispatch(c).fs)
    BY ONLY TRUE
  <1> HIDE DEF L, Done
  <1>15. \/ L(Dispatch(c)) = {}
         \/ c.name = "echo" /\ Dispatch(c) = Echo(c)
         \/ c.name = "touch" /\ Dispatch(c) = Touch(c)
         \/ c.name = "rm" /\ Dispatch(c) = Rm(c)
         \/ c.name = "cp" /\ Dispatch(c) = Cp(c)
         \/ c.name = "mv" /\ Dispatch(c) = Mv(c)
    <2>1. \/ Dispatch(c) \in {Done, Download(c), Cd(c), Ls(c), Cat(c), Mkdir(c)}
          \/ Dispatch(c) \in {Result(fs, 1), Result(fs, 127), [Done EXCEPT !.exit = TRUE]}
          \/ c.name = "echo" /\ Dispatch(c) = Echo(c)
          \/ c.name = "touch" /\ Dispatch(c) = Touch(c)
          \/ c.name = "rm" /\ Dispatch(c) = Rm(c)
          \/ c.name = "cp" /\ Dispatch(c) = Cp(c)
          \/ c.name = "mv" /\ Dispatch(c) = Mv(c)
      <3> DEFINE ex == [Done EXCEPT !.exit = TRUE]
      <3>1. CASE BareBusybox(c) \/ UnknownApplet(c) \/ (c.help /\ c.name \in HelpText)
        <4>1. Dispatch(c) = Done \/ Dispatch(c) = Result(fs, 127)
          BY ONLY <3>1 DEF Dispatch
        <4> QED
          BY ONLY <4>1
      <3>2. CASE ~(BareBusybox(c) \/ UnknownApplet(c) \/ (c.help /\ c.name \in HelpText))
        <4>1. Dispatch(c) =
                CASE c.name \in {"wget", "curl", "tftp"} -> Download(c)
                  [] c.name \in Silent -> Done
                  [] c.name = "cd" -> Cd(c)
                  [] c.name = "ls" -> Ls(c)
                  [] c.name = "cat" -> Cat(c)
                  [] c.name = "echo" -> Echo(c)
                  [] c.name = "mkdir" -> Mkdir(c)
                  [] c.name = "touch" -> Touch(c)
                  [] c.name = "rm" -> Rm(c)
                  [] c.name = "cp" -> Cp(c)
                  [] c.name = "mv" -> Mv(c)
                  [] c.name = "false" -> Result(fs, 1)
                  [] c.name \in {"exit", "logout", "reboot"} -> ex
                  [] OTHER -> Result(fs, 127)
          BY ONLY <3>2 DEF Dispatch
        <4> HIDE DEF ex
        <4>2. \/ Dispatch(c) = Done \/ Dispatch(c) = Download(c) \/ Dispatch(c) = Cd(c)
              \/ Dispatch(c) = Ls(c) \/ Dispatch(c) = Cat(c) \/ Dispatch(c) = Mkdir(c)
              \/ Dispatch(c) = Result(fs, 1) \/ Dispatch(c) = Result(fs, 127) \/ Dispatch(c) = ex
              \/ c.name = "echo" /\ Dispatch(c) = Echo(c)
              \/ c.name = "touch" /\ Dispatch(c) = Touch(c)
              \/ c.name = "rm" /\ Dispatch(c) = Rm(c)
              \/ c.name = "cp" /\ Dispatch(c) = Cp(c)
              \/ c.name = "mv" /\ Dispatch(c) = Mv(c)
          BY ONLY <4>1
        <4> QED
          BY ONLY <4>2 DEF ex
      <3> QED
        BY ONLY <3>1, <3>2
    <2> QED
      BY ONLY <1>3, <1>5, <1>6, <1>7, <1>8, <1>12, <1>13, <2>1
  <1>16. MayLose(c, L(Dispatch(c)))
    <2>1. CASE L(Dispatch(c)) = {}
      BY ONLY <1>1, <2>1
    <2>2. CASE c.name = "echo" /\ Dispatch(c) = Echo(c)
      BY ONLY <1>9, <2>2 DEF MayLose
    <2>3. CASE c.name = "touch" /\ Dispatch(c) = Touch(c)
      BY ONLY <1>8, <2>3 DEF MayLose
    <2>4. CASE c.name = "rm" /\ Dispatch(c) = Rm(c)
      BY ONLY <1>8, <2>4 DEF MayLose
    <2>5. CASE c.name = "cp" /\ Dispatch(c) = Cp(c)
      BY ONLY <1>10, <2>5 DEF MayLose
    <2>6. CASE c.name = "mv" /\ Dispatch(c) = Mv(c)
      BY ONLY <1>11, <2>6 DEF MayLose
    <2> QED
      BY ONLY <1>15, <2>1, <2>2, <2>3, <2>4, <2>5, <2>6
  <1> QED
    BY ONLY <1>14, <1>16

-----------------------------------------------------------------------------
(* A line and its trace: the invariant.                                     *)

\* No segment is empty: its first symbol is there to name a command.
Segment == [op : Separators, seg : Seq(Symbol) \ {<< >>}]

\* A trace of segments: the first does not depend on another.
TraceOK(tr) ==
    /\ tr \in Seq(Range(tr))
    /\ \A i \in DOMAIN tr : tr[i].op \in Separators /\ tr[i].ran \in BOOLEAN
    /\ tr # << >> => tr[1].op = ";"

\* A line has no more segments than the limit, the ones that are over included.
ChainInv ==
    /\ line \in Seq(Segment)
    /\ TraceOK(trace)
    /\ trace = << >> /\ line # << >> => line[1].op = ";"
    /\ Len(line) + Len(trace) <= MaxSegments

\* The values of the lists that end at each segment, as a shell defines them.
Ok(tr, i) == tr[i].ran /\ tr[i].status = 0

IsValue(V, tr) ==
    V = [i \in DOMAIN tr |->
           IF tr[i].op = ";" THEN Ok(tr, i)
           ELSE IF tr[i].op = "&&" THEN V[i - 1] /\ Ok(tr, i)
           ELSE V[i - 1] \/ Ok(tr, i)]

Values(tr) == {V \in [DOMAIN tr -> BOOLEAN] : IsValue(V, tr)}

ArmsRight(V, tr) ==
    \A i \in DOMAIN tr :
       tr[i].ran <=> \/ tr[i].op = ";"
                     \/ tr[i].op = "&&" /\ V[i - 1]
                     \/ tr[i].op = "||" /\ ~V[i - 1]

Agree(tr, st) ==
    /\ Values(tr) # {}
    /\ \A V \in Values(tr) : /\ ArmsRight(V, tr)
                             /\ tr # << >> => (V[Len(tr)] <=> st = 0)

\* The status is the value of what has been run or skipped: a segment that is
\* skipped must leave it alone.
ValueInv == Agree(trace, status)

-----------------------------------------------------------------------------
(* split_command_line.                                                      *)

\* What it keeps while it scans a line.  The end of the line flushes once more,
\* but then the limit has left nothing to flush.
QuoteMarks == {"", "'", "\""}

SplitState == [segs : Seq(Segment), buf : Seq(Symbol), op : Separators,
               quote : QuoteMarks, escaped : BOOLEAN]

SplitInv(s) ==
    /\ s \in SplitState
    /\ s.segs = << >> => s.op = ";"
    /\ s.segs # << >> => s.segs[1].op = ";"
    /\ Len(s.segs) <= MaxSegments
    /\ Len(s.segs) = MaxSegments => s.buf = << >>

Start == [segs |-> << >>, buf |-> << >>, op |-> ";", quote |-> "", escaped |-> FALSE]

\* The limit on segments is reached or not.
LEMMA FullOrNot ==
    ASSUME NEW s, s.segs \in Seq(Segment)
    PROVE  /\ Len(s.segs) \in Nat /\ MaxSegments \in Nat /\ MaxSegments # 0
           /\ ~Full(s) <=> Len(s.segs) < MaxSegments
           /\ Len(s.segs) <= MaxSegments => Len(s.segs) < MaxSegments \/ Len(s.segs) = MaxSegments
  <1>1. Len(s.segs) \in Nat
    BY LenProperties
  <1>2. MaxSegments \in Nat /\ MaxSegments # 0
    BY BoundAssumption
  <1>3. \A m, n \in Nat : /\ ~(m >= n) <=> m < n
                          /\ m <= n => m < n \/ m = n
    OBVIOUS
  <1>4. ~(Len(s.segs) >= MaxSegments) <=> Len(s.segs) < MaxSegments
    BY <1>1, <1>2, <1>3
  <1> QED
    BY <1>1, <1>2, <1>3, <1>4 DEF Full

\* flush (commands.py).
LEMMA FlushKeeps ==
    ASSUME NEW s, SplitInv(s), Len(s.segs) < MaxSegments \/ s.buf = << >>, NEW op \in Separators
    PROVE  /\ SplitInv(Flush(s, op))
           /\ Flush(s, op).buf = << >>
  <1> DEFINE e == [op |-> s.op, seg |-> s.buf]
  <1>1. /\ s \in SplitState /\ s.segs \in Seq(Segment) /\ s.op \in Separators
        /\ s.buf \in Seq(Symbol)
    BY DEF SplitInv, SplitState
  <1>2. << >> \in Seq(Symbol) /\ Len(s.segs) \in Nat
    BY <1>1, EmptySeq, LenProperties
  <1>3. CASE s.buf = << >> /\ s.segs = << >>
    <2>1. Flush(s, op) = [s EXCEPT !.segs = s.segs, !.op = s.op, !.buf = << >>]
      BY <1>3 DEF Flush
    <2>2. /\ Flush(s, op) \in SplitState
          /\ Flush(s, op).segs = s.segs /\ Flush(s, op).op = s.op /\ Flush(s, op).buf = << >>
      BY <1>1, <1>2, <2>1 DEF SplitState
    <2> QED
      BY <2>2 DEF SplitInv
  <1>4. CASE s.buf = << >> /\ s.segs # << >>
    <2>1. Flush(s, op) = [s EXCEPT !.segs = s.segs, !.op = op, !.buf = << >>]
      BY <1>4 DEF Flush
    <2>2. /\ Flush(s, op) \in SplitState
          /\ Flush(s, op).segs = s.segs /\ Flush(s, op).buf = << >>
      BY <1>1, <1>2, <2>1 DEF SplitState
    <2> QED
      BY <1>4, <2>2 DEF SplitInv
  <1>5. CASE s.buf # << >>
    <2>0. e \in Segment /\ e.op = s.op
      BY ONLY <1>1, <1>5 DEF Segment
    <2>1. Flush(s, op) = [s EXCEPT !.segs = Append(s.segs, e), !.op = op, !.buf = << >>]
      BY <1>5 DEF Flush
    <2> HIDE DEF e
    <2> DEFINE t == Append(s.segs, e)
    <2>2. /\ t \in Seq(Segment) /\ t # << >> /\ Len(t) = Len(s.segs) + 1
          /\ \A i \in 1 .. Len(s.segs) : t[i] = s.segs[i]
          /\ t[Len(s.segs) + 1] = e
      BY <1>1, <2>0, AppendProperties
    <2> HIDE DEF t
    <2>3. t[1].op = ";"
      <3>1. CASE s.segs = << >>
        <4>1. Len(s.segs) + 1 = 1
          BY <3>1, EmptySeq
        <4>2. t[1] = e
          BY <2>2, <4>1
        <4> QED
          BY <2>0, <3>1, <4>2 DEF SplitInv
      <3>2. CASE s.segs # << >>
        <4>1. 1 \in 1 .. Len(s.segs)
          BY <1>1, <3>2, EmptySeq
        <4> QED
          BY <2>2, <3>2, <4>1 DEF SplitInv
      <3> QED
        BY <3>1, <3>2
    <2>4. /\ Flush(s, op) \in SplitState
          /\ Flush(s, op).segs = t /\ Flush(s, op).buf = << >>
      BY <1>1, <1>2, <2>1, <2>2 DEF SplitState, t
    <2>5. Len(t) <= MaxSegments
      BY <1>2, <1>5, <2>2, BoundAssumption
    <2> QED
      BY <2>2, <2>3, <2>4, <2>5 DEF SplitInv
  <1> QED
    BY <1>3, <1>4, <1>5

\* A symbol that only lengthens the segment (commands.py).
LEMMA KeepKeeps ==
    ASSUME NEW s, SplitInv(s), ~Full(s), NEW c \in Symbol,
           NEW q \in QuoteMarks, NEW esc \in BOOLEAN
    PROVE  SplitInv([s EXCEPT !.buf = Append(s.buf, c), !.quote = q, !.escaped = esc])
  <1> DEFINE t == [s EXCEPT !.buf = Append(s.buf, c), !.quote = q, !.escaped = esc]
  <1>1. s \in SplitState /\ s.segs \in Seq(Segment) /\ s.buf \in Seq(Symbol)
    BY DEF SplitInv, SplitState
  <1>2. Append(s.buf, c) \in Seq(Symbol)
    BY <1>1, AppendProperties
  <1>3. t \in SplitState /\ t.segs = s.segs /\ t.op = s.op
    BY <1>1, <1>2 DEF SplitState
  <1>4. Len(s.segs) # MaxSegments
    BY <1>1, FullOrNot
  <1> HIDE DEF t
  <1>5. SplitInv(t)
    BY <1>3, <1>4 DEF SplitInv
  <1> QED
    BY <1>5 DEF t

\* One symbol of the line (commands.py).
LEMMA ScanKeeps ==
    ASSUME NEW s, SplitInv(s), NEW c \in Symbol
    PROVE  SplitInv(Scan(s, c))
  <1> DEFINE keep == [s EXCEPT !.buf = Append(s.buf, c), !.escaped = FALSE]
             With(q, esc) == [s EXCEPT !.buf = Append(s.buf, c), !.quote = q, !.escaped = esc]
  <1>1. s \in SplitState /\ s.quote \in QuoteMarks /\ s.segs \in Seq(Segment)
    BY DEF SplitInv, SplitState
  <1>2. CASE Full(s)
    BY <1>2 DEF Scan
  <1>3. CASE ~Full(s) /\ c.name \in Separators /\ Scan(s, c) = Flush(s, c.name)
    <2>1. Len(s.segs) < MaxSegments
      BY <1>1, <1>3, FullOrNot
    <2> QED
      BY <1>3, <2>1, FlushKeeps
  <1>4. CASE ~Full(s) /\ ~(c.name \in Separators /\ Scan(s, c) = Flush(s, c.name))
    <2>1. /\ keep = With(s.quote, FALSE)
          /\ [keep EXCEPT !.escaped = TRUE] = With(s.quote, TRUE)
          /\ \A q : [keep EXCEPT !.quote = q] = With(q, FALSE)
      BY <1>1 DEF SplitState
    <2>2. \/ Scan(s, c) = keep
          \/ Scan(s, c) = [keep EXCEPT !.escaped = TRUE]
          \/ \E q \in QuoteMarks : Scan(s, c) = [keep EXCEPT !.quote = q]
      <3>1. "" \in QuoteMarks /\ (c.name \in {"'", "\""} => c.name \in QuoteMarks)
        BY DEF QuoteMarks
      <3> QED
        BY <1>1, <1>4, <3>1 DEF Scan
    <2>3. \E q \in QuoteMarks, esc \in BOOLEAN : Scan(s, c) = With(q, esc)
      BY <1>1, <2>1, <2>2
    <2>4. PICK q \in QuoteMarks, esc \in BOOLEAN : Scan(s, c) = With(q, esc)
      BY <2>3
    <2>5. SplitInv(With(q, esc))
      BY <1>4, KeepKeeps
    <2> QED
      BY <2>4, <2>5
  <1> QED
    BY <1>2, <1>3, <1>4

\* The segments of a line (commands.py, split_command_line).
LEMMA SplitResult ==
    ASSUME NEW raw \in Seq(Symbol)
    PROVE  /\ SplitCommandLine(raw) \in Seq(Segment)
           /\ SplitCommandLine(raw) # << >> => SplitCommandLine(raw)[1].op = ";"
           /\ Len(SplitCommandLine(raw)) <= MaxSegments
  <1> DEFINE s == ScanAll(Start, raw)
             X == {x \in SplitState : SplitInv(x)}
  <1>1. /\ Len(raw) \in Nat /\ DOMAIN raw = 1 .. Len(raw)
        /\ \A m \in 1 .. Len(raw) : raw[m] \in Symbol
    BY LenProperties, ElementOfSeq
  <1>3. SplitInv(Start)
    <2>1. << >> \in Seq(Segment) /\ << >> \in Seq(Symbol) /\ Len(<< >>) = 0
      BY EmptySeq
    <2>2. Start \in SplitState /\ Start.segs = << >> /\ Start.op = ";" /\ Start.buf = << >>
      <3>1. "" \in QuoteMarks
        BY DEF QuoteMarks
      <3> QED
        BY <2>1, <3>1 DEF Start, SplitState, Separators
    <2>3. Len(Start.segs) <= MaxSegments /\ Len(Start.segs) # MaxSegments
      <3>1. Len(Start.segs) = 0
        BY <2>1, <2>2
      <3>2. 0 <= MaxSegments /\ 0 # MaxSegments
        BY BoundAssumption
      <3> QED
        BY <3>1, <3>2
    <2> QED
      BY <2>2, <2>3 DEF SplitInv
  <1>4. Start \in X /\ \A x \in X : \A m \in 1 .. Len(raw) : Scan(x, raw[m]) \in X
    BY ONLY <1>1, <1>3, ScanKeeps DEF SplitInv
  <1>5. SplitInv(s)
    <2>1. s \in X
      <3> HIDE DEF X
      <3> QED
        BY ONLY <1>1, <1>4, ScanFold
    <2> QED
      BY ONLY <2>1
  <1> HIDE DEF s
  <1>6. Len(s.segs) < MaxSegments \/ s.buf = << >>
    <2>1. s.segs \in Seq(Segment) /\ Len(s.segs) <= MaxSegments
      BY <1>5 DEF SplitInv, SplitState
    <2> QED
      BY <1>5, <2>1, FullOrNot DEF SplitInv
  <1>7. SplitInv(Flush(s, ";"))
    BY <1>5, <1>6, FlushKeeps DEF Separators
  <1>8. SplitCommandLine(raw) = Flush(s, ";").segs
    BY DEF SplitCommandLine, Start, ScanAll, s
  <1> QED
    BY <1>7, <1>8 DEF SplitInv, SplitState

-----------------------------------------------------------------------------
(* handle_command.                                                          *)

\* One more segment in the trace.
IsAppended(tr, e, u) ==
    /\ Len(tr) \in Nat /\ DOMAIN tr = 1 .. Len(tr)
    /\ u \in Seq(Range(u)) /\ u # << >>
    /\ Len(u) = Len(tr) + 1 /\ DOMAIN u = 1 .. (Len(tr) + 1)
    /\ \A i \in 1 .. Len(tr) : u[i] = tr[i]
    /\ u[Len(tr) + 1] = e
    /\ tr = << >> <=> Len(tr) = 0

\* Appending to a trace makes a trace.
LEMMA TraceAppend ==
    ASSUME NEW tr, TraceOK(tr), NEW e, NEW u, u = Append(tr, e)
    PROVE  IsAppended(tr, e, u)
  <1> DEFINE S == Range(tr) \cup {e}
  <1>1. tr \in Seq(S) /\ e \in S
    BY SeqMonotonic DEF TraceOK
  <1> HIDE DEF S
  <1>2. /\ u \in Seq(S) /\ u # << >> /\ Len(u) = Len(tr) + 1
        /\ \A i \in 1 .. Len(tr) : u[i] = tr[i]
        /\ u[Len(tr) + 1] = e
    BY <1>1, AppendProperties
  <1>3. tr = << >> <=> Len(tr) = 0
    BY <1>1, EmptySeq
  <1> QED
    BY <1>1, <1>2, <1>3, LenProperties, SeqOfRange DEF IsAppended

\* A value of a trace tells truth from falsehood for every segment.
LEMMA ValueTypes ==
    ASSUME NEW tr, TraceOK(tr), NEW V, IsValue(V, tr)
    PROVE  V \in Values(tr)
  <1>1. \A i \in DOMAIN tr : V[i] \in BOOLEAN
    <2> SUFFICES ASSUME NEW i \in DOMAIN tr PROVE V[i] \in BOOLEAN
      OBVIOUS
    <2>1. tr[i].op \in {";", "&&", "||"}
      BY DEF TraceOK, Separators
    <2>2. V[i] = IF tr[i].op = ";" THEN Ok(tr, i)
                 ELSE IF tr[i].op = "&&" THEN V[i - 1] /\ Ok(tr, i)
                 ELSE V[i - 1] \/ Ok(tr, i)
      BY DEF IsValue
    <2>3. Ok(tr, i) \in BOOLEAN
      BY DEF Ok
    <2> QED
      BY <2>1, <2>2, <2>3
  <1>2. V = [i \in DOMAIN tr |-> V[i]]
    BY DEF IsValue
  <1> QED
    BY <1>1, <1>2 DEF Values

\* The trace of a line none of which has been run.
LEMMA EmptyTrace ==
    ASSUME NEW tr, tr = << >>, NEW st
    PROVE  TraceOK(tr) /\ Agree(tr, st) /\ Len(tr) = 0
  <1>1. tr \in Seq(Range(tr)) /\ Len(tr) = 0 /\ DOMAIN tr = {}
    BY EmptySeq
  <1>2. TraceOK(tr)
    BY <1>1 DEF TraceOK
  <1>3. IsValue(tr, tr)
    BY <1>1 DEF IsValue
  <1>4. Values(tr) # {}
    BY <1>2, <1>3, ValueTypes
  <1>5. \A V \in Values(tr) : ArmsRight(V, tr)
    BY <1>1 DEF ArmsRight
  <1> QED
    BY <1>1, <1>2, <1>4, <1>5 DEF Agree

\* A segment e after those of tr, with the status s0 before and s1 after it.
SegmentStep(tr, e, s0, s1) ==
    /\ e.op \in Separators
    /\ tr = << >> => e.op = ";"
    /\ e.ran \in BOOLEAN
    /\ e.ran <=> ~((e.op = "&&" /\ s0 # 0) \/ (e.op = "||" /\ s0 = 0))
    /\ s1 = IF e.ran THEN e.status ELSE s0

\* A segment is over: it ran, and the status is its own, or it was skipped, and
\* the status is the one before it (manager.py, handle_command).
LEMMA OneSegment ==
    ASSUME NEW tr, TraceOK(tr), NEW s0, Agree(tr, s0),
           NEW e, NEW s1, SegmentStep(tr, e, s0, s1), NEW u, u = Append(tr, e)
    PROVE  TraceOK(u) /\ Agree(u, s1) /\ Len(u) = Len(tr) + 1 /\ u # << >>
  <1>1. /\ e.ran \in BOOLEAN /\ e.op \in {";", "&&", "||"} /\ e.op \in Separators
        /\ e.op # ";" => tr # << >>
    BY DEF SegmentStep, Separators
  <1>2. /\ Len(tr) \in Nat /\ DOMAIN tr = 1 .. Len(tr)
        /\ u \in Seq(Range(u)) /\ u # << >>
        /\ Len(u) = Len(tr) + 1 /\ DOMAIN u = 1 .. (Len(tr) + 1)
        /\ \A i \in 1 .. Len(tr) : u[i] = tr[i]
        /\ u[Len(tr) + 1] = e
        /\ tr = << >> <=> Len(tr) = 0
    <2>1. IsAppended(tr, e, u)
      BY TraceAppend
    <2> QED
      BY <2>1 DEF IsAppended
  <1>3. PICK n : n = Len(tr) + 1
    OBVIOUS
  <1>4. /\ n \in Nat /\ n \in 1 .. n /\ Len(u) = n /\ DOMAIN u = 1 .. n
        /\ u[n] = e
        /\ n \notin 1 .. Len(tr)
        /\ \A i \in 1 .. n : i \in 1 .. Len(tr) \/ i = n
        /\ \A i \in 1 .. Len(tr) : i \in 1 .. n
        /\ tr # << >> => n - 1 \in 1 .. Len(tr) /\ n - 1 = Len(tr)
    BY <1>2, <1>3
  <1>5. \A i \in 1 .. Len(tr) : Ok(u, i) = Ok(tr, i)
    BY <1>2 DEF Ok
  <1>6. Ok(u, n) = (e.ran /\ e.status = 0)
    BY <1>4 DEF Ok
  <1>7. ASSUME NEW i \in 1 .. Len(tr)
        PROVE  /\ tr[i].op \in {";", "&&", "||"} /\ u[i] = tr[i]
               /\ tr[i].op # ";" => i - 1 \in 1 .. Len(tr)
    <2>1. tr[i].op \in {";", "&&", "||"}
      BY <1>2 DEF TraceOK, Separators
    <2>2. tr[1].op = ";"
      <3>1. Len(tr) # 0
        BY <1>2
      <3> QED
        BY <1>2, <3>1 DEF TraceOK
    <2>3. i # 1 => i - 1 \in 1 .. Len(tr)
      BY <1>2
    <2> QED
      BY <1>2, <2>1, <2>2, <2>3
  <1>8. TraceOK(u)
    <2>1. ASSUME NEW i \in 1 .. n PROVE u[i].op \in Separators /\ u[i].ran \in BOOLEAN
      <3>1. CASE i = n
        BY <1>1, <1>4, <3>1
      <3>2. CASE i \in 1 .. Len(tr)
        BY <1>2, <3>2 DEF TraceOK
      <3> QED
        BY <1>4, <3>1, <3>2
    <2>2. u[1].op = ";"
      <3>1. CASE tr = << >>
        <4>1. n = 1
          BY <1>2, <1>3, <3>1
        <4> QED
          BY <1>1, <1>4, <3>1, <4>1
      <3>2. CASE tr # << >>
        <4>1. 1 \in 1 .. Len(tr)
          BY <1>2, <3>2
        <4> QED
          BY <1>2, <3>2, <4>1 DEF TraceOK
      <3> QED
        BY <3>1, <3>2
    <2> QED
      BY <1>2, <1>4, <2>1, <2>2 DEF TraceOK
  <1> DEFINE Rule(W, i) == IF u[i].op = ";" THEN Ok(u, i)
                           ELSE IF u[i].op = "&&" THEN W[i - 1] /\ Ok(u, i)
                           ELSE W[i - 1] \/ Ok(u, i)
  <1>9. Values(u) # {}
    <2>1. PICK V : V \in [1 .. Len(tr) -> BOOLEAN] /\ IsValue(V, tr)
      BY <1>2 DEF Agree, Values
    <2>2. PICK last : last = IF e.op = ";" THEN Ok(u, n)
                             ELSE IF e.op = "&&" THEN V[n - 1] /\ Ok(u, n)
                             ELSE V[n - 1] \/ Ok(u, n)
      OBVIOUS
    <2>3. PICK W : W = [i \in 1 .. n |-> IF i = n THEN last ELSE V[i]]
      OBVIOUS
    <2>4. W[n] = last
      BY <1>4, <2>3
    <2>5. \A i \in 1 .. Len(tr) : W[i] = V[i]
      BY <1>4, <2>3
    <2>6. ASSUME NEW i \in 1 .. n PROVE W[i] = Rule(W, i)
      <3>1. CASE i = n
        <4>1. e.op # ";" => W[n - 1] = V[n - 1]
          BY <1>1, <1>4, <2>5
        <4>2. last = Rule(W, n)
          BY <1>4, <2>2, <4>1 DEF Separators
        <4> QED
          BY <2>4, <3>1, <4>2
      <3>2. CASE i \in 1 .. Len(tr)
        <4>1. W[i] = V[i] /\ (tr[i].op # ";" => W[i - 1] = V[i - 1])
          BY <1>7, <2>5, <3>2
        <4>2. V[i] = IF tr[i].op = ";" THEN Ok(tr, i)
                     ELSE IF tr[i].op = "&&" THEN V[i - 1] /\ Ok(tr, i)
                     ELSE V[i - 1] \/ Ok(tr, i)
          BY <1>2, <2>1, <3>2 DEF IsValue
        <4>3. u[i] = tr[i] /\ tr[i].op \in {";", "&&", "||"} /\ Ok(u, i) = Ok(tr, i)
          BY <1>5, <1>7, <3>2
        <4> QED
          BY <4>1, <4>2, <4>3
      <3> QED
        BY <1>4, <3>1, <3>2
    <2>7. W = [i \in 1 .. n |-> W[i]]
      BY <2>3
    <2>8. IsValue(W, u)
      BY <1>4, <2>6, <2>7 DEF IsValue
    <2> QED
      BY <1>8, <2>8, ValueTypes
  <1>10. ASSUME NEW W \in Values(u)
         PROVE  ArmsRight(W, u) /\ (W[n] <=> s1 = 0)
    <2>1. W \in [1 .. n -> BOOLEAN] /\ \A i \in 1 .. n : W[i] = Rule(W, i)
      BY <1>4 DEF Values, IsValue
    <2>2. PICK V : V = [i \in 1 .. Len(tr) |-> W[i]]
      OBVIOUS
    <2>3. \A i \in 1 .. Len(tr) : V[i] = W[i]
      BY <2>2
    <2>4. V \in Values(tr)
      <3>1. ASSUME NEW i \in 1 .. Len(tr)
            PROVE  W[i] = IF tr[i].op = ";" THEN Ok(tr, i)
                          ELSE IF tr[i].op = "&&" THEN V[i - 1] /\ Ok(tr, i)
                          ELSE V[i - 1] \/ Ok(tr, i)
        <4>1. W[i] = Rule(W, i)
          BY <1>4, <2>1
        <4>2. tr[i].op # ";" => V[i - 1] = W[i - 1]
          BY <1>7, <2>3
        <4>3. u[i] = tr[i] /\ tr[i].op \in {";", "&&", "||"} /\ Ok(u, i) = Ok(tr, i)
          BY <1>5, <1>7
        <4> QED
          BY <4>1, <4>2, <4>3
      <3>2. IsValue(V, tr)
        BY <1>2, <2>2, <3>1 DEF IsValue
      <3> QED
        BY <3>2, ValueTypes
    <2>5. ArmsRight(V, tr) /\ (tr # << >> => (V[Len(tr)] <=> s0 = 0))
      BY <2>4 DEF Agree
    <2>6. e.op # ";" => (W[n - 1] <=> s0 = 0)
      BY <1>1, <1>4, <2>3, <2>5
    <2>7. e.ran <=> \/ e.op = ";"
                    \/ e.op = "&&" /\ W[n - 1]
                    \/ e.op = "||" /\ ~W[n - 1]
      <3>1. e.ran <=> ~((e.op = "&&" /\ s0 # 0) \/ (e.op = "||" /\ s0 = 0))
        BY DEF SegmentStep
      <3>2. CASE e.op = ";"
        <4>1. e.op # "&&" /\ e.op # "||"
          BY <3>2
        <4> QED
          BY <3>1, <3>2, <4>1
      <3>3. CASE e.op = "&&"
        <4>1. e.op # ";" /\ e.op # "||"
          BY <3>3
        <4>2. e.ran <=> s0 = 0
          BY <3>1, <3>3, <4>1
        <4>3. W[n - 1] <=> s0 = 0
          BY <2>6, <4>1
        <4> QED
          BY <3>3, <4>1, <4>2, <4>3
      <3>4. CASE e.op = "||"
        <4>1. e.op # ";" /\ e.op # "&&"
          BY <3>4
        <4> QED
          BY <2>6, <3>1, <3>4, <4>1
      <3> QED
        BY <1>1, <3>2, <3>3, <3>4
    <2>8. W[n] = Rule(W, n) /\ W[n] \in BOOLEAN
      BY <1>4, <2>1
    <2>9. W[n] <=> s1 = 0
      <3>1. CASE e.op = ";"
        <4>1. W[n] = Ok(u, n)
          BY <1>4, <2>8, <3>1
        <4> QED
          BY <1>6, <2>7, <3>1, <4>1 DEF SegmentStep
      <3>2. CASE e.op = "&&"
        <4>1. W[n] = (W[n - 1] /\ Ok(u, n))
          BY <1>4, <2>8, <3>2
        <4> QED
          BY <1>6, <2>6, <2>7, <3>2, <4>1 DEF SegmentStep
      <3>3. CASE e.op = "||"
        <4>1. W[n] = (W[n - 1] \/ Ok(u, n))
          BY <1>4, <2>8, <3>3
        <4> QED
          BY <1>6, <2>6, <2>7, <3>3, <4>1 DEF SegmentStep
      <3> QED
        BY <1>1, <3>1, <3>2, <3>3
    <2>10. ASSUME NEW i \in 1 .. n
           PROVE  u[i].ran <=> \/ u[i].op = ";"
                               \/ u[i].op = "&&" /\ W[i - 1]
                               \/ u[i].op = "||" /\ ~W[i - 1]
      <3>1. CASE i = n
        <4>1. u[i].ran = e.ran /\ u[i].op = e.op /\ W[i - 1] = W[n - 1]
          BY <1>4, <3>1
        <4> QED
          BY <2>7, <4>1
      <3>2. CASE i \in 1 .. Len(tr)
        <4>1. tr[i].ran <=> \/ tr[i].op = ";"
                            \/ tr[i].op = "&&" /\ V[i - 1]
                            \/ tr[i].op = "||" /\ ~V[i - 1]
          BY <1>2, <2>5, <3>2 DEF ArmsRight
        <4>2. u[i] = tr[i] /\ (tr[i].op # ";" => V[i - 1] = W[i - 1])
          BY <1>7, <2>3, <3>2
        <4> QED
          BY <4>1, <4>2
      <3> QED
        BY <1>4, <3>1, <3>2
    <2> QED
      BY <1>4, <2>9, <2>10 DEF ArmsRight
  <1>11. Agree(u, s1)
    BY <1>4, <1>9, <1>10 DEF Agree
  <1> QED
    BY <1>2, <1>8, <1>11

\* The head of a line, and what is left of it.
LEMMA LineSteps ==
    ASSUME line \in Seq(Segment), line # << >>
    PROVE  /\ Head(line).op \in Separators /\ Head(line) = line[1]
           /\ Tail(line) \in Seq(Segment) /\ Len(Tail(line)) = Len(line) - 1
           /\ Len(line) \in Nat /\ Len(line) # 0
  <1>1. Len(line) \in Nat /\ Len(line) # 0 /\ Head(line) = line[1]
    BY EmptySeq, LenProperties
  <1>2. Head(line) \in Segment /\ Tail(line) \in Seq(Segment) /\ Len(Tail(line)) = Len(line) - 1
    BY HeadTailProperties
  <1> QED
    BY <1>1, <1>2 DEF Segment

\* The end of a segment, run or skipped (manager.py, handle_command).
LEMMA SegmentOver ==
    ASSUME ChainInv, ValueInv, line # << >>, NEW e,
           e.op = Head(line).op, e.ran \in BOOLEAN, e.ran <=> ~Skipped(Head(line).op),
           status' = (IF e.ran THEN e.status ELSE status),
           trace' = Append(trace, e),
           line' = << >> \/ line' = Tail(line)
    PROVE  ChainInv' /\ ValueInv'
  <1>1. line \in Seq(Segment) /\ TraceOK(trace)
    BY DEF ChainInv
  <1>2. /\ Head(line).op \in Separators /\ Head(line) = line[1]
        /\ Tail(line) \in Seq(Segment) /\ Len(Tail(line)) = Len(line) - 1
        /\ Len(line) \in Nat /\ Len(line) # 0
    BY <1>1, LineSteps
  <1>3. SegmentStep(trace, e, status, status')
    <2>1. e.op \in Separators
      BY <1>2
    <2>2. trace = << >> => e.op = ";"
      BY <1>2 DEF ChainInv
    <2>3. e.ran <=> ~((e.op = "&&" /\ status # 0) \/ (e.op = "||" /\ status = 0))
      BY DEF Skipped
    <2> QED
      BY <2>1, <2>2, <2>3 DEF SegmentStep
  <1>4. /\ TraceOK(trace') /\ Agree(trace', status')
        /\ Len(trace') = Len(trace) + 1 /\ trace' # << >>
    BY <1>1, <1>3, OneSegment DEF ValueInv
  <1>5. line' \in Seq(Segment) /\ Len(line') <= Len(line) - 1
    <2>1. << >> \in Seq(Segment) /\ Len(<< >>) = 0
      BY EmptySeq
    <2>2. 0 <= Len(line) - 1 /\ Len(line) - 1 <= Len(line) - 1
      BY <1>2
    <2> QED
      BY <1>2, <2>1, <2>2
  <1>6. Len(line') + Len(trace') <= MaxSegments
    <2>1. Len(line') \in Nat /\ Len(trace) \in Nat /\ MaxSegments \in Nat
      BY <1>1, <1>5, LenProperties, BoundAssumption DEF TraceOK
    <2>2. Len(line) + Len(trace) <= MaxSegments
      BY DEF ChainInv
    <2> QED
      BY <1>2, <1>4, <1>5, <2>1, <2>2
  <1> QED
    BY <1>4, <1>5, <1>6 DEF ChainInv, ValueInv

\* A new line (manager.py, handle_command).
LEMMA HandleCommandKeeps ==
    ASSUME ChainInv, ValueInv, NEW raw \in Lines, HandleCommand(raw)
    PROVE  ChainInv' /\ ValueInv'
  <1>1. raw \in Seq(Symbol)
    BY LineAssumption
  <1>2. line' = SplitCommandLine(raw) /\ trace' = << >>
    BY DEF HandleCommand
  <1>3. /\ line' \in Seq(Segment) /\ Len(line') <= MaxSegments
        /\ line' # << >> => line'[1].op = ";"
    BY <1>1, <1>2, SplitResult
  <1>4. TraceOK(trace') /\ Agree(trace', status') /\ Len(trace') = 0
    BY <1>2, EmptyTrace
  <1>5. Len(line') + Len(trace') <= MaxSegments
    <2>1. Len(line') \in Nat
      BY <1>3, LenProperties
    <2> QED
      <3>1. \A m, k \in Nat : m <= k => m + 0 <= k
        OBVIOUS
      <3>2. MaxSegments \in Nat
        BY BoundAssumption
      <3>3. Len(line') + 0 <= MaxSegments
        BY <1>3, <2>1, <3>1, <3>2
      <3> QED
        BY <1>4, <3>3
  <1> QED
    BY <1>3, <1>4, <1>5 DEF ChainInv, ValueInv

\* The chain of a line and the value of its lists hold throughout (manager.py,
\* handle_command; commands.py, split_command_line): a line has no more segments
\* than MAX_CHAIN_SEGMENTS, its first depends on none before it, and the status
\* is the value of the list that ends at the last segment run or skipped.
THEOREM ChainInductive == Spec => [](ChainInv /\ ValueInv)
  <1>1. Init => ChainInv /\ ValueInv
    <2> SUFFICES ASSUME Init PROVE ChainInv /\ ValueInv
      OBVIOUS
    <2>1. line = << >> /\ trace = << >>
      BY DEF Init
    <2>2. TraceOK(trace) /\ Agree(trace, status) /\ Len(trace) = 0
      BY <2>1, EmptyTrace
    <2>3. line \in Seq(Segment) /\ Len(line) = 0
      BY <2>1, EmptySeq
    <2>4. Len(line) + Len(trace) <= MaxSegments
      BY <2>2, <2>3, BoundAssumption
    <2> QED
      BY <2>1, <2>2, <2>3, <2>4 DEF ChainInv, ValueInv
  <1>2. ChainInv /\ ValueInv /\ [Next]_vars => (ChainInv /\ ValueInv)'
    <2> SUFFICES ASSUME ChainInv, ValueInv, [Next]_vars PROVE ChainInv' /\ ValueInv'
      OBVIOUS
    <2>1. CASE \E raw \in Lines : HandleCommand(raw)
      BY <2>1, HandleCommandKeeps
    <2>2. CASE SkipSegment
      <3> DEFINE e == [op |-> Head(line).op, ran |-> FALSE, status |-> 0]
      <3>1. e.op = Head(line).op /\ e.ran = FALSE
        OBVIOUS
      <3>2. /\ line # << >> /\ Skipped(Head(line).op) /\ line' = Tail(line)
            /\ status' = status /\ trace' = Append(trace, e)
        BY <2>2 DEF SkipSegment, AfterSkip
      <3> HIDE DEF e
      <3> QED
        BY <3>1, <3>2, SegmentOver
    <2>3. ASSUME NEW r, NEW st, line # << >>, ~Skipped(Head(line).op), EndSegment(r, st)
          PROVE  ChainInv' /\ ValueInv'
      <3> DEFINE e == [op |-> Head(line).op, ran |-> TRUE, status |-> st]
      <3>1. e.op = Head(line).op /\ e.ran = TRUE /\ e.status = st
        OBVIOUS
      <3>2. /\ line' = << >> \/ line' = Tail(line)
            /\ status' = st /\ trace' = Append(trace, e)
        BY <2>3 DEF EndSegment
      <3> HIDE DEF e
      <3> QED
        BY <2>3, <3>1, <3>2, SegmentOver
    <2>4. CASE RunSegment
      <3>1. PICK r : EndSegment(r, r.status) /\ line # << >> /\ ~Skipped(Head(line).op)
        BY <2>4 DEF RunSegment
      <3> QED
        BY <2>3, <3>1
    <2>5. CASE RunDownload
      <3>1. PICK r, st : EndSegment(r, st) /\ line # << >> /\ ~Skipped(Head(line).op)
        BY <2>5 DEF RunDownload
      <3> QED
        BY <2>3, <3>1
    <2>6. CASE UNCHANGED vars
      BY <2>6 DEF vars, ChainInv, ValueInv
    <2> QED
      BY <2>1, <2>2, <2>4, <2>5, <2>6 DEF Next
  <1> QED
    BY <1>1, <1>2, PTL DEF Spec

\* manager.py, handle_command: whatever the commands do and however many lines
\* are typed, a segment runs if and only if a shell's short circuit evaluation
\* of the && and || lists says so, also after segments that were skipped.
THEOREM ArmsAreRight == Spec => []ArmsTaken
  <1>1. ChainInv /\ ValueInv => ArmsTaken
    <2> SUFFICES ASSUME ChainInv, ValueInv PROVE ArmsTaken
      OBVIOUS
    <2>1. \E V : V = [i \in DOMAIN trace |->
                        LET ok == trace[i].ran /\ trace[i].status = 0
                        IN  IF trace[i].op = ";" THEN ok
                            ELSE IF trace[i].op = "&&" THEN V[i - 1] /\ ok
                            ELSE V[i - 1] \/ ok]
      BY DEF ValueInv, Agree, Values, IsValue, Ok
    <2>2. ListSucceeds = [i \in DOMAIN trace |->
                            LET ok == trace[i].ran /\ trace[i].status = 0
                            IN  IF trace[i].op = ";" THEN ok
                                ELSE IF trace[i].op = "&&" THEN ListSucceeds[i - 1] /\ ok
                                ELSE ListSucceeds[i - 1] \/ ok]
      BY <2>1 DEF ListSucceeds
    <2>3. IsValue(ListSucceeds, trace)
      BY <2>2 DEF IsValue, Ok
    <2>4. ArmsRight(ListSucceeds, trace)
      BY <2>3, ValueTypes DEF ValueInv, Agree, ChainInv
    <2> QED
      BY <2>4 DEF ArmsTaken, ArmsRight
  <1> QED
    BY <1>1, ChainInductive, PTL


-----------------------------------------------------------------------------
(* The tree of a session.                                                   *)

\* Whatever the commands did to it the tree is one whose entries all lead to
\* objects that are there; and no object has two entries, unless a mv took a
\* source whose last name _lookup skips.
TreeInv ==
    /\ fs \in Good(~moved)
    /\ Clean(fs)
    /\ session \in [should_exit : BOOLEAN, lines : 0 .. MaxLines, downloads : Nat]
    /\ status \in Statuses
    /\ moved \in BOOLEAN

\* The tree that every session starts with.
LEMMA SeedGood == Seed \in Good(TRUE) /\ Clean(Seed)
  <1> DEFINE K == [d \in Nodes |-> CASE d \in {Root, 2, 5, 6} -> "dir"
                                     [] d = 3 -> "file"
                                     [] d = 4 -> "link"
                                     [] OTHER -> "free"]
             E == [d \in Nodes |->
                     CASE d = Root -> [NoEntries EXCEPT !["bin"] = 2, !["root"] = 5, !["tmp"] = 6]
                       [] d = 2 -> [n \in Names |-> CASE n = "busybox" -> 3
                                                      [] n = "sh" -> 4
                                                      [] OTHER -> None]
                       [] OTHER -> NoEntries]
  <1>1. Root = 1 /\ None = 0
    BY ONLY DEF Root, None
  <1>2. /\ 1 \in Nodes /\ 2 \in Nodes /\ 3 \in Nodes /\ 4 \in Nodes /\ 5 \in Nodes /\ 6 \in Nodes
    BY ONLY NodesAssumption DEF Nodes
  <1>3. /\ "root" \in Names /\ "bin" \in Names /\ "busybox" \in Names /\ "sh" \in Names
        /\ "tmp" \in Names
    BY ONLY NamesAssumption
  <1>4. /\ NoEntries \in [Names -> Nodes \cup {None}]
        /\ \A n \in Names : NoEntries[n] = None
    BY ONLY DEF NoEntries
  <1>5. Seed.kind = K /\ Seed.entries = E /\ Seed.cwd = <<"root">>
        /\ Seed = [kind |-> K, entries |-> E, cwd |-> <<"root">>]
    BY ONLY DEF Seed
  <1>6. K \in [Nodes -> {"free", "dir", "file", "link"}]
    BY ONLY TRUE
  <1>7. K[1] = "dir" /\ K[2] = "dir" /\ K[3] = "file" /\ K[4] = "link" /\ K[5] = "dir" /\ K[6] = "dir"
    BY ONLY <1>1, <1>2
  <1> DEFINE A == [NoEntries EXCEPT !["bin"] = 2, !["root"] = 5, !["tmp"] = 6]
             B == [n \in Names |-> CASE n = "busybox" -> 3
                                     [] n = "sh" -> 4
                                     [] OTHER -> None]
  <1>8. /\ A \in [Names -> Nodes \cup {None}]
        /\ \A n \in Names : A[n] = IF n = "bin" THEN 2 ELSE IF n = "root" THEN 5
                                   ELSE IF n = "tmp" THEN 6 ELSE None
    BY ONLY <1>2, <1>3, <1>4
  <1>9. /\ B \in [Names -> Nodes \cup {None}]
        /\ \A n \in Names : B[n] = IF n = "busybox" THEN 3 ELSE IF n = "sh" THEN 4 ELSE None
    BY ONLY <1>2, <1>3
  <1>10. \A d \in Nodes : E[d] = IF d = 1 THEN A ELSE IF d = 2 THEN B ELSE NoEntries
    BY ONLY <1>1
  <1>11. E \in [Nodes -> [Names -> Nodes \cup {None}]]
    <2>0. E = [d \in Nodes |-> E[d]]
      BY ONLY TRUE
    <2> HIDE DEF A, B, E
    <2>1. \A d \in Nodes : E[d] \in [Names -> Nodes \cup {None}]
      BY ONLY <1>4, <1>8, <1>9, <1>10
    <2> QED
      BY ONLY <2>0, <2>1
  <1> HIDE DEF A, B, E, K
  <1>12. Seed \in Tree
    <2>1. <<"root">> \in Seq(Names)
      BY ONLY <1>3
    <2> QED
      BY ONLY <1>5, <1>6, <1>11, <2>1 DEF Tree
  <1>13. ASSUME NEW d \in Nodes, NEW n \in Names, E[d][n] # None
         PROVE  \/ d = 1 /\ n = "bin" /\ E[d][n] = 2
                \/ d = 1 /\ n = "root" /\ E[d][n] = 5
                \/ d = 1 /\ n = "tmp" /\ E[d][n] = 6
                \/ d = 2 /\ n = "busybox" /\ E[d][n] = 3
                \/ d = 2 /\ n = "sh" /\ E[d][n] = 4
    <2>1. CASE d = 1
      <3>1. E[d] = A
        BY ONLY <1>10, <2>1, d \in Nodes
      <3> QED
        BY ONLY <1>8, <1>13, <2>1, <3>1, n \in Names
    <2>2. CASE d = 2
      <3>1. E[d] = B
        BY ONLY <1>10, <2>2, d \in Nodes
      <3> QED
        BY ONLY <1>9, <1>13, <2>2, <3>1, n \in Names
    <2>3. CASE d # 1 /\ d # 2
      BY ONLY <1>4, <1>10, <1>13, <2>3, d \in Nodes, n \in Names
    <2> QED
      BY ONLY <2>1, <2>2, <2>3
  <1>14. Sound(Seed)
    <2>1. ASSUME NEW d \in Nodes, NEW n \in Names, E[d][n] # None PROVE K[E[d][n]] # "free"
      <3>1. E[d][n] = 2 \/ E[d][n] = 3 \/ E[d][n] = 4 \/ E[d][n] = 5 \/ E[d][n] = 6
        BY ONLY <1>13, <2>1, d \in Nodes, n \in Names
      <3> QED
        BY ONLY <1>7, <3>1
    <2> QED
      BY ONLY <1>1, <1>5, <1>7, <1>12, <2>1 DEF Sound
  <1>15. Single(Seed)
    <2>1. ASSUME NEW d \in Nodes, NEW e \in Nodes, NEW m \in Names, NEW n \in Names,
                 E[d][m] # None, E[d][m] = E[e][n]
          PROVE  d = e /\ m = n
      <3>1. E[e][n] # None
        BY ONLY <2>1
      <3> QED
        BY ONLY <1>13, <2>1, <3>1, d \in Nodes, e \in Nodes, m \in Names, n \in Names
    <2>2. ASSUME NEW d \in Nodes, NEW n \in Names PROVE E[d][n] # Root
      BY ONLY <1>1, <1>13, d \in Nodes, n \in Names
    <2> QED
      BY ONLY <1>5, <2>1, <2>2 DEF Single
  <1>16. Clean(Seed)
    <2>1. ASSUME NEW d \in Nodes, K[d] = "free", NEW m \in Names PROVE E[d][m] = None
      <3>1. d # 1 /\ d # 2
        BY ONLY <1>7, <2>1
      <3> QED
        BY ONLY <1>4, <1>10, <3>1, d \in Nodes, m \in Names
    <2> QED
      BY ONLY <1>5, <2>1 DEF Clean
  <1> QED
    BY ONLY <1>12, <1>14, <1>15, <1>16 DEF Good

\* The command of the next segment (commands.py).
LEMMA NextCommand ==
    ASSUME line \in Seq(Segment), line # << >>
    PROVE  CommandOf(Head(line).seg) \in Symbol
  <1>1. Head(line) \in Segment
    BY HeadTailProperties
  <1>2. Head(line).seg \in Seq(Symbol) /\ Head(line).seg # << >>
    BY ONLY <1>1 DEF Segment
  <1> QED
    BY ONLY <1>2, HeadTailProperties DEF CommandOf

\* mv asks for no download.
LEMMA MoveFetchesNothing ==
    ASSUME NEW c, c.name = "mv"
    PROVE  ~Dispatch(c).download
  <1>1. ~Done.download /\ \A t, st : ~Result(t, st).download
    BY ONLY DEF Done, Result
  <1>2. ~Mv(c).download
    <2>1. [Result(MoveNode(fs, c.args[1], c.args[2]), 0) EXCEPT
             !.raised = MoveRaises(fs, c.args[1], c.args[2])].download = FALSE
      BY ONLY DEF Result
    <2> QED
      BY ONLY <1>1, <2>1 DEF Mv
  <1>3. \/ Dispatch(c) = Done \/ Dispatch(c) = Result(fs, 127) \/ Dispatch(c) = Mv(c)
    BY ONLY c.name = "mv" DEF Dispatch, Silent
  <1> QED
    BY ONLY <1>1, <1>2, <1>3

\* The tree after a command, as long as a mv of a source named "root" is noted.
LEMMA CommandKeeps ==
    ASSUME TreeInv, NEW c \in Symbol, HasRoom(c), moved' \in BOOLEAN,
           moved => moved',
           c.name = "mv" /\ Len(c.args) >= 2 /\ NameOf(fs, c.args[1]) = "root" => moved'
    PROVE  Fine(Dispatch(c), ~moved')
  <1> DEFINE b == ~moved'
  <1>1. b \in BOOLEAN
    OBVIOUS
  <1>2. fs \in Good(b)
    BY DEF TreeInv, Good
  <1>3. b /\ c.name = "mv" /\ Len(c.args) >= 2 => NameOf(fs, c.args[1]) # "root"
    OBVIOUS
  <1> HIDE DEF b
  <1>4. Fine(Dispatch(c), b)
    BY ONLY <1>1, <1>2, <1>3, c \in Symbol, HasRoom(c), DispatchFine
  <1> QED
    BY ONLY <1>4 DEF b

\* manager.py, handle_command: every command of every line keeps the tree.
THEOREM TreeInductive == Spec => []TreeInv
  <1>1. Init => TreeInv
    <2> SUFFICES ASSUME Init PROVE TreeInv
      OBVIOUS
    <2>1. fs = Seed /\ status = 0 /\ moved = FALSE
          /\ session = [should_exit |-> FALSE, lines |-> 0, downloads |-> 0]
      BY DEF Init
    <2>2. fs \in Good(~moved) /\ Clean(fs)
      <3>1. ~moved = TRUE
        BY ONLY <2>1
      <3> QED
        BY ONLY <2>1, <3>1, SeedGood
    <2>3. 0 \in 0 .. MaxLines
      BY ONLY BoundAssumption
    <2> QED
      BY ONLY <2>1, <2>2, <2>3 DEF TreeInv, Statuses
  <1>2. ChainInv /\ TreeInv /\ [Next]_vars => TreeInv'
    <2> SUFFICES ASSUME ChainInv, TreeInv, [Next]_vars PROVE TreeInv'
      OBVIOUS
    <2>0. /\ line \in Seq(Segment)
          /\ session \in [should_exit : BOOLEAN, lines : 0 .. MaxLines, downloads : Nat]
          /\ moved \in BOOLEAN /\ status \in Statuses /\ fs \in Good(~moved) /\ Clean(fs)
      BY DEF ChainInv, TreeInv
    <2>1. CASE \E raw \in Lines : HandleCommand(raw)
      <3>1. /\ session.lines < MaxLines /\ session' = [session EXCEPT !.lines = session.lines + 1]
            /\ status' = 0 /\ fs' = fs /\ moved' = moved
        BY ONLY <2>1 DEF HandleCommand
      <3>2. session.lines + 1 \in 0 .. MaxLines
        BY ONLY <2>0, <3>1, BoundAssumption
      <3>3. session' \in [should_exit : BOOLEAN, lines : 0 .. MaxLines, downloads : Nat]
        BY ONLY <2>0, <3>1, <3>2
      <3> QED
        BY ONLY <2>0, <3>1, <3>3 DEF TreeInv, Statuses
    <2>2. CASE SkipSegment
      BY ONLY <2>0, <2>2 DEF SkipSegment, AfterSkip, TreeInv
    <2>3. CASE RunSegment
      <3> DEFINE c == CommandOf(Head(line).seg)
                 r == Dispatch(c)
      <3>1. /\ line # << >> /\ HasRoom(c) /\ fs' = r.fs /\ status' = r.status
            /\ session' = [session EXCEPT !.should_exit = session.should_exit \/ r.exit]
            /\ moved' = \/ moved
                        \/ /\ c.name = "mv" /\ Len(c.args) >= 2
                           /\ NameOf(fs, c.args[1]) = "root"
        BY ONLY <2>3 DEF RunSegment, EndSegment
      <3>2. c \in Symbol
        BY ONLY <2>0, <3>1, NextCommand
      <3> HIDE DEF c
      <3>3. /\ moved' \in BOOLEAN /\ (moved => moved')
            /\ c.name = "mv" /\ Len(c.args) >= 2 /\ NameOf(fs, c.args[1]) = "root" => moved'
        BY ONLY <2>0, <3>1
      <3>4. Fine(r, ~moved')
        BY ONLY <3>1, <3>2, <3>3, TreeInv, CommandKeeps
      <3> HIDE DEF r
      <3>5. fs' \in Good(~moved') /\ Clean(fs') /\ status' \in Statuses /\ r.exit \in BOOLEAN
        BY ONLY <3>1, <3>4 DEF Fine
      <3>6. session' \in [should_exit : BOOLEAN, lines : 0 .. MaxLines, downloads : Nat]
        BY ONLY <2>0, <3>1, <3>5
      <3> QED
        BY ONLY <3>3, <3>5, <3>6 DEF TreeInv
    <2>4. CASE RunDownload
      <3> DEFINE c == CommandOf(Head(line).seg)
                 r == Dispatch(c)
      <3>1. /\ line # << >> /\ HasRoom(c) /\ r.download /\ fs' = r.fs /\ moved' = moved
            /\ session' = [session EXCEPT !.downloads = session.downloads + 1]
        BY ONLY <2>4 DEF RunDownload, EndSegment
      <3>2. status' \in {0, 1}
        BY ONLY <2>4 DEF RunDownload, EndSegment
      <3>3. c \in Symbol
        BY ONLY <2>0, <3>1, NextCommand
      <3> HIDE DEF c
      <3>4. c.name # "mv"
        BY ONLY <3>1, MoveFetchesNothing
      <3>5. Fine(r, ~moved')
        BY ONLY <2>0, <3>1, <3>3, <3>4, TreeInv, CommandKeeps
      <3> HIDE DEF r
      <3>6. fs' \in Good(~moved') /\ Clean(fs')
        BY ONLY <3>1, <3>5 DEF Fine
      <3>7. session' \in [should_exit : BOOLEAN, lines : 0 .. MaxLines, downloads : Nat]
        BY ONLY <2>0, <3>1
      <3> QED
        BY ONLY <2>0, <3>1, <3>2, <3>6, <3>7 DEF TreeInv, Statuses
    <2>5. CASE UNCHANGED vars
      BY ONLY <2>5, TreeInv DEF vars, TreeInv
    <2> QED
      BY ONLY <2>1, <2>2, <2>3, <2>4, <2>5, [Next]_vars DEF Next
  <1> QED
    BY <1>1, <1>2, ChainInductive, PTL DEF Spec

\* commands.py, dispatch, and filesystem.py: whatever is typed, the tree stays a
\* tree, the statuses are the four that the commands have, and a line has no more
\* segments than the limit.
THEOREM TypeCorrect == Spec => []TypeOK
  <1>1. ChainInv /\ TreeInv => TypeOK
    BY DEF ChainInv, TreeInv, TypeOK, Good, Statuses
  <1> QED
    BY <1>1, ChainInductive, TreeInductive, PTL

\* filesystem.py, copy_node and move_node: over any sequence of commands every
\* object has one entry at the most and the root has none, until a mv takes a
\* source whose last name is "root".
THEOREM NothingIsShared == Spec => []NoSharing
  <1>1. TreeInv => NoSharing
    <2> DEFINE At(e) == fs.entries[e[1]][e[2]]
               used == {e \in Nodes \X Names : At(e) # None}
               held == {At(e) : e \in used}
               f == [e \in used |-> At(e)]
    <2> SUFFICES ASSUME TreeInv, ~moved
                 PROVE  Cardinality(used) = Cardinality(held) /\ Root \notin held
      BY DEF NoSharing
    <2>1. fs \in Tree /\ Single(fs)
      BY DEF TreeInv, Good
    <2>2. \A e \in used : /\ e[1] \in Nodes /\ e[2] \in Names /\ e = <<e[1], e[2]>>
                          /\ fs.entries[e[1]][e[2]] # None
      BY ONLY TRUE
    <2>3. \A e \in used : At(e) \in Nodes /\ At(e) # Root
      BY ONLY <2>1, <2>2, TreeParts DEF Single
    <2>4. ASSUME NEW e \in used, NEW g \in used, At(e) = At(g) PROVE e = g
      <3>1. /\ e[1] \in Nodes /\ e[2] \in Names /\ e = <<e[1], e[2]>>
            /\ g[1] \in Nodes /\ g[2] \in Names /\ g = <<g[1], g[2]>>
            /\ fs.entries[e[1]][e[2]] # None /\ fs.entries[e[1]][e[2]] = fs.entries[g[1]][g[2]]
        BY ONLY <2>2, <2>4
      <3>2. e[1] = g[1] /\ e[2] = g[2]
        BY ONLY <2>1, <3>1 DEF Single
      <3> QED
        BY ONLY <3>1, <3>2
    <2> HIDE DEF At, used
    <2>5. f \in Injection(used, Nodes)
      BY ONLY <2>3, <2>4 DEF Injection, IsInjective
    <2>6. IsFiniteSet(used)
      <3>1. IsFiniteSet(Nodes)
        BY SomeNodes
      <3> QED
        BY ONLY <2>5, <3>1, FS_Injection
    <2>7. f \in Bijection(used, held)
      BY ONLY <2>4 DEF Bijection, Injection, Surjection, IsInjective
    <2>8. Cardinality(held) = Cardinality(used)
      <3>1. ExistsBijection(used, held)
        BY ONLY <2>7 DEF ExistsBijection
      <3> QED
        BY ONLY <2>6, <3>1, FS_Bijection
    <2>9. Root \notin held
      BY ONLY <2>3
    <2> QED
      BY ONLY <2>8, <2>9
  <1> QED
    BY <1>1, TreeInductive, PTL

\* filesystem.py, rm, write_file, copy_node and move_node: whatever commands run
\* on whatever tree, what vanishes was below the entries that the command
\* removes or replaces, or was moved onto or into itself.
THEOREM NothingIsLost == Spec => NothingVanishes
  <1>1. ASSUME ChainInv, TreeInv, [Next]_vars, fs' # fs, ~moved'
        PROVE  MayLose(CommandOf(Head(line).seg), Gone(fs, fs'))
    <2> DEFINE c == CommandOf(Head(line).seg)
               r == Dispatch(c)
    <2>1. /\ line # << >> /\ HasRoom(c) /\ fs' = r.fs /\ ~moved
          /\ c.name = "mv" /\ Len(c.args) >= 2 => NameOf(fs, c.args[1]) # "root"
      <3>1. CASE RunSegment
        BY ONLY <1>1, <3>1 DEF RunSegment, EndSegment
      <3>2. CASE RunDownload
        <4>1. line # << >> /\ HasRoom(c) /\ r.download /\ fs' = r.fs /\ moved' = moved
          BY ONLY <3>2 DEF RunDownload, EndSegment
        <4> HIDE DEF c
        <4>2. c.name # "mv"
          BY ONLY <4>1, MoveFetchesNothing
        <4> QED
          BY ONLY <1>1, <4>1, <4>2
      <3>3. CASE (\E raw \in Lines : HandleCommand(raw)) \/ SkipSegment \/ UNCHANGED vars
        <4>1. fs' = fs
          BY ONLY <3>3 DEF HandleCommand, SkipSegment, vars
        <4> QED
          BY ONLY <1>1, <4>1
      <3> QED
        BY ONLY <1>1, <3>1, <3>2, <3>3 DEF Next
    <2>2. c \in Symbol
      BY ONLY <1>1, <2>1, NextCommand DEF ChainInv
    <2>3. fs \in Good(TRUE) /\ Clean(fs)
      BY ONLY <1>1, <2>1 DEF TreeInv, Good
    <2> HIDE DEF c
    <2>4. MayLose(c, Gone(fs, r.fs))
      BY ONLY <2>1, <2>2, <2>3, DispatchLoses
    <2> HIDE DEF r
    <2> QED
      BY ONLY <2>1, <2>4 DEF c
  <1> DEFINE Kept == LET c == CommandOf(Head(line).seg)
                         gone == Reach(fs, Root) \ Reach(fs', Root)
                     IN  fs' # fs /\ ~moved' =>
                           CASE c.name \in {"rm", "echo", "touch"} ->
                                  gone \subseteq UNION {Below(fs, c.args[i]) : i \in DOMAIN c.args}
                             [] c.name = "cp" -> gone \subseteq Replaced(fs, c.args[1], c.args[2])
                             [] c.name = "mv" -> \/ gone \subseteq Replaced(fs, c.args[1], c.args[2])
                                                 \/ /\ DstDir(fs, c.args[2]) \in Below(fs, c.args[1])
                                                    /\ gone = Below(fs, c.args[1])
                             [] OTHER -> gone = {}
  <1>2. ChainInv /\ TreeInv /\ [Next]_vars => [Kept]_vars
    <2> SUFFICES ASSUME ChainInv, TreeInv, [Next]_vars, fs' # fs, ~moved' PROVE Kept
      OBVIOUS
    <2>1. MayLose(CommandOf(Head(line).seg), Gone(fs, fs'))
      BY <1>1
    <2> QED
      BY ONLY <2>1 DEF MayLose, Gone, Operated
  <1> QED
    BY <1>2, ChainInductive, TreeInductive, PTL DEF Spec, NothingVanishes

=============================================================================
