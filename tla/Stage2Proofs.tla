---------------------------- MODULE Stage2Proofs ----------------------------
(***************************************************************************)
(* Proofs that the stage-two limiter keeps its budgets and its size, for   *)
(* any tasks, sessions, scripts, limits and times.                         *)
(***************************************************************************)
EXTENDS Stage2, SequenceTheorems, FiniteSetTheorems, WellFoundedInduction, TLAPS

-----------------------------------------------------------------------------
(* Induction and folds.                                                     *)

\* Induction over the naturals, in the form the provers can apply: a set of
\* naturals that is not empty has a least element.
LEMMA LeastNatural ==
    ASSUME NEW T \in SUBSET Nat, T # {}
    PROVE  \E x \in T : \A y \in T : x <= y
  <1> DEFINE R == OpToRel(<, Nat)
  <1>1. IsWellFoundedOn(R, Nat)
    BY NatLessThanWellFounded
  <1>2. \A x, y \in Nat : y < x => <<y, x>> \in R
    BY DEF OpToRel
  <1> HIDE DEF R
  <1>3. PICK x \in T : \A y \in T : <<y, x>> \notin R
    BY <1>1, WFMin
  <1>4. ASSUME NEW y \in T PROVE x <= y
    <2>1. x \in Nat /\ y \in Nat
      OBVIOUS
    <2>2. ~(y < x)
      BY <1>2, <1>3, <2>1
    <2> QED
      BY <2>1, <2>2
  <1> QED
    BY <1>4

\* What holds of 0 and passes from one place to the next holds of all.
LEMMA Climb ==
    ASSUME NEW n \in Nat, NEW P, 0 \in P, \A i \in 1 .. n : i - 1 \in P => i \in P
    PROVE  \A i \in 0 .. n : i \in P
  <1> DEFINE T == {i \in 0 .. n : i \notin P}
  <1> SUFFICES ASSUME T # {} PROVE FALSE
    OBVIOUS
  <1>1. T \in SUBSET Nat
    OBVIOUS
  <1>2. PICK x \in T : \A y \in T : x <= y
    BY ONLY <1>1, T # {}, LeastNatural
  <1>3. x \in 0 .. n /\ x \notin P
    BY ONLY <1>2 DEF T
  <1>4. x # 0
    BY ONLY <1>3, 0 \in P
  <1>5. x \in 1 .. n /\ x - 1 \in 0 .. n /\ ~(x <= x - 1)
    BY ONLY <1>3, <1>4, n \in Nat
  <1>6. x - 1 \notin T
    BY ONLY <1>2, <1>5
  <1>7. x - 1 \in P
    BY ONLY <1>5, <1>6 DEF T
  <1> QED
    BY ONLY <1>3, <1>5, <1>7, \A i \in 1 .. n : i - 1 \in P => i \in P

\* The greatest place of a set of places that holds n and none after it.
LEMMA MaxIs ==
    ASSUME NEW n \in Nat, NEW s \in SUBSET (1 .. n), n \in s
    PROVE  Max(s) = n
  <1>1. \A y \in s : n >= y
    OBVIOUS
  <1>2. \A x \in s : (\A y \in s : x >= y) => x = n
    OBVIOUS
  <1> QED
    BY <1>1, <1>2 DEF Max

\* A set of places that is not empty has a greatest one.
LEMMA MaxIn ==
    ASSUME NEW n \in Nat, NEW s \in SUBSET (1 .. n), s # {}
    PROVE  Max(s) \in s
  <1> DEFINE T == {i \in Nat : \A y \in s : y <= i}
  <1>1. T \in SUBSET Nat /\ n \in T
    OBVIOUS
  <1>2. PICK x \in T : \A y \in T : x <= y
    BY ONLY <1>1, LeastNatural
  <1>3. x \in Nat /\ \A y \in s : y \in Nat /\ y >= 1 /\ y <= x
    BY <1>2
  <1>4. x \in s
    <2> SUFFICES ASSUME x \notin s PROVE FALSE
      OBVIOUS
    <2>1. x # 0
      <3>1. PICK y \in s : TRUE
        BY ONLY s # {}
      <3> QED
        BY ONLY <1>3, <3>1
    <2>2. x - 1 \in Nat /\ \A y \in s : y <= x - 1
      BY <1>3, <2>1
    <2>3. x - 1 \in T
      BY ONLY <2>2 DEF T
    <2> QED
      BY ONLY <1>2, <1>3, <2>3
  <1>5. \E z \in s : \A y \in s : z >= y
    BY <1>3, <1>4
  <1> QED
    BY ONLY <1>5 DEF Max

\* The places of a sequence up to one of them.
LEMMA UpTo ==
    ASSUME NEW l \in Nat, NEW n \in 1 .. l
    PROVE  /\ n \in Nat /\ 1 .. n \in SUBSET (1 .. l) /\ 1 .. n # {} /\ n \in 1 .. n
           /\ (1 .. n) \ {n} = 1 .. (n - 1)
           /\ n \in 0 .. l /\ n - 1 \in 0 .. l
  <1>1. n \in Nat /\ n \in 1 .. n /\ n \in 0 .. l /\ n - 1 \in 0 .. l
    OBVIOUS
  <1>2. 1 .. n \in SUBSET (1 .. l) /\ 1 .. n # {}
    <2>1. \A i \in 1 .. n : i \in 1 .. l
      OBVIOUS
    <2> QED
      BY ONLY <1>1, <2>1
  <1>3. (1 .. n) \ {n} = 1 .. (n - 1)
    BY <1>1
  <1> QED
    BY <1>1, <1>2, <1>3

\* The recursive function behind FoldLeft exists, for a step that stays in X.
Recurs(h, n, b, G) ==
    \A s \in SUBSET (1 .. n) : h[s] = IF s = {} THEN b ELSE G[<<h[s \ {Max(s)}], Max(s)>>]

Recursive(n, X, b, G) == \E h \in [SUBSET (1 .. n) -> X] : Recurs(h, n, b, G)

LEMMA FoldExists ==
    ASSUME NEW n \in Nat, NEW X, NEW b \in X, NEW G \in [X \X (1 .. n) -> X]
    PROVE  Recursive(n, X, b, G)
  <1> DEFINE P == {m \in 0 .. n : Recursive(m, X, b, G)}
  <1>1. 0 \in P
    <2> DEFINE h == [s \in SUBSET (1 .. 0) |-> b]
    <2>1. \A s \in SUBSET (1 .. 0) : s = {}
      OBVIOUS
    <2>2. h \in [SUBSET (1 .. 0) -> X] /\ Recurs(h, 0, b, G)
      BY <2>1 DEF Recurs
    <2>3. Recursive(0, X, b, G)
      BY <2>2 DEF Recursive
    <2> QED
      BY <2>3
  <1>2. ASSUME NEW m \in 1 .. n, m - 1 \in P PROVE m \in P
    <2>1. PICK h \in [SUBSET (1 .. (m - 1)) -> X] : Recurs(h, m - 1, b, G)
      BY <1>2 DEF Recursive
    <2>2. m \in Nat /\ m \in 0 .. n
      OBVIOUS
    <2> DEFINE k == [s \in SUBSET (1 .. m) |-> IF m \in s THEN G[<<h[s \ {m}], m>>] ELSE h[s]]
    <2>3. \A s \in SUBSET (1 .. m) : s \ {m} \in SUBSET (1 .. (m - 1)) /\ (m \notin s => s \ {m} = s)
      BY ONLY <2>2
    <2>4. k \in [SUBSET (1 .. m) -> X]
      <3>1. ASSUME NEW s \in SUBSET (1 .. m)
            PROVE  (IF m \in s THEN G[<<h[s \ {m}], m>>] ELSE h[s]) \in X
        BY ONLY <2>1, <2>3, m \in 1 .. n, G \in [X \X (1 .. n) -> X], s \in SUBSET (1 .. m)
      <3> QED
        BY <3>1
    <2>5. ASSUME NEW s \in SUBSET (1 .. m)
          PROVE  k[s] = IF s = {} THEN b ELSE G[<<k[s \ {Max(s)}], Max(s)>>]
      <3>1. CASE m \in s
        <4>1. Max(s) = m /\ s # {} /\ s \ {m} \in SUBSET (1 .. m) /\ m \notin s \ {m}
          BY <2>2, <3>1, MaxIs
        <4>2. k[s] = G[<<h[s \ {m}], m>>] /\ k[s \ {m}] = h[s \ {m}]
          BY <3>1, <4>1
        <4> HIDE DEF k
        <4> QED
          BY <4>1, <4>2
      <3>2. CASE m \notin s
        <4>1. s \in SUBSET (1 .. (m - 1))
          BY <2>3, <3>2
        <4>2. s \ {Max(s)} \in SUBSET (1 .. m) /\ m \notin s \ {Max(s)}
          BY <3>2
        <4>3. k[s] = h[s] /\ k[s \ {Max(s)}] = h[s \ {Max(s)}]
          BY <3>2, <4>2
        <4> HIDE DEF k
        <4> QED
          BY <2>1, <4>1, <4>3 DEF Recurs
      <3> QED
        BY <3>1, <3>2
    <2> HIDE DEF k
    <2>6. Recurs(k, m, b, G)
      BY <2>5 DEF Recurs
    <2>7. Recursive(m, X, b, G)
      BY ONLY <2>4, <2>6 DEF Recursive
    <2> QED
      BY <2>2, <2>7
  <1> HIDE DEF P
  <1>3. n \in P
    <2>1. n \in 0 .. n
      OBVIOUS
    <2> QED
      BY <1>1, <1>2, <2>1, Climb
  <1> QED
    BY ONLY <1>3 DEF P

\* The values such a function has on the places up to each place stay in X.
LEMMA StaysIn ==
    ASSUME NEW n \in Nat, NEW X, NEW f, f[{}] \in X,
           \A m \in 1 .. n : f[1 .. (m - 1)] \in X => f[1 .. m] \in X
    PROVE  \A m \in 0 .. n : f[1 .. m] \in X
  <1> DEFINE P == {m \in 0 .. n : f[1 .. m] \in X}
  <1>1. 0 \in P
    <2>1. 1 .. 0 = {}
      OBVIOUS
    <2> QED
      BY <2>1
  <1>2. \A m \in 1 .. n : m - 1 \in P => m \in P
    OBVIOUS
  <1> HIDE DEF P
  <1>3. \A m \in 0 .. n : m \in P
    BY <1>1, <1>2, Climb
  <1> QED
    BY <1>3 DEF P

\* The steps of the fold in Keep.
KeepTrace(g, n, q, I) ==
    /\ g[0] = << >>
    /\ \A m \in 1 .. n : g[m] = IF m \in I THEN Append(g[m - 1], q[m]) ELSE g[m - 1]
    /\ Keep(q, I) = g[n]

LEMMA KeepSteps ==
    ASSUME NEW E, NEW n \in Nat, NEW q \in [1 .. n -> E], NEW I
    PROVE  \E g \in [0 .. n -> Seq(E)] : KeepTrace(g, n, q, I)
  <1> DEFINE Op(r, m) == IF m \in I THEN Append(r, q[m]) ELSE r
             X == Seq(E)
             G == [p \in X \X (1 .. n) |-> Op(p[1], p[2])]
             b == << >>
             w == [i \in DOMAIN q |-> i]
             Body(h, s) == IF s = {} THEN b ELSE Op(h[s \ {Max(s)}], w[Max(s)])
             iter == CHOOSE f : f = [s \in SUBSET (DOMAIN w) |-> Body(f, s)]
  <1>1. b \in X /\ \A x \in X : \A m \in 1 .. n : Op(x, m) \in X
    BY EmptySeq, AppendProperties
  <1>2. Keep(q, I) = iter[DOMAIN w]
    BY DEF Keep, FoldLeftDomain, FoldLeft, MapThenFoldSet
  <1>3. DOMAIN w = 1 .. n /\ \A m \in 1 .. n : w[m] = m
    OBVIOUS
  <1> HIDE DEF Op, X, w, b
  <1>4. G \in [X \X (1 .. n) -> X]
    BY <1>1
  <1>5. \A x \in X : \A m \in 1 .. n : G[<<x, m>>] = Op(x, m)
    OBVIOUS
  <1> HIDE DEF G
  <1>6. PICK h \in [SUBSET (1 .. n) -> X] : Recurs(h, n, b, G)
    <2>1. Recursive(n, X, b, G)
      BY ONLY <1>1, <1>4, n \in Nat, FoldExists
    <2> QED
      BY ONLY <2>1 DEF Recursive
  <1>7. ASSUME NEW s \in SUBSET (1 .. n) PROVE h[s] = Body(h, s)
    <2>1. CASE s = {}
      BY <1>6, <2>1 DEF Recurs
    <2>2. CASE s # {}
      <3>1. Max(s) \in 1 .. n /\ s \ {Max(s)} \in SUBSET (1 .. n)
        BY <2>2, MaxIn
      <3>2. h[s] = G[<<h[s \ {Max(s)}], Max(s)>>]
        BY <1>6, <2>2 DEF Recurs
      <3> QED
        BY <1>3, <1>5, <1>6, <2>2, <3>1, <3>2
    <2> QED
      BY <2>1, <2>2
  <1>8. h = [s \in SUBSET (DOMAIN w) |-> Body(h, s)]
    BY <1>3, <1>6, <1>7
  <1>9. iter = [s \in SUBSET (DOMAIN w) |-> Body(iter, s)]
    BY <1>8
  <1>10. \A s \in SUBSET (1 .. n) : iter[s] = Body(iter, s)
    BY <1>3, <1>9
  <1> HIDE DEF iter
  <1>11. iter[{}] = b
    BY <1>10
  <1>12. ASSUME NEW m \in 1 .. n PROVE iter[1 .. m] = Op(iter[1 .. (m - 1)], m)
    <2>1. /\ m \in Nat /\ 1 .. m \in SUBSET (1 .. n) /\ 1 .. m # {} /\ m \in 1 .. m
          /\ (1 .. m) \ {m} = 1 .. (m - 1)
      BY ONLY n \in Nat, m \in 1 .. n, UpTo
    <2>2. Max(1 .. m) = m
      BY <2>1, MaxIs
    <2>3. iter[1 .. m] = Op(iter[(1 .. m) \ {Max(1 .. m)}], w[Max(1 .. m)])
      BY ONLY <1>10, <2>1
    <2>4. w[m] = m
      BY ONLY <1>3, m \in 1 .. n
    <2> QED
      BY ONLY <2>1, <2>2, <2>3, <2>4
  <1>13. \A m \in 0 .. n : iter[1 .. m] \in X
    <2>1. iter[{}] \in X
      BY ONLY <1>1, <1>11
    <2>2. \A m \in 1 .. n : iter[1 .. (m - 1)] \in X => iter[1 .. m] \in X
      BY ONLY <1>1, <1>12
    <2> QED
      BY ONLY <2>1, <2>2, n \in Nat, StaysIn
  <1> DEFINE g == [m \in 0 .. n |-> iter[1 .. m]]
  <1>14. g \in [0 .. n -> X]
    BY <1>13
  <1>15. g[0] = b
    <2>1. 1 .. 0 = {} /\ 0 \in 0 .. n
      OBVIOUS
    <2> QED
      BY <1>11, <2>1
  <1>16. \A m \in 1 .. n : g[m] = Op(g[m - 1], m)
    <2>1. \A m \in 1 .. n : m \in 0 .. n /\ m - 1 \in 0 .. n
      OBVIOUS
    <2> QED
      BY <1>12, <2>1
  <1>17. Keep(q, I) = g[n]
    <2>1. n \in 0 .. n
      OBVIOUS
    <2> QED
      BY <1>2, <1>3, <2>1
  <1> HIDE DEF g
  <1>18. KeepTrace(g, n, q, I)
    BY ONLY <1>15, <1>16, <1>17 DEF KeepTrace, Op, b
  <1> QED
    BY ONLY <1>14, <1>18 DEF X

-----------------------------------------------------------------------------
(* Comprehensions and dicts.                                                *)

\* The elements of r are those of q at the places in S, one for each.
Selects(r, q, S) ==
    \E e \in [1 .. Len(r) -> S] :
       /\ \A j \in 1 .. Len(r) : r[j] = q[e[j]]
       /\ \A i, j \in 1 .. Len(r) : e[i] = e[j] => i = j
       /\ \A x \in S : \E j \in 1 .. Len(r) : e[j] = x

LEMMA SelectsMore ==
    ASSUME NEW E, NEW r \in Seq(E), NEW q, NEW S, NEW m, m \notin S, q[m] \in E, Selects(r, q, S)
    PROVE  Selects(Append(r, q[m]), q, S \cup {m})
  <1>1. PICK l \in Nat : Len(r) = l
    BY LenProperties
  <1>2. PICK e \in [1 .. l -> S] :
           /\ \A j \in 1 .. l : r[j] = q[e[j]]
           /\ \A i, j \in 1 .. l : e[i] = e[j] => i = j
           /\ \A x \in S : \E j \in 1 .. l : e[j] = x
    BY <1>1 DEF Selects
  <1> DEFINE t == Append(r, q[m])
  <1>3. Len(t) = l + 1 /\ t[l + 1] = q[m] /\ \A j \in 1 .. l : t[j] = r[j]
    BY <1>1, AppendProperties
  <1> HIDE DEF t
  <1> DEFINE f == [j \in 1 .. (l + 1) |-> IF j = l + 1 THEN m ELSE e[j]]
  <1>4. \A j \in 1 .. (l + 1) : j = l + 1 \/ (j \in 1 .. l /\ j # l + 1)
    BY ONLY <1>1
  <1>5. l + 1 \in 1 .. (l + 1) /\ \A j \in 1 .. l : j \in 1 .. (l + 1) /\ j # l + 1
    BY ONLY <1>1
  <1>6. f[l + 1] = m /\ \A j \in 1 .. l : f[j] = e[j]
    BY ONLY <1>5
  <1>7. f \in [1 .. (l + 1) -> S \cup {m}]
    BY ONLY <1>2, <1>4
  <1> HIDE DEF f
  <1>8. \A j \in 1 .. (l + 1) : t[j] = q[f[j]]
    BY ONLY <1>2, <1>3, <1>4, <1>6
  <1>9. \A i, j \in 1 .. (l + 1) : f[i] = f[j] => i = j
    BY ONLY <1>2, <1>4, <1>6, m \notin S
  <1>10. \A x \in S \cup {m} : \E j \in 1 .. (l + 1) : f[j] = x
    BY ONLY <1>2, <1>5, <1>6
  <1>11. /\ f \in [1 .. Len(t) -> S \cup {m}]
         /\ \A j \in 1 .. Len(t) : t[j] = q[f[j]]
         /\ \A i, j \in 1 .. Len(t) : f[i] = f[j] => i = j
         /\ \A x \in S \cup {m} : \E j \in 1 .. Len(t) : f[j] = x
    <2>1. Len(t) = l + 1
      BY ONLY <1>3
    <2> QED
      BY ONLY <1>7, <1>8, <1>9, <1>10, <2>1, Zenon
  <1>12. Selects(t, q, S \cup {m})
    BY ONLY <1>11, Zenon DEF Selects
  <1> QED
    BY ONLY <1>12 DEF t

\* A comprehension selects the places it is given.
LEMMA KeepIs ==
    ASSUME NEW E, NEW n \in Nat, NEW q \in [1 .. n -> E], NEW I \in SUBSET (1 .. n)
    PROVE  Keep(q, I) \in Seq(E) /\ Selects(Keep(q, I), q, I)
  <1>0. PICK g \in [0 .. n -> Seq(E)] : KeepTrace(g, n, q, I)
    BY KeepSteps
  <1>1. /\ g[0] = << >>
        /\ \A m \in 1 .. n : g[m] = IF m \in I THEN Append(g[m - 1], q[m]) ELSE g[m - 1]
        /\ Keep(q, I) = g[n] /\ g[n] \in Seq(E)
    <2>1. n \in 0 .. n
      OBVIOUS
    <2> QED
      BY ONLY <1>0, <2>1 DEF KeepTrace
  <1> DEFINE Upto(m) == I \cap (1 .. m)
             P == {m \in 0 .. n : Selects(g[m], q, Upto(m))}
  <1>2. 0 \in P
    <2>1. Upto(0) = {} /\ Len(<< >>) = 0 /\ 1 .. 0 = {} /\ 0 \in 0 .. n
      BY EmptySeq
    <2>2. [j \in {} |-> 0] \in [{} -> {}]
      OBVIOUS
    <2>3. Selects(<< >>, q, {})
      BY ONLY <2>1, <2>2 DEF Selects
    <2> QED
      BY <1>1, <2>1, <2>3
  <1>3. ASSUME NEW m \in 1 .. n, m - 1 \in P PROVE m \in P
    <2>1. Selects(g[m - 1], q, Upto(m - 1))
      BY <1>3
    <2>2. m \in 0 .. n /\ m - 1 \in 0 .. n /\ m \in Int
      OBVIOUS
    <2>3. g[m - 1] \in Seq(E) /\ q[m] \in E
      BY <1>0, <2>2
    <2>4. CASE m \in I
      <3>1. m \notin Upto(m - 1) /\ Upto(m) = Upto(m - 1) \cup {m}
        BY ONLY <2>2, <2>4
      <3> HIDE DEF Upto
      <3>2. Selects(Append(g[m - 1], q[m]), q, Upto(m - 1) \cup {m})
        BY ONLY <2>1, <2>3, <3>1, SelectsMore
      <3>3. g[m] = Append(g[m - 1], q[m])
        BY ONLY <1>1, <2>4, m \in 1 .. n
      <3> QED
        BY ONLY <2>2, <3>1, <3>2, <3>3 DEF P
    <2>5. CASE m \notin I
      <3>1. Upto(m) = Upto(m - 1)
        BY ONLY <2>2, <2>5
      <3> HIDE DEF Upto
      <3>2. g[m] = g[m - 1]
        BY ONLY <1>1, <2>5, m \in 1 .. n
      <3> QED
        BY ONLY <2>1, <2>2, <3>1, <3>2 DEF P
    <2> QED
      BY <2>4, <2>5
  <1> HIDE DEF P
  <1>4. n \in P
    <2>1. n \in 0 .. n
      OBVIOUS
    <2>2. \A m \in 1 .. n : m - 1 \in P => m \in P
      BY ONLY <1>3
    <2> QED
      BY ONLY <1>2, <2>1, <2>2, n \in Nat, Climb
  <1>5. Upto(n) = I
    BY ONLY I \in SUBSET (1 .. n), Zenon
  <1> HIDE DEF Upto
  <1> QED
    BY ONLY <1>1, <1>4, <1>5 DEF P

\* A dict with keys in K and values in V.
Entry(K, V) == [k : K, v : V]

IsDict(d, K, V) ==
    /\ d \in Seq(Entry(K, V))
    /\ \A i, j \in 1 .. Len(d) : d[i].k = d[j].k => i = j

\* A key is at one place.
LEMMA GetAt ==
    ASSUME NEW K, NEW V, NEW d, IsDict(d, K, V), NEW i \in 1 .. Len(d)
    PROVE  /\ d[i].k \in Keys(d) /\ d[i].k \in K /\ d[i].v \in V
           /\ \A x : Get(d, d[i].k, x) = d[i].v
  <1>1. DOMAIN d = 1 .. Len(d) /\ d[i] \in Entry(K, V)
    BY LenProperties DEF IsDict
  <1>2. d[i].k \in Keys(d)
    BY <1>1 DEF Keys
  <1>3. \A j \in DOMAIN d : d[j].k = d[i].k => j = i
    BY <1>1 DEF IsDict
  <1>4. (CHOOSE j \in DOMAIN d : d[j].k = d[i].k) = i
    BY ONLY <1>1, <1>3, i \in 1 .. Len(d)
  <1> QED
    BY ONLY <1>1, <1>2, <1>4 DEF Get, Entry

LEMMA KeyAt ==
    ASSUME NEW K, NEW V, NEW d, IsDict(d, K, V), NEW k \in Keys(d)
    PROVE  \E i \in 1 .. Len(d) : d[i].k = k
  BY LenProperties DEF IsDict, Keys

LEMMA GetIn ==
    ASSUME NEW K, NEW V, NEW d, IsDict(d, K, V), NEW k \in Keys(d), NEW x
    PROVE  k \in K /\ Get(d, k, x) \in V
  <1>1. PICK i \in 1 .. Len(d) : d[i].k = k
    BY KeyAt
  <1> QED
    BY <1>1, GetAt

\* dict[k] = v: the entry of the key is the new one, the others are the same.
PutSpec(t, d, k, v, l) ==
    /\ Len(t) <= l + 1
    /\ \E i \in 1 .. Len(t) : t[i].k = k /\ t[i].v = v
    /\ \A i \in 1 .. l : d[i].k # k => \E j \in 1 .. Len(t) : t[j] = d[i]
    /\ \A j \in 1 .. Len(t) : t[j].k # k => \E i \in 1 .. l : t[j] = d[i]

LEMMA PutPlaces ==
    ASSUME NEW K, NEW V, NEW d, IsDict(d, K, V), NEW k \in K, NEW v \in V
    PROVE  IsDict(Put(d, k, v), K, V) /\ PutSpec(Put(d, k, v), d, k, v, Len(d))
  <1> DEFINE e == [k |-> k, v |-> v]
  <1>1. PICK l \in Nat : Len(d) = l /\ DOMAIN d = 1 .. l
    BY LenProperties DEF IsDict
  <1>2. e \in Entry(K, V) /\ e.k = k /\ e.v = v
    BY DEF Entry
  <1>3. /\ d \in Seq(Entry(K, V)) /\ \A i \in 1 .. l : d[i] \in Entry(K, V)
        /\ \A i, j \in 1 .. l : d[i].k = d[j].k => i = j
    BY <1>1, LenProperties DEF IsDict
  <1> HIDE DEF e
  <1>4. CASE k \in Keys(d)
    <2> DEFINE t == [i \in 1 .. l |-> IF d[i].k = k THEN [d[i] EXCEPT !.v = v] ELSE d[i]]
    <2>1. Put(d, k, v) = t
      BY ONLY <1>1, <1>4 DEF Put
    <2>2. PICK p \in 1 .. l : d[p].k = k
      BY ONLY <1>1, <1>4 DEF Keys
    <2>3. \A i \in 1 .. l : /\ d[i].k # k => t[i] = d[i]
                            /\ t[i] \in Entry(K, V) /\ t[i].k = d[i].k
      BY ONLY <1>3, v \in V DEF Entry
    <2>4. t[p].v = v
      BY ONLY <1>3, <2>2 DEF Entry
    <2>5. t \in [1 .. l -> Entry(K, V)]
      BY ONLY <2>3
    <2> HIDE DEF t
    <2>6. t \in Seq(Entry(K, V)) /\ Len(t) = l
      <3>1. t \in Seq(Entry(K, V))
        BY ONLY <1>1, <2>5, SeqDef
      <3> QED
        BY ONLY <1>1, <2>5, <3>1, LenProperties
    <2>7. IsDict(t, K, V)
      BY ONLY <1>3, <2>3, <2>6 DEF IsDict
    <2>8. l <= l + 1
      BY ONLY <1>1
    <2>9. PutSpec(t, d, k, v, l)
      BY ONLY <2>2, <2>3, <2>4, <2>6, <2>8 DEF PutSpec
    <2> QED
      BY ONLY <1>1, <2>1, <2>7, <2>9
  <1>5. CASE k \notin Keys(d)
    <2> DEFINE t == Append(d, e)
    <2>1. Put(d, k, v) = t
      BY ONLY <1>5 DEF Put, e
    <2>2. /\ t \in Seq(Entry(K, V)) /\ Len(t) = l + 1
          /\ t[l + 1] = e /\ \A i \in 1 .. l : t[i] = d[i]
      BY ONLY <1>1, <1>2, <1>3, AppendProperties
    <2> HIDE DEF t
    <2>3. \A i \in 1 .. l : d[i].k # k
      BY ONLY <1>1, <1>5 DEF Keys
    <2>4. /\ \A i \in 1 .. (l + 1) : i = l + 1 \/ i \in 1 .. l
          /\ l + 1 \in 1 .. (l + 1) /\ \A i \in 1 .. l : i \in 1 .. (l + 1)
          /\ l + 1 <= l + 1
      BY ONLY <1>1
    <2>5. IsDict(t, K, V)
      BY ONLY <1>2, <1>3, <2>2, <2>3, <2>4 DEF IsDict
    <2>6. PutSpec(t, d, k, v, l)
      BY ONLY <1>2, <2>2, <2>3, <2>4 DEF PutSpec
    <2> QED
      BY ONLY <1>1, <2>1, <2>5, <2>6
  <1> QED
    BY <1>4, <1>5

LEMMA PutIs ==
    ASSUME NEW K, NEW V, NEW d, IsDict(d, K, V), NEW k \in K, NEW v \in V
    PROVE  /\ IsDict(Put(d, k, v), K, V)
           /\ Keys(Put(d, k, v)) = Keys(d) \cup {k}
           /\ \A x : Get(Put(d, k, v), k, x) = v
           /\ \A c, x : c # k => Get(Put(d, k, v), c, x) = Get(d, c, x)
           /\ Len(Put(d, k, v)) <= Len(d) + 1
  <1> DEFINE t == Put(d, k, v)
  <1>1. IsDict(t, K, V) /\ PutSpec(t, d, k, v, Len(d))
    BY PutPlaces
  <1> HIDE DEF t
  <1>2. PICK p \in 1 .. Len(t) : t[p].k = k /\ t[p].v = v
    BY ONLY <1>1 DEF PutSpec
  <1>3. k \in Keys(t) /\ \A x : Get(t, k, x) = v
    BY ONLY <1>1, <1>2, GetAt
  <1>4. ASSUME NEW i \in 1 .. Len(d), d[i].k # k
        PROVE  d[i].k \in Keys(t) /\ \A x : Get(t, d[i].k, x) = Get(d, d[i].k, x)
    <2>1. PICK j \in 1 .. Len(t) : t[j] = d[i]
      BY ONLY <1>1, <1>4 DEF PutSpec
    <2>2. t[j].k \in Keys(t) /\ \A x : Get(t, t[j].k, x) = t[j].v
      BY ONLY <1>1, <2>1, GetAt
    <2>3. \A x : Get(d, d[i].k, x) = d[i].v
      BY ONLY i \in 1 .. Len(d), IsDict(d, K, V), GetAt
    <2> QED
      BY ONLY <2>1, <2>2, <2>3
  <1>5. \A c \in Keys(d) : c # k => c \in Keys(t) /\ \A x : Get(t, c, x) = Get(d, c, x)
    BY ONLY <1>4, IsDict(d, K, V), KeyAt
  <1>6. ASSUME NEW c \in Keys(t), c # k PROVE c \in Keys(d)
    <2>1. PICK j \in 1 .. Len(t) : t[j].k = c
      BY ONLY <1>1, <1>6, KeyAt
    <2>2. PICK i \in 1 .. Len(d) : t[j] = d[i]
      BY ONLY <1>1, <1>6, <2>1 DEF PutSpec
    <2> QED
      BY ONLY <2>1, <2>2, IsDict(d, K, V), GetAt
  <1>7. Keys(t) = Keys(d) \cup {k}
    BY ONLY <1>3, <1>5, <1>6
  <1>8. ASSUME NEW c, NEW x, c # k PROVE Get(t, c, x) = Get(d, c, x)
    <2>1. CASE c \in Keys(d)
      BY ONLY <1>5, <1>8, <2>1
    <2>2. CASE c \notin Keys(d)
      <3>1. c \notin Keys(t)
        BY ONLY <1>6, <1>8, <2>2
      <3> QED
        BY ONLY <2>2, <3>1 DEF Get
    <2> QED
      BY <2>1, <2>2
  <1>9. Len(t) <= Len(d) + 1
    BY ONLY <1>1 DEF PutSpec
  <1> QED
    BY ONLY <1>1, <1>3, <1>7, <1>8, <1>9 DEF t

\* A dict that keeps some entries of another.
LEMMA SubDict ==
    ASSUME NEW K, NEW V, NEW d, IsDict(d, K, V), NEW c \in Seq(Entry(K, V)),
           NEW S \in SUBSET (1 .. Len(d)), Selects(c, d, S)
    PROVE  /\ IsDict(c, K, V)
           /\ Keys(c) = {d[i].k : i \in S} /\ Keys(c) \subseteq Keys(d)
           /\ \A k \in Keys(c) : \A x : Get(c, k, x) = Get(d, k, x)
  <1>1. PICK e \in [1 .. Len(c) -> S] :
           /\ \A j \in 1 .. Len(c) : c[j] = d[e[j]]
           /\ \A i, j \in 1 .. Len(c) : e[i] = e[j] => i = j
           /\ \A x \in S : \E j \in 1 .. Len(c) : e[j] = x
    BY DEF Selects
  <1>2. \A j \in 1 .. Len(c) : e[j] \in S /\ e[j] \in 1 .. Len(d)
    BY ONLY <1>1, S \in SUBSET (1 .. Len(d))
  <1>3. IsDict(c, K, V)
    <2>1. \A i, j \in 1 .. Len(d) : d[i].k = d[j].k => i = j
      BY ONLY IsDict(d, K, V) DEF IsDict
    <2>2. ASSUME NEW i \in 1 .. Len(c), NEW j \in 1 .. Len(c), c[i].k = c[j].k PROVE i = j
      <3>1. c[i] = d[e[i]] /\ c[j] = d[e[j]]
        BY ONLY <1>1, i \in 1 .. Len(c), j \in 1 .. Len(c)
      <3>2. e[i] = e[j]
        BY ONLY <1>2, <2>1, <2>2, <3>1
      <3> QED
        BY ONLY <1>1, <3>2, i \in 1 .. Len(c), j \in 1 .. Len(c)
    <2> QED
      BY ONLY <2>2, c \in Seq(Entry(K, V)) DEF IsDict
  <1>4. \A k : k \in Keys(c) <=> \E j \in 1 .. Len(c) : c[j].k = k
    BY ONLY <1>3, GetAt, KeyAt
  <1>5. Keys(c) = {d[i].k : i \in S}
    <2>1. ASSUME NEW k \in Keys(c) PROVE \E i \in S : k = d[i].k
      <3>1. PICK j \in 1 .. Len(c) : c[j].k = k
        BY ONLY <1>4, <2>1
      <3> QED
        BY ONLY <1>1, <1>2, <3>1
    <2>2. ASSUME NEW i \in S PROVE d[i].k \in Keys(c)
      <3>1. PICK j \in 1 .. Len(c) : e[j] = i
        BY ONLY <1>1, <2>2
      <3> QED
        BY ONLY <1>1, <1>4, <3>1
    <2> QED
      BY ONLY <2>1, <2>2
  <1>6. Keys(c) \subseteq Keys(d)
    BY ONLY <1>5, S \in SUBSET (1 .. Len(d)), IsDict(d, K, V), GetAt
  <1>7. ASSUME NEW k \in Keys(c), NEW x PROVE Get(c, k, x) = Get(d, k, x)
    <2>1. PICK j \in 1 .. Len(c) : c[j].k = k
      BY ONLY <1>4, k \in Keys(c)
    <2>2. Get(c, k, x) = c[j].v
      BY ONLY <1>3, <2>1, GetAt
    <2>3. c[j] = d[e[j]] /\ e[j] \in 1 .. Len(d)
      BY ONLY <1>1, <1>2, <2>1
    <2>4. Get(d, d[e[j]].k, x) = d[e[j]].v
      BY ONLY <2>3, IsDict(d, K, V), GetAt
    <2> QED
      BY ONLY <2>1, <2>2, <2>3, <2>4
  <1> QED
    BY ONLY <1>3, <1>5, <1>6, <1>7

\* Popping the first inserted keys (stage2.py, _prune).
LEMMA NewestIs ==
    ASSUME NEW K, NEW V, NEW d, IsDict(d, K, V)
    PROVE  /\ IsDict(Newest(d), K, V) /\ Keys(Newest(d)) \subseteq Keys(d)
           /\ \A k \in Keys(Newest(d)) : \A x : Get(Newest(d), k, x) = Get(d, k, x)
           /\ Len(Newest(d)) <= MaxTracked
  <1>1. PICK l \in Nat : Len(d) = l /\ \A i \in 1 .. l : d[i] \in Entry(K, V)
    BY LenProperties DEF IsDict
  <1>2. MaxTracked \in Nat
    BY LimitAssumption
  <1> DEFINE p == IF l > MaxTracked THEN l - MaxTracked + 1 ELSE 1
             c == SubSeq(d, p, l)
  <1>3. c = Newest(d)
    BY ONLY <1>1 DEF Newest
  <1>30. p \in 1 .. (l + 1) /\ l - p + 1 <= MaxTracked
    BY ONLY <1>1, <1>2
  <1> HIDE DEF p
  <1>4. /\ p \in Int /\ l \in Int /\ \A i \in p .. l : i \in 1 .. l /\ d[i] \in Entry(K, V)
        /\ (IF p <= l THEN l - p + 1 ELSE 0) = l - p + 1 /\ l - p + 1 \in Nat
    BY ONLY <1>1, <1>30
  <1>5. /\ c \in Seq(Entry(K, V)) /\ Len(c) = l - p + 1
        /\ \A i \in 1 .. (l - p + 1) : c[i] = d[p + i - 1]
    <2>1. /\ c \in Seq(Entry(K, V)) /\ Len(c) = IF p <= l THEN l - p + 1 ELSE 0
          /\ \A i \in 1 .. (l - p + 1) : c[i] = d[p + i - 1]
      BY ONLY <1>4, SubSeqProperties
    <2> QED
      BY ONLY <1>4, <2>1
  <1> HIDE DEF c
  <1> DEFINE S == p .. l
             e == [i \in 1 .. Len(c) |-> p + i - 1]
  <1>6. S \in SUBSET (1 .. Len(d))
    BY ONLY <1>1, <1>4
  <1>7. /\ e \in [1 .. Len(c) -> S]
        /\ \A i \in 1 .. Len(c) : e[i] = p + i - 1
    BY ONLY <1>4, <1>5
  <1>8. /\ \A i, j \in 1 .. Len(c) : p + i - 1 = p + j - 1 => i = j
        /\ \A x \in S : x - p + 1 \in 1 .. Len(c) /\ p + (x - p + 1) - 1 = x
    BY ONLY <1>4, <1>5
  <1> HIDE DEF S, e
  <1>9. Selects(c, d, S)
    <2>1. \A j \in 1 .. Len(c) : c[j] = d[e[j]]
      BY ONLY <1>5, <1>7
    <2>2. \A i, j \in 1 .. Len(c) : e[i] = e[j] => i = j
      BY ONLY <1>7, <1>8
    <2>3. ASSUME NEW x \in S PROVE \E j \in 1 .. Len(c) : e[j] = x
      <3>1. x - p + 1 \in 1 .. Len(c) /\ e[x - p + 1] = x
        BY ONLY <1>7, <1>8, x \in S
      <3> QED
        BY ONLY <3>1
    <2> QED
      BY ONLY <1>7, <2>1, <2>2, <2>3 DEF Selects
  <1>10. /\ IsDict(c, K, V) /\ Keys(c) \subseteq Keys(d)
         /\ \A k \in Keys(c) : \A x : Get(c, k, x) = Get(d, k, x)
    BY ONLY <1>5, <1>6, <1>9, IsDict(d, K, V), SubDict
  <1>11. Len(c) <= MaxTracked
    BY ONLY <1>5, <1>30
  <1> QED
    BY ONLY <1>3, <1>10, <1>11

-----------------------------------------------------------------------------
(* The times of a host's table entry.                                       *)

\* Every admission of S has an entry of its own among the times v.
Covers(S, v) ==
    \E f \in [S -> 1 .. Len(v)] : /\ \A a, b \in S : f[a] = f[b] => a = b
                                  /\ \A a \in S : v[f[a]] = a.at

LEMMA CoversLess ==
    ASSUME NEW S, NEW v, Covers(S, v), NEW T \in SUBSET S
    PROVE  Covers(T, v)
  <1>1. PICK f \in [S -> 1 .. Len(v)] : /\ \A a, b \in S : f[a] = f[b] => a = b
                                        /\ \A a \in S : v[f[a]] = a.at
    BY DEF Covers
  <1> DEFINE g == [a \in T |-> f[a]]
  <1>2. g \in [T -> 1 .. Len(v)] /\ \A a \in T : a \in S /\ g[a] = f[a]
    BY <1>1
  <1> HIDE DEF g
  <1> QED
    BY ONLY <1>1, <1>2 DEF Covers

\* So there are no more of them than times.
LEMMA CoversCount ==
    ASSUME NEW S, NEW v \in Seq(Nat), Covers(S, v)
    PROVE  IsFiniteSet(S) /\ Cardinality(S) <= Len(v)
  <1>1. PICK l \in Nat : Len(v) = l
    BY LenProperties
  <1>2. PICK f \in [S -> 1 .. l] : \A a, b \in S : f[a] = f[b] => a = b
    BY <1>1 DEF Covers
  <1>3. f \in Injection(S, 1 .. l)
    BY ONLY <1>2 DEF Injection, IsInjective
  <1>4. IsFiniteSet(1 .. l) /\ Cardinality(1 .. l) = l
    BY ONLY <1>1, FS_Interval
  <1> QED
    BY ONLY <1>1, <1>3, <1>4, FS_Injection

\* An admission now adds a time.
LEMMA CoversAdd ==
    ASSUME NEW S, NEW v \in Seq(Nat), Covers(S, v), NEW r, NEW n \in Nat, r.at = n
    PROVE  Covers(S \cup {r}, Append(v, n))
  <1>1. PICK l \in Nat : Len(v) = l
    BY LenProperties
  <1>2. PICK f \in [S -> 1 .. l] : /\ \A a, b \in S : f[a] = f[b] => a = b
                                   /\ \A a \in S : v[f[a]] = a.at
    BY <1>1 DEF Covers
  <1> DEFINE t == Append(v, n)
             g == [a \in S \cup {r} |-> IF a \in S THEN f[a] ELSE l + 1]
  <1>3. Len(t) = l + 1 /\ t[l + 1] = n /\ \A j \in 1 .. l : t[j] = v[j]
    BY <1>1, AppendProperties
  <1>4. l + 1 \in 1 .. (l + 1) /\ \A j \in 1 .. l : j \in 1 .. (l + 1) /\ j # l + 1
    BY ONLY <1>1
  <1>5. /\ \A a \in S : g[a] = f[a] /\ f[a] \in 1 .. l
        /\ r \notin S => g[r] = l + 1
    BY ONLY <1>2
  <1>6. g \in [S \cup {r} -> 1 .. (l + 1)]
    BY ONLY <1>2, <1>4
  <1> HIDE DEF t, g
  <1>7. \A a, b \in S \cup {r} : g[a] = g[b] => a = b
    BY ONLY <1>2, <1>4, <1>5
  <1>8. \A a \in S \cup {r} : t[g[a]] = a.at
    BY ONLY <1>2, <1>3, <1>5, r.at = n
  <1>9. Covers(S \cup {r}, t)
    BY ONLY <1>3, <1>6, <1>7, <1>8 DEF Covers
  <1> QED
    BY ONLY <1>9 DEF t

\* Dropping expired times keeps the entries of admissions that are recent.
LEMMA RecentIs ==
    ASSUME NEW v \in Seq(Nat), now \in Nat
    PROVE  /\ RecentTimes(v) \in Seq(Nat) /\ Len(RecentTimes(v)) <= Len(v)
           /\ \A S : Covers(S, v) /\ (\A a \in S : now - a.at < Dedupe) => Covers(S, RecentTimes(v))
  <1>1. PICK l \in Nat : Len(v) = l /\ v \in [1 .. l -> Nat] /\ DOMAIN v = 1 .. l
    BY LenProperties
  <1> DEFINE I == {i \in 1 .. l : Recent(v[i])}
             t == Keep(v, I)
  <1>2. RecentTimes(v) = t
    BY ONLY <1>1 DEF RecentTimes
  <1>3. I \in SUBSET (1 .. l) /\ \A i \in 1 .. l : now - v[i] < Dedupe => i \in I
    BY DEF Recent
  <1> HIDE DEF I
  <1>4. t \in Seq(Nat) /\ Selects(t, v, I)
    BY ONLY <1>1, <1>3, KeepIs
  <1> HIDE DEF t
  <1>5. PICK m \in Nat : Len(t) = m
    BY ONLY <1>4, LenProperties
  <1>6. PICK e \in [1 .. m -> I] :
           /\ \A j \in 1 .. m : t[j] = v[e[j]]
           /\ \A i, j \in 1 .. m : e[i] = e[j] => i = j
           /\ \A x \in I : \E j \in 1 .. m : e[j] = x
    <2>1. Selects(t, v, I)
      BY ONLY <1>4
    <2> QED
      BY ONLY <1>5, <2>1 DEF Selects
  <1>7. m <= l
    <2>1. e \in Injection(1 .. m, 1 .. l)
      BY ONLY <1>3, <1>6 DEF Injection, IsInjective
    <2>2. IsFiniteSet(1 .. l) /\ Cardinality(1 .. l) = l /\ Cardinality(1 .. m) = m
      BY ONLY <1>1, <1>5, FS_Interval
    <2> QED
      BY ONLY <2>1, <2>2, FS_Injection
  <1>8. ASSUME NEW S, Covers(S, v), \A a \in S : now - a.at < Dedupe PROVE Covers(S, t)
    <2>1. PICK f \in [S -> 1 .. l] : /\ \A a, b \in S : f[a] = f[b] => a = b
                                     /\ \A a \in S : v[f[a]] = a.at
      BY ONLY <1>1, <1>8 DEF Covers
    <2>2. \A a \in S : f[a] \in I
      BY ONLY <1>3, <1>8, <2>1
    <2> DEFINE g == [a \in S |-> CHOOSE j \in 1 .. m : e[j] = f[a]]
    <2>3. \A a \in S : g[a] \in 1 .. m /\ e[g[a]] = f[a]
      BY ONLY <1>6, <2>2
    <2>4. g \in [S -> 1 .. m]
      BY ONLY <2>3
    <2> HIDE DEF g
    <2>5. \A a, b \in S : g[a] = g[b] => a = b
      BY ONLY <2>1, <2>3
    <2>6. \A a \in S : t[g[a]] = a.at
      BY ONLY <1>6, <2>1, <2>3
    <2> QED
      BY ONLY <1>5, <2>4, <2>5, <2>6 DEF Covers
  <1> QED
    BY ONLY <1>1, <1>2, <1>4, <1>5, <1>7, <1>8

\* If nothing recent is left there was nothing recent.
LEMMA NoneRecent ==
    ASSUME NEW v \in Seq(Nat), now \in Nat, RecentTimes(v) = << >>,
           NEW S, Covers(S, v), \A a \in S : now - a.at < Dedupe
    PROVE  Covers(S, << >>)
  BY RecentIs

-----------------------------------------------------------------------------
(* The tables account for what was admitted.                                *)

Admission == [session : Sessions, url : Http, at : Nat]
Hosts == {HostOf[u] : u \in Http}
Times == {v \in Seq(Nat) : Len(v) <= MaxPerHost}
Counts == 0 .. MaxPerSession

Charged(B, s) == {a \in B : a.session = s}
Live(B, h, n) == {a \in B : HostOf[a.url] = h /\ n - a.at < Dedupe}

\* A URL that was admitted recently is in the table, with that time or a later.
SeenOK(B, d, F, n) ==
    \A a \in B : a.url \notin F /\ n - a.at < Dedupe => a.url \in Keys(d) /\ a.at <= Get(d, a.url, 0)

\* What was admitted recently at a host has its times in the table.
HostsOK(B, d, F, n) == \A h \in Hosts : h \notin F => Covers(Live(B, h, n), Get(d, h, << >>))

\* Two admissions of one URL.
Apart(B, F) ==
    \A a, b \in B : a.url = b.url /\ a # b /\ a.url \notin F =>
                       a.at >= b.at + Dedupe \/ b.at >= a.at + Dedupe

Account(B, seen, host, F, n) ==
    /\ B \in SUBSET Admission /\ IsFiniteSet(B)
    /\ \A a \in B : a.at <= n
    /\ SeenOK(B, seen, F, n)
    /\ HostsOK(B, host, F, n)
    /\ Apart(B, F)

\* The limits are numbers.
LEMMA Numbers ==
    /\ Dedupe \in Nat /\ MaxPerSession \in Nat /\ MaxPerHost \in Nat
    /\ MaxDepth \in Nat /\ MaxTracked \in Nat /\ MaxUrls \in Nat
  BY LimitAssumption, ScanBoundAssumption

LEMMA TimesOf ==
    ASSUME NEW d, IsDict(d, Hosts, Times), NEW h
    PROVE  Get(d, h, << >>) \in Times
  <1>1. CASE h \in Keys(d)
    BY <1>1, GetIn
  <1>2. CASE h \notin Keys(d)
    <2>1. << >> \in Seq(Nat) /\ Len(<< >>) = 0 /\ 0 <= MaxPerHost
      BY EmptySeq, Numbers
    <2>2. << >> \in Times
      BY ONLY <2>1 DEF Times
    <2> QED
      BY ONLY <1>2, <2>2 DEF Get
  <1> QED
    BY <1>1, <1>2

\* A host that is over its cap keeps what is recent of its times.
LEMMA AccountOver ==
    ASSUME now \in Nat, NEW B, NEW seen, NEW host, NEW F, IsDict(host, Hosts, Times),
           Account(B, seen, host, F, now), NEW h \in Hosts
    PROVE  LET t == RecentTimes(Get(host, h, << >>))
           IN  /\ t \in Times
               /\ Account(B, seen, Put(host, h, t), F, now)
  <1> DEFINE v == Get(host, h, << >>)
             t == RecentTimes(v)
  <1>1. v \in Seq(Nat) /\ Len(v) <= MaxPerHost
    BY TimesOf DEF Times
  <1> HIDE DEF v
  <1>2. /\ t \in Seq(Nat) /\ Len(t) <= Len(v)
        /\ \A S : Covers(S, v) /\ (\A a \in S : now - a.at < Dedupe) => Covers(S, t)
    BY ONLY <1>1, now \in Nat, RecentIs
  <1> HIDE DEF t
  <1>3. t \in Times
    <2>1. Len(t) \in Nat /\ Len(v) \in Nat /\ MaxPerHost \in Nat
      BY ONLY <1>1, <1>2, LenProperties, Numbers
    <2>2. Len(t) <= MaxPerHost
      BY ONLY <1>1, <1>2, <2>1
    <2> QED
      BY ONLY <1>2, <2>2 DEF Times
  <1> DEFINE d == Put(host, h, t)
  <1>4. /\ \A x : Get(d, h, x) = t
        /\ \A c, x : c # h => Get(d, c, x) = Get(host, c, x)
    BY ONLY <1>3, h \in Hosts, IsDict(host, Hosts, Times), PutIs
  <1> HIDE DEF d
  <1>5. HostsOK(B, d, F, now)
    <2> SUFFICES ASSUME NEW g \in Hosts, g \notin F
                 PROVE  Covers(Live(B, g, now), Get(d, g, << >>))
      BY DEF HostsOK
    <2>1. Covers(Live(B, g, now), Get(host, g, << >>))
      BY DEF Account, HostsOK
    <2>2. CASE g = h
      <3>1. \A a \in Live(B, h, now) : now - a.at < Dedupe
        BY DEF Live
      <3>2. Covers(Live(B, h, now), t)
        BY ONLY <1>2, <2>1, <2>2, <3>1 DEF v
      <3> QED
        BY ONLY <1>4, <2>2, <3>2
    <2>3. CASE g # h
      BY ONLY <1>4, <2>1, <2>3
    <2> QED
      BY <2>2, <2>3
  <1>6. Account(B, seen, d, F, now)
    BY ONLY <1>5, Account(B, seen, host, F, now) DEF Account
  <1> QED
    BY ONLY <1>3, <1>6 DEF d, t, v

\* A URL is admitted: it is not cooling down and its host has room.
LEMMA AccountAdd ==
    ASSUME now \in Nat, NEW B, NEW seen, NEW host, NEW F,
           IsDict(seen, Http, Nat), IsDict(host, Hosts, Times),
           Account(B, seen, host, F, now), NEW url \in Http, NEW ss \in Sessions,
           ~(url \in Keys(seen) /\ Recent(Get(seen, url, 0))),
           Len(RecentTimes(Get(host, HostOf[url], << >>))) < MaxPerHost
    PROVE  LET t == Append(RecentTimes(Get(host, HostOf[url], << >>)), now)
               r == [session |-> ss, url |-> url, at |-> now]
           IN  /\ t \in Times
               /\ Account(B \cup {r}, Put(seen, url, now), Put(host, HostOf[url], t), F, now)
  <1> DEFINE h == HostOf[url]
             v == Get(host, h, << >>)
             u == RecentTimes(v)
             t == Append(u, now)
             r == [session |-> ss, url |-> url, at |-> now]
             C == B \cup {r}
  <1>1. h \in Hosts
    BY DEF Hosts
  <1>2. /\ r \in Admission /\ r.session = ss /\ r.url = url /\ r.at = now
        /\ HostOf[r.url] = h
    BY DEF Admission
  <1>3. v \in Seq(Nat)
    BY TimesOf DEF Times
  <1>4. /\ u \in Seq(Nat) /\ Len(u) < MaxPerHost
        /\ \A S : Covers(S, v) /\ (\A a \in S : now - a.at < Dedupe) => Covers(S, u)
    BY <1>3, RecentIs
  <1>5. B \in SUBSET Admission /\ IsFiniteSet(B) /\ \A a \in B : a.at <= now
    BY DEF Account
  <1> HIDE DEF r, u, v, h
  <1>6. t \in Seq(Nat) /\ Len(t) <= MaxPerHost
    <2>1. t \in Seq(Nat) /\ Len(t) = Len(u) + 1 /\ Len(u) \in Nat
      BY ONLY <1>4, now \in Nat, AppendProperties, LenProperties
    <2> HIDE DEF t
    <2> QED
      BY ONLY <1>4, <2>1, Numbers
  <1> HIDE DEF t
  <1>7. t \in Times
    BY ONLY <1>6 DEF Times
  <1> DEFINE e == Put(seen, url, now)
             d == Put(host, h, t)
  <1>8. /\ Keys(e) = Keys(seen) \cup {url} /\ \A x : Get(e, url, x) = now
        /\ \A c, x : c # url => Get(e, c, x) = Get(seen, c, x)
    BY ONLY now \in Nat, url \in Http, IsDict(seen, Http, Nat), PutIs
  <1>9. /\ \A x : Get(d, h, x) = t
        /\ \A c, x : c # h => Get(d, c, x) = Get(host, c, x)
    BY ONLY <1>1, <1>7, IsDict(host, Hosts, Times), PutIs
  <1> HIDE DEF d, e
  <1>10. HostsOK(C, d, F, now)
    <2> SUFFICES ASSUME NEW g \in Hosts, g \notin F
                 PROVE  Covers(Live(C, g, now), Get(d, g, << >>))
      BY DEF HostsOK
    <2>1. Covers(Live(B, g, now), Get(host, g, << >>))
      BY DEF Account, HostsOK
    <2>2. CASE g = h
      <3>1. \A a \in Live(B, h, now) : now - a.at < Dedupe
        BY DEF Live
      <3>2. Covers(Live(B, h, now), u)
        BY ONLY <1>4, <2>1, <2>2, <3>1 DEF v
      <3>3. Covers(Live(B, h, now) \cup {r}, t)
        BY ONLY <1>2, <1>4, <3>2, now \in Nat, CoversAdd DEF t
      <3>4. Live(C, h, now) \in SUBSET (Live(B, h, now) \cup {r})
        BY ONLY DEF Live
      <3>5. Covers(Live(C, h, now), t)
        BY ONLY <3>3, <3>4, CoversLess
      <3> QED
        BY ONLY <1>9, <2>2, <3>5
    <2>3. CASE g # h
      <3>1. Live(C, g, now) = Live(B, g, now)
        BY ONLY <1>2, <2>3 DEF Live
      <3> QED
        BY ONLY <1>9, <2>1, <2>3, <3>1
    <2> QED
      BY <2>2, <2>3
  <1>11. SeenOK(C, e, F, now)
    <2> SUFFICES ASSUME NEW a \in C, a.url \notin F, now - a.at < Dedupe
                 PROVE  a.url \in Keys(e) /\ a.at <= Get(e, a.url, 0)
      BY DEF SeenOK
    <2>1. CASE a.url = url
      <3>1. a.at <= now
        BY ONLY <1>2, <1>5, a \in C, now \in Nat
      <3> QED
        BY ONLY <1>8, <2>1, <3>1
    <2>2. CASE a.url # url
      <3>1. a \in B
        BY ONLY <1>2, <2>2, a \in C
      <3>2. a.url \in Keys(seen) /\ a.at <= Get(seen, a.url, 0)
        BY <3>1 DEF Account, SeenOK
      <3> QED
        BY ONLY <1>8, <2>2, <3>2
    <2> QED
      BY <2>1, <2>2
  <1>12. ASSUME NEW b \in B, b.url = url, url \notin F PROVE now >= b.at + Dedupe
    <2>1. b.at \in Nat /\ b.at <= now /\ Dedupe \in Nat
      BY ONLY <1>5, b \in B, Numbers DEF Admission
    <2>2. CASE now - b.at < Dedupe
      <3>1. url \in Keys(seen) /\ b.at <= Get(seen, url, 0)
        BY <1>12, <2>2 DEF Account, SeenOK
      <3>2. Get(seen, url, 0) \in Nat
        BY ONLY <3>1, IsDict(seen, Http, Nat), GetIn
      <3>3. now - Get(seen, url, 0) < Dedupe
        BY ONLY <2>1, <2>2, <3>1, <3>2, now \in Nat
      <3> QED
        BY <3>1, <3>3 DEF Recent
    <2>3. CASE ~(now - b.at < Dedupe)
      BY ONLY <2>1, <2>3, now \in Nat
    <2> QED
      BY <2>2, <2>3
  <1>13. Apart(C, F)
    <2> SUFFICES ASSUME NEW a \in C, NEW b \in C, a.url = b.url, a # b, a.url \notin F
                 PROVE  a.at >= b.at + Dedupe \/ b.at >= a.at + Dedupe
      BY DEF Apart
    <2>1. CASE a \in B /\ b \in B
      BY <2>1 DEF Account, Apart
    <2>2. CASE a = r /\ b \in B
      BY ONLY <1>2, <1>12, <2>2, a.url = b.url, a.url \notin F
    <2>3. CASE b = r /\ a \in B
      BY ONLY <1>2, <1>12, <2>3, a.url = b.url, a.url \notin F
    <2> QED
      BY ONLY <2>1, <2>2, <2>3, a \in C, b \in C, a # b
  <1>14. C \in SUBSET Admission /\ IsFiniteSet(C) /\ \A a \in C : a.at <= now
    <2>1. IsFiniteSet(C)
      BY ONLY <1>5, FS_AddElement
    <2> QED
      BY ONLY <1>2, <1>5, <2>1, now \in Nat
  <1>15. Account(C, e, d, F, now)
    BY ONLY <1>10, <1>11, <1>13, <1>14 DEF Account
  <1> QED
    BY ONLY <1>7, <1>15 DEF e, d, t, u, v, h, r

-----------------------------------------------------------------------------
(* admit (stage2.py).                                                       *)

\* The steps of the fold in Admit.
AdmitTrace(g, n, b, q) ==
    /\ g[0] = b
    /\ \A m \in 1 .. n : g[m] = AdmitUrl(g[m - 1], q[m])
    /\ FoldLeft(AdmitUrl, b, q) = g[n]

LEMMA AdmitSteps ==
    ASSUME NEW n \in Nat, NEW q, DOMAIN q = 1 .. n, NEW X, NEW b \in X,
           \A x \in X : \A m \in 1 .. n : AdmitUrl(x, q[m]) \in X
    PROVE  \E g \in [0 .. n -> X] : AdmitTrace(g, n, b, q)
  <1> DEFINE Op(x, m) == AdmitUrl(x, q[m])
             G == [p \in X \X (1 .. n) |-> Op(p[1], p[2])]
             Body(h, s) == IF s = {} THEN b ELSE Op(h[s \ {Max(s)}], Max(s))
             iter == CHOOSE f : f = [s \in SUBSET (1 .. n) |-> Body(f, s)]
  <1>1. b \in X /\ \A x \in X : \A m \in 1 .. n : Op(x, m) \in X
    OBVIOUS
  <1>3. FoldLeft(AdmitUrl, b, q) = iter[1 .. n]
    BY DEF FoldLeft, MapThenFoldSet
  <1> HIDE DEF Op
  <1>4. G \in [X \X (1 .. n) -> X]
    BY <1>1
  <1>5. \A x \in X : \A m \in 1 .. n : G[<<x, m>>] = Op(x, m)
    OBVIOUS
  <1> HIDE DEF G
  <1>6. PICK h \in [SUBSET (1 .. n) -> X] : Recurs(h, n, b, G)
    <2>1. Recursive(n, X, b, G)
      BY ONLY <1>1, <1>4, n \in Nat, FoldExists
    <2> QED
      BY ONLY <2>1 DEF Recursive
  <1>7. ASSUME NEW s \in SUBSET (1 .. n) PROVE h[s] = Body(h, s)
    <2>1. CASE s = {}
      BY ONLY <1>6, <2>1, s \in SUBSET (1 .. n) DEF Recurs
    <2>2. CASE s # {}
      <3>1. Max(s) \in 1 .. n /\ s \ {Max(s)} \in SUBSET (1 .. n)
        BY ONLY <2>2, n \in Nat, s \in SUBSET (1 .. n), MaxIn
      <3>2. h[s] = G[<<h[s \ {Max(s)}], Max(s)>>]
        BY ONLY <1>6, <2>2, s \in SUBSET (1 .. n) DEF Recurs
      <3> QED
        BY ONLY <1>5, <1>6, <2>2, <3>1, <3>2
    <2> QED
      BY ONLY <2>1, <2>2
  <1>8. h = [s \in SUBSET (1 .. n) |-> Body(h, s)]
    BY ONLY <1>6, <1>7
  <1>9. iter = [s \in SUBSET (1 .. n) |-> Body(iter, s)]
    BY ONLY <1>8
  <1>10. \A s \in SUBSET (1 .. n) : iter[s] = Body(iter, s)
    BY ONLY <1>9
  <1> HIDE DEF iter
  <1>11. iter[{}] = b
    BY ONLY <1>10
  <1>12. ASSUME NEW m \in 1 .. n PROVE iter[1 .. m] = Op(iter[1 .. (m - 1)], m)
    <2>1. /\ m \in Nat /\ 1 .. m \in SUBSET (1 .. n) /\ 1 .. m # {} /\ m \in 1 .. m
          /\ (1 .. m) \ {m} = 1 .. (m - 1)
      BY ONLY n \in Nat, m \in 1 .. n, UpTo
    <2>2. Max(1 .. m) = m
      BY ONLY <2>1, MaxIs
    <2> QED
      BY ONLY <1>10, <2>1, <2>2
  <1>13. \A m \in 0 .. n : iter[1 .. m] \in X
    <2>1. iter[{}] \in X
      BY ONLY <1>1, <1>11
    <2>2. \A m \in 1 .. n : iter[1 .. (m - 1)] \in X => iter[1 .. m] \in X
      BY ONLY <1>1, <1>12
    <2> QED
      BY ONLY <2>1, <2>2, n \in Nat, StaysIn
  <1> DEFINE g == [m \in 0 .. n |-> iter[1 .. m]]
  <1>14. g \in [0 .. n -> X]
    BY ONLY <1>13
  <1>15. g[0] = b
    <2>1. 1 .. 0 = {} /\ 0 \in 0 .. n
      OBVIOUS
    <2> QED
      BY ONLY <1>11, <2>1
  <1>16. \A m \in 1 .. n : g[m] = Op(g[m - 1], m)
    <2>1. \A m \in 1 .. n : m \in 0 .. n /\ m - 1 \in 0 .. n
      OBVIOUS
    <2> QED
      BY ONLY <1>12, <2>1
  <1>17. FoldLeft(AdmitUrl, b, q) = g[n]
    <2>1. n \in 0 .. n
      OBVIOUS
    <2> QED
      BY ONLY <1>3, <2>1
  <1> HIDE DEF g
  <1>18. AdmitTrace(g, n, b, q)
    BY ONLY <1>15, <1>16, <1>17 DEF AdmitTrace, Op
  <1> QED
    BY ONLY <1>14, <1>18

AdmitState == [seen : Seq(Entry(Http, Nat)), host : Seq(Entry(Hosts, Times)),
               used : Nat, list : Seq(Http)]

New(ss, list, n) == {[session |-> ss, url |-> u, at |-> n] : u \in Range(list)}

\* What was admitted, A before this call, is accounted for after every URL.
AdmitInv(s, ss, A, F, n) ==
    /\ s \in AdmitState
    /\ IsDict(s.seen, Http, Nat) /\ IsDict(s.host, Hosts, Times)
    /\ s.used + Len(s.list) <= MaxPerSession
    /\ Account(A \cup New(ss, s.list, n), s.seen, s.host, F, n)
    /\ ss \notin F => Cardinality(Charged(A \cup New(ss, s.list, n), ss)) <= s.used + Len(s.list)

LEMMA NewMore ==
    ASSUME NEW list \in Seq(Http), NEW url \in Http, NEW ss, NEW n
    PROVE  New(ss, Append(list, url), n) = New(ss, list, n) \cup {[session |-> ss, url |-> url, at |-> n]}
  <1> DEFINE t == Append(list, url)
  <1>1. PICK l \in Nat : Len(list) = l /\ DOMAIN list = 1 .. l
    BY LenProperties
  <1>2. t \in Seq(Http) /\ Len(t) = l + 1 /\ t[l + 1] = url /\ \A i \in 1 .. l : t[i] = list[i]
    BY <1>1, AppendProperties
  <1> HIDE DEF t
  <1>3. DOMAIN t = 1 .. (l + 1)
    BY ONLY <1>2, LenProperties
  <1>4. /\ \A i \in 1 .. (l + 1) : i = l + 1 \/ i \in 1 .. l
        /\ l + 1 \in 1 .. (l + 1) /\ \A i \in 1 .. l : i \in 1 .. (l + 1)
    BY ONLY <1>1
  <1>5. Range(t) = Range(list) \cup {url}
    BY ONLY <1>1, <1>2, <1>3, <1>4 DEF Range
  <1>6. New(ss, t, n) = New(ss, list, n) \cup {[session |-> ss, url |-> url, at |-> n]}
    BY ONLY <1>5 DEF New
  <1> QED
    BY ONLY <1>6 DEF t

LEMMA AdmitKeeps ==
    ASSUME now \in Nat, NEW s, NEW ss \in Sessions, NEW A, NEW F, NEW url \in Http,
           AdmitInv(s, ss, A, F, now)
    PROVE  LET a == AdmitUrl(s, url)
           IN  /\ AdmitInv(a, ss, A, F, now)
               /\ a.used = s.used
               /\ Len(a.seen) <= Len(s.seen) + 1 /\ Len(a.host) <= Len(s.host) + 1
  <1> DEFINE h == HostOf[url]
             u == RecentTimes(Get(s.host, h, << >>))
             r == [session |-> ss, url |-> url, at |-> now]
             B == A \cup New(ss, s.list, now)
             a == AdmitUrl(s, url)
  <1>1. /\ s \in AdmitState /\ s.seen \in Seq(Entry(Http, Nat)) /\ s.host \in Seq(Entry(Hosts, Times))
        /\ s.used \in Nat /\ s.list \in Seq(Http)
    BY DEF AdmitInv, AdmitState
  <1>2. /\ IsDict(s.seen, Http, Nat) /\ IsDict(s.host, Hosts, Times)
        /\ s.used + Len(s.list) <= MaxPerSession
        /\ Account(B, s.seen, s.host, F, now)
        /\ ss \notin F => Cardinality(Charged(B, ss)) <= s.used + Len(s.list)
    BY DEF AdmitInv
  <1>3. h \in Hosts
    BY DEF Hosts
  <1>4. Len(s.seen) \in Nat /\ Len(s.host) \in Nat /\ Len(s.list) \in Nat
    BY ONLY <1>1, LenProperties
  <1>5. CASE a = s
    BY <1>4, <1>5
  <1>6. CASE a = [s EXCEPT !.host = Put(s.host, h, u)]
    <2> DEFINE d == Put(s.host, h, u)
    <2>1. u \in Times /\ Account(B, s.seen, d, F, now)
      BY ONLY <1>2, <1>3, now \in Nat, AccountOver
    <2>2. IsDict(d, Hosts, Times) /\ Len(d) <= Len(s.host) + 1
      BY ONLY <1>2, <1>3, <2>1, PutIs
    <2> HIDE DEF d
    <2>3. d \in Seq(Entry(Hosts, Times))
      BY ONLY <2>2 DEF IsDict
    <2>4. /\ a \in AdmitState /\ a.seen = s.seen /\ a.host = d /\ a.used = s.used /\ a.list = s.list
      BY ONLY <1>1, <1>6, <2>3 DEF AdmitState, d
    <2> HIDE DEF a
    <2>5. AdmitInv(a, ss, A, F, now)
      BY ONLY <1>2, <2>1, <2>2, <2>4 DEF AdmitInv
    <2>6. Len(a.seen) <= Len(s.seen) + 1
      BY ONLY <1>4, <2>4
    <2> QED
      BY ONLY <2>2, <2>4, <2>5, <2>6 DEF a
  <1>7. CASE /\ a = [s EXCEPT !.host = Put(s.host, h, Append(u, now)),
                              !.list = Append(s.list, url),
                              !.seen = Put(s.seen, url, now)]
             /\ ~(s.used + Len(s.list) >= MaxPerSession)
             /\ ~(url \in Keys(s.seen) /\ Recent(Get(s.seen, url, 0)))
             /\ ~(Len(u) >= MaxPerHost)
    <2> DEFINE d == Put(s.host, h, Append(u, now))
               e == Put(s.seen, url, now)
               list == Append(s.list, url)
               C == A \cup New(ss, list, now)
    <2>0. Len(u) < MaxPerHost
      <3>1. Get(s.host, h, << >>) \in Seq(Nat)
        BY ONLY <1>2, TimesOf DEF Times
      <3>2. u \in Seq(Nat)
        BY ONLY <3>1, now \in Nat, RecentIs
      <3>3. Len(u) \in Nat /\ MaxPerHost \in Nat
        BY ONLY <3>2, LenProperties, Numbers
      <3> HIDE DEF u
      <3> QED
        BY ONLY <1>7, <3>3
    <2>1. Append(u, now) \in Times /\ Account(B \cup {r}, e, d, F, now)
      BY ONLY <1>2, <1>7, <2>0, now \in Nat, url \in Http, ss \in Sessions, AccountAdd
    <2>2. IsDict(d, Hosts, Times) /\ Len(d) <= Len(s.host) + 1
      BY ONLY <1>2, <1>3, <2>1, PutIs
    <2>3. IsDict(e, Http, Nat) /\ Len(e) <= Len(s.seen) + 1
      BY ONLY <1>2, now \in Nat, url \in Http, PutIs
    <2>4. list \in Seq(Http) /\ Len(list) = Len(s.list) + 1
      BY ONLY <1>1, url \in Http, AppendProperties
    <2>5. C = B \cup {r}
      BY ONLY <1>1, url \in Http, NewMore
    <2> HIDE DEF d, e, list, r, u
    <2>6. d \in Seq(Entry(Hosts, Times)) /\ e \in Seq(Entry(Http, Nat))
      BY ONLY <2>2, <2>3 DEF IsDict
    <2>7. /\ a \in AdmitState /\ a.seen = e /\ a.host = d /\ a.used = s.used /\ a.list = list
      BY ONLY <1>1, <1>7, <2>4, <2>6 DEF AdmitState, d, e, list
    <2> HIDE DEF a, B, C
    <2>8. s.used + Len(list) <= MaxPerSession
      BY ONLY <1>1, <1>4, <1>7, <2>4, Numbers
    <2>9. ss \notin F => Cardinality(Charged(C, ss)) <= s.used + Len(list)
      <3>1. IsFiniteSet(B)
        BY ONLY <1>2 DEF Account
      <3>2. IsFiniteSet(Charged(B, ss))
        <4>1. Charged(B, ss) \in SUBSET B
          BY ONLY DEF Charged
        <4> QED
          BY ONLY <3>1, <4>1, FS_Subset
      <3>3. /\ IsFiniteSet(Charged(B, ss) \cup {r})
            /\ Cardinality(Charged(B, ss) \cup {r}) <= Cardinality(Charged(B, ss)) + 1
            /\ Cardinality(Charged(B, ss)) \in Nat
        <4>1. Cardinality(Charged(B, ss)) \in Nat
          BY ONLY <3>2, FS_CardinalityType
        <4>2. /\ IsFiniteSet(Charged(B, ss) \cup {r})
              /\ Cardinality(Charged(B, ss) \cup {r}) =
                 IF r \in Charged(B, ss) THEN Cardinality(Charged(B, ss)) ELSE Cardinality(Charged(B, ss)) + 1
          BY ONLY <3>2, FS_AddElement
        <4>3. \A c \in Nat : c <= c + 1 /\ c + 1 <= c + 1
          OBVIOUS
        <4> QED
          BY ONLY <4>1, <4>2, <4>3
      <3>4. Charged(C, ss) \in SUBSET (Charged(B, ss) \cup {r})
        BY ONLY <2>5 DEF Charged
      <3>5. /\ Cardinality(Charged(C, ss)) <= Cardinality(Charged(B, ss) \cup {r})
            /\ Cardinality(Charged(C, ss)) \in Nat /\ Cardinality(Charged(B, ss) \cup {r}) \in Nat
        BY ONLY <3>3, <3>4, FS_Subset, FS_CardinalityType
      <3> QED
        BY ONLY <1>1, <1>2, <1>4, <2>4, <3>3, <3>5
    <2>10. Account(C, e, d, F, now)
      BY ONLY <2>1, <2>5
    <2>11. AdmitInv(a, ss, A, F, now)
      BY ONLY <2>2, <2>3, <2>7, <2>8, <2>9, <2>10 DEF AdmitInv, C
    <2> QED
      BY ONLY <2>2, <2>3, <2>7, <2>11 DEF a
  <1> QED
    BY <1>5, <1>6, <1>7 DEF AdmitUrl

-----------------------------------------------------------------------------
(* The limiter between two plans.                                           *)

SessionsOK(B, d, F) ==
    \A s \in Sessions : s \notin F => Cardinality(Charged(B, s)) <= Get(d, s, 0)

\* The admissions at a's host in the window that ends with a.
Window(B, a) == {b \in B : /\ HostOf[b.url] = HostOf[a.url]
                           /\ b.at <= a.at /\ a.at < b.at + Dedupe}

WindowsOK(B, F) ==
    \A a \in B : HostOf[a.url] \notin F => Cardinality(Window(B, a)) <= MaxPerHost

LimiterType(l) ==
    /\ IsDict(l.seen, Http, Nat)
    /\ IsDict(l.session, Sessions, Counts)
    /\ IsDict(l.host, Hosts, Times)

LimiterOK(l, B, F, n) ==
    /\ LimiterType(l)
    /\ Account(B, l.seen, l.host, F, n)
    /\ SessionsOK(B, l.session, F)
    /\ WindowsOK(B, F)

\* A table that keeps some entries of another.
PartOf(c, d) ==
    /\ Keys(c) \subseteq Keys(d)
    /\ \A k \in Keys(c) : \A x : Get(c, k, x) = Get(d, k, x)

\* _prune (stage2.py) on each of the tables.
LEMMA PruneTables ==
    ASSUME LimiterType(limiter)
    PROVE  LET kept == Prune(limiter)
           IN  /\ LimiterType(kept)
               /\ PartOf(kept.seen, limiter.seen) /\ PartOf(kept.session, limiter.session)
               /\ PartOf(kept.host, limiter.host)
               /\ Len(kept.seen) <= MaxTracked /\ Len(kept.session) <= MaxTracked
               /\ Len(kept.host) <= MaxTracked
  <1> DEFINE d == limiter.seen
             I == {i \in DOMAIN d : Recent(d[i].v)}
             kept == Prune(limiter)
             small == IF Len(d) > MaxTracked THEN Newest(RecentUrls(d)) ELSE d
  <1>1. /\ IsDict(d, Http, Nat) /\ IsDict(limiter.session, Sessions, Counts)
        /\ IsDict(limiter.host, Hosts, Times)
    BY DEF LimiterType
  <1>2. kept.seen = small /\ kept.session = Newest(limiter.session) /\ kept.host = Newest(limiter.host)
    BY DEF Prune
  <1> HIDE DEF kept
  <1>3. /\ IsDict(kept.session, Sessions, Counts) /\ PartOf(kept.session, limiter.session)
        /\ Len(kept.session) <= MaxTracked
    BY ONLY <1>1, <1>2, NewestIs DEF PartOf
  <1>4. /\ IsDict(kept.host, Hosts, Times) /\ PartOf(kept.host, limiter.host)
        /\ Len(kept.host) <= MaxTracked
    BY ONLY <1>1, <1>2, NewestIs DEF PartOf
  <1>5. IsDict(small, Http, Nat) /\ PartOf(small, d) /\ Len(small) <= MaxTracked
    <2>1. PICK l \in Nat : Len(d) = l /\ d \in [1 .. l -> Entry(Http, Nat)] /\ DOMAIN d = 1 .. l
      BY ONLY <1>1, LenProperties DEF IsDict
    <2> HIDE DEF d
    <2>2. CASE l > MaxTracked
      <3> DEFINE c == Keep(d, I)
      <3>1. c = RecentUrls(d)
        BY ONLY DEF RecentUrls
      <3>2. I \in SUBSET (1 .. l)
        BY ONLY <2>1
      <3> HIDE DEF I
      <3>3. c \in Seq(Entry(Http, Nat)) /\ Selects(c, d, I)
        BY ONLY <2>1, <3>2, KeepIs
      <3> HIDE DEF c
      <3>4. IsDict(c, Http, Nat) /\ PartOf(c, d)
        <4>1. IsDict(d, Http, Nat) /\ I \in SUBSET (1 .. Len(d))
          BY ONLY <1>1, <2>1, <3>2
        <4> QED
          BY ONLY <3>3, <4>1, SubDict DEF PartOf
      <3>5. IsDict(Newest(c), Http, Nat) /\ PartOf(Newest(c), c) /\ Len(Newest(c)) <= MaxTracked
        BY ONLY <3>4, NewestIs DEF PartOf
      <3>6. PartOf(Newest(c), d)
        BY ONLY <3>4, <3>5 DEF PartOf
      <3>7. small = Newest(c)
        BY ONLY <2>1, <2>2, <3>1
      <3> QED
        BY ONLY <3>5, <3>6, <3>7
    <2>3. CASE ~(l > MaxTracked)
      <3>1. small = d
        BY ONLY <2>1, <2>3
      <3>2. l <= MaxTracked
        BY ONLY <2>1, <2>3, Numbers
      <3>3. PartOf(d, d)
        BY ONLY DEF PartOf
      <3> QED
        BY ONLY <1>1, <2>1, <3>1, <3>2, <3>3
    <2> QED
      BY ONLY <2>2, <2>3
  <1> HIDE DEF small
  <1>6. LimiterType(kept)
    BY ONLY <1>2, <1>3, <1>4, <1>5 DEF LimiterType
  <1> QED
    BY ONLY <1>2, <1>3, <1>4, <1>5, <1>6 DEF kept

\* What pruning makes the limiter forget is evicted, the rest is accounted for.
LEMMA PruneKeeps ==
    ASSUME now \in Nat, LimiterOK(limiter, admitted, forgotten, now)
    PROVE  LET kept == Prune(limiter)
               F == forgotten \cup Evicted
           IN  /\ Account(admitted, kept.seen, kept.host, F, now)
               /\ SessionsOK(admitted, kept.session, F)
  <1> DEFINE kept == Prune(limiter)
             F == forgotten \cup Evicted
             B == admitted
  <1>1. LimiterType(limiter)
    BY DEF LimiterOK
  <1>2. /\ PartOf(kept.seen, limiter.seen) /\ PartOf(kept.session, limiter.session)
        /\ PartOf(kept.host, limiter.host)
    BY ONLY <1>1, PruneTables
  <1>3. /\ IsDict(limiter.seen, Http, Nat) /\ IsDict(limiter.host, Hosts, Times)
    BY ONLY <1>1 DEF LimiterType
  <1>4. /\ Account(B, limiter.seen, limiter.host, forgotten, now)
        /\ SessionsOK(B, limiter.session, forgotten)
    BY DEF LimiterOK
  <1>5. /\ \A s \in Keys(limiter.session) : s \notin F => s \in Keys(kept.session)
        /\ \A h \in Keys(limiter.host) :
              h \notin F /\ h \notin Keys(kept.host) => RecentTimes(Get(limiter.host, h, << >>)) = << >>
        /\ \A u \in Keys(limiter.seen) :
              u \notin F /\ Recent(Get(limiter.seen, u, 0)) => u \in Keys(kept.seen)
        /\ \A x : x \notin F => x \notin forgotten
    BY ONLY DEF Evicted
  <1>6. B \in SUBSET Admission /\ IsFiniteSet(B) /\ \A a \in B : a.at <= now
    BY ONLY <1>4 DEF Account
  <1> HIDE DEF kept, F
  <1>7. SeenOK(B, kept.seen, F, now)
    <2> SUFFICES ASSUME NEW a \in B, a.url \notin F, now - a.at < Dedupe
                 PROVE  a.url \in Keys(kept.seen) /\ a.at <= Get(kept.seen, a.url, 0)
      BY DEF SeenOK
    <2>1. a.url \in Keys(limiter.seen) /\ a.at <= Get(limiter.seen, a.url, 0)
      BY ONLY <1>4, <1>5, a \in B, a.url \notin F, now - a.at < Dedupe DEF Account, SeenOK
    <2>2. Get(limiter.seen, a.url, 0) \in Nat /\ a.at \in Nat
      BY ONLY <1>3, <1>6, <2>1, a \in B, GetIn DEF Admission
    <2>3. Recent(Get(limiter.seen, a.url, 0))
      BY ONLY <2>1, <2>2, now \in Nat, now - a.at < Dedupe, Numbers DEF Recent
    <2>4. a.url \in Keys(kept.seen)
      BY ONLY <1>5, <2>1, <2>3, a.url \notin F
    <2> QED
      BY ONLY <1>2, <2>1, <2>4 DEF PartOf
  <1>8. HostsOK(B, kept.host, F, now)
    <2> SUFFICES ASSUME NEW h \in Hosts, h \notin F
                 PROVE  Covers(Live(B, h, now), Get(kept.host, h, << >>))
      BY DEF HostsOK
    <2>1. Covers(Live(B, h, now), Get(limiter.host, h, << >>))
      BY ONLY <1>4, <1>5, h \in Hosts, h \notin F DEF Account, HostsOK
    <2>2. CASE h \in Keys(kept.host)
      BY ONLY <1>2, <2>1, <2>2 DEF PartOf
    <2>3. CASE h \notin Keys(kept.host) /\ h \in Keys(limiter.host)
      <3>1. Get(limiter.host, h, << >>) \in Seq(Nat)
        BY ONLY <1>3, TimesOf DEF Times
      <3>2. RecentTimes(Get(limiter.host, h, << >>)) = << >>
        BY ONLY <1>5, <2>3, h \notin F
      <3>3. \A a \in Live(B, h, now) : now - a.at < Dedupe
        BY ONLY DEF Live
      <3>4. Covers(Live(B, h, now), << >>)
        BY ONLY <2>1, <3>1, <3>2, <3>3, now \in Nat, NoneRecent
      <3>5. Get(kept.host, h, << >>) = << >>
        BY ONLY <2>3 DEF Get
      <3> QED
        BY ONLY <3>4, <3>5
    <2>4. CASE h \notin Keys(kept.host) /\ h \notin Keys(limiter.host)
      <3>1. Get(kept.host, h, << >>) = << >> /\ Get(limiter.host, h, << >>) = << >>
        BY ONLY <2>4 DEF Get
      <3> QED
        BY ONLY <2>1, <3>1
    <2> QED
      BY ONLY <2>2, <2>3, <2>4
  <1>9. SessionsOK(B, kept.session, F)
    <2> SUFFICES ASSUME NEW s \in Sessions, s \notin F
                 PROVE  Cardinality(Charged(B, s)) <= Get(kept.session, s, 0)
      BY DEF SessionsOK
    <2>1. Cardinality(Charged(B, s)) <= Get(limiter.session, s, 0)
      BY ONLY <1>4, <1>5, s \in Sessions, s \notin F DEF SessionsOK
    <2>2. CASE s \in Keys(kept.session)
      BY ONLY <1>2, <2>1, <2>2 DEF PartOf
    <2>3. CASE s \notin Keys(kept.session)
      <3>1. s \notin Keys(limiter.session)
        BY ONLY <1>5, <2>3, s \notin F
      <3>2. Get(kept.session, s, 0) = 0 /\ Get(limiter.session, s, 0) = 0
        BY ONLY <2>3, <3>1 DEF Get
      <3> QED
        BY ONLY <2>1, <3>2
    <2> QED
      BY ONLY <2>2, <2>3
  <1>10. Apart(B, F)
    BY ONLY <1>4, <1>5 DEF Account, Apart
  <1>11. Account(B, kept.seen, kept.host, F, now)
    BY ONLY <1>6, <1>7, <1>8, <1>10 DEF Account
  <1> QED
    BY ONLY <1>9, <1>11 DEF kept, F

\* A whole call of admit.
LEMMA AdmitIs ==
    ASSUME now \in Nat, LimiterOK(limiter, admitted, forgotten, now), NEW ss \in Sessions,
           NEW urls \in Seq(Http)
    PROVE  LET a == Admit(ss, urls)
           IN  /\ AdmitInv(a, ss, admitted, forgotten \cup Evicted, now)
               /\ a.used = Get(Prune(limiter).session, ss, 0)
               /\ Len(a.seen) <= MaxTracked + Len(urls) /\ Len(a.host) <= MaxTracked + Len(urls)
  <1> DEFINE kept == Prune(limiter)
             F == forgotten \cup Evicted
             used == Get(kept.session, ss, 0)
             b == [seen |-> kept.seen, host |-> kept.host, used |-> used, list |-> << >>]
             X == {s \in AdmitState : AdmitInv(s, ss, admitted, F, now)}
             a == Admit(ss, urls)
  <1>1. PICK n \in Nat : Len(urls) = n /\ DOMAIN urls = 1 .. n /\ \A m \in 1 .. n : urls[m] \in Http
    BY LenProperties
  <1>2. a = FoldLeft(AdmitUrl, b, urls)
    BY DEF Admit
  <1> HIDE DEF a
  <1>3. /\ IsDict(kept.seen, Http, Nat) /\ IsDict(kept.session, Sessions, Counts)
        /\ IsDict(kept.host, Hosts, Times)
        /\ Len(kept.seen) <= MaxTracked /\ Len(kept.host) <= MaxTracked
    BY PruneTables DEF LimiterOK, LimiterType
  <1>4. /\ Account(admitted, kept.seen, kept.host, F, now)
        /\ SessionsOK(admitted, kept.session, F)
    BY PruneKeeps
  <1> HIDE DEF kept, F
  <1>5. used \in 0 .. MaxPerSession
    <2>1. CASE ss \in Keys(kept.session)
      BY ONLY <1>3, <2>1, GetIn DEF Counts
    <2>2. CASE ss \notin Keys(kept.session)
      BY ONLY <2>2, Numbers DEF Get
    <2> QED
      BY ONLY <2>1, <2>2
  <1>6. ss \notin F => Cardinality(Charged(admitted, ss)) <= used
    BY ONLY <1>4, ss \in Sessions DEF SessionsOK
  <1> HIDE DEF used
  <1>7. AdmitInv(b, ss, admitted, F, now)
    <2>1. /\ b.seen = kept.seen /\ b.host = kept.host /\ b.used = used /\ b.list = << >>
          /\ << >> \in Seq(Http) /\ Len(<< >>) = 0
      BY ONLY EmptySeq
    <2>2. b \in AdmitState
      BY ONLY <1>3, <1>5, <2>1, Numbers DEF AdmitState, IsDict
    <2> HIDE DEF b
    <2>3. used + 0 = used /\ used <= MaxPerSession
      BY ONLY <1>5, Numbers
    <2>4. New(ss, << >>, now) = {}
      <3>1. Range(<< >>) = {}
        BY ONLY DEF Range
      <3> QED
        BY ONLY <3>1 DEF New
    <2>5. admitted \cup New(ss, b.list, now) = admitted
      BY ONLY <2>1, <2>4
    <2>6. b.used + Len(b.list) = used
      BY ONLY <2>1, <2>3
    <2> QED
      BY ONLY <1>3, <1>4, <1>6, <2>1, <2>2, <2>3, <2>5, <2>6 DEF AdmitInv
  <1>8. b \in X
    BY ONLY <1>7 DEF AdmitInv
  <1>9. \A x \in X : AdmitInv(x, ss, admitted, F, now)
    OBVIOUS
  <1>10. \A x \in X : \A m \in 1 .. n : AdmitUrl(x, urls[m]) \in X
    <2> SUFFICES ASSUME NEW x \in X, NEW m \in 1 .. n PROVE AdmitUrl(x, urls[m]) \in X
      OBVIOUS
    <2>1. AdmitInv(AdmitUrl(x, urls[m]), ss, admitted, F, now)
      BY ONLY <1>1, <1>9, x \in X, m \in 1 .. n, now \in Nat, ss \in Sessions, AdmitKeeps
    <2> QED
      BY ONLY <2>1 DEF AdmitInv
  <1>11. b.used = used /\ b.seen = kept.seen /\ b.host = kept.host
    OBVIOUS
  <1> HIDE DEF X, b
  <1>12. PICK g \in [0 .. n -> X] : AdmitTrace(g, n, b, urls)
    BY ONLY <1>1, <1>8, <1>10, AdmitSteps
  <1>13. g[0] = b /\ a = g[n] /\ \A m \in 1 .. n : g[m] = AdmitUrl(g[m - 1], urls[m])
    BY ONLY <1>2, <1>12 DEF AdmitTrace
  <1>14. \A m \in 0 .. n : AdmitInv(g[m], ss, admitted, F, now)
    BY ONLY <1>9, <1>12
  <1> DEFINE P == {m \in 0 .. n : /\ g[m].used = used
                                  /\ Len(g[m].seen) <= MaxTracked + m
                                  /\ Len(g[m].host) <= MaxTracked + m}
  <1>15. 0 \in P
    <2>1. MaxTracked + 0 = MaxTracked /\ 0 \in 0 .. n
      BY ONLY <1>1, Numbers
    <2> QED
      BY ONLY <1>3, <1>11, <1>13, <2>1
  <1>16. ASSUME NEW m \in 1 .. n, m - 1 \in P PROVE m \in P
    <2>1. m \in 0 .. n /\ m - 1 \in 0 .. n /\ m \in Int
      BY ONLY <1>1, m \in 1 .. n
    <2>2. /\ g[m].used = g[m - 1].used
          /\ Len(g[m].seen) <= Len(g[m - 1].seen) + 1 /\ Len(g[m].host) <= Len(g[m - 1].host) + 1
      BY ONLY <1>1, <1>13, <1>14, <2>1, m \in 1 .. n, now \in Nat, ss \in Sessions, AdmitKeeps
    <2>3. \A i \in 0 .. n : Len(g[i].seen) \in Nat /\ Len(g[i].host) \in Nat
      <3> SUFFICES ASSUME NEW i \in 0 .. n PROVE Len(g[i].seen) \in Nat /\ Len(g[i].host) \in Nat
        OBVIOUS
      <3>1. g[i].seen \in Seq(Entry(Http, Nat)) /\ g[i].host \in Seq(Entry(Hosts, Times))
        BY ONLY <1>14, i \in 0 .. n DEF AdmitInv, IsDict
      <3> QED
        BY ONLY <3>1, LenProperties
    <2>4. /\ g[m - 1].used = used
          /\ Len(g[m - 1].seen) <= MaxTracked + (m - 1) /\ Len(g[m - 1].host) <= MaxTracked + (m - 1)
      BY ONLY <1>16
    <2>5. \A x, y \in Nat : x <= y + 1 /\ y <= MaxTracked + (m - 1) => x <= MaxTracked + m
      BY ONLY <2>1, Numbers
    <2>6. Len(g[m].seen) <= MaxTracked + m /\ Len(g[m].host) <= MaxTracked + m
      BY ONLY <2>1, <2>2, <2>3, <2>4, <2>5
    <2> QED
      BY ONLY <2>1, <2>2, <2>4, <2>6
  <1> HIDE DEF P
  <1>17. n \in P /\ n \in 0 .. n
    <2>1. n \in 0 .. n
      OBVIOUS
    <2>2. \A m \in 1 .. n : m - 1 \in P => m \in P
      BY ONLY <1>16
    <2> QED
      BY ONLY <1>15, <2>1, <2>2, n \in Nat, Climb
  <1>18. /\ g[n].used = used
         /\ Len(g[n].seen) <= MaxTracked + n /\ Len(g[n].host) <= MaxTracked + n
    BY ONLY <1>17 DEF P
  <1> QED
    BY ONLY <1>1, <1>13, <1>14, <1>17, <1>18 DEF a, F, kept, used

\* So a plan leaves an account of all that was admitted, its own included.
LEMMA PlanKeeps ==
    ASSUME now \in Nat, LimiterOK(limiter, admitted, forgotten, now), NEW ss \in Sessions,
           NEW urls \in Seq(Http)
    PROVE  LET a == Admit(ss, urls)
               l == [seen |-> a.seen, host |-> a.host,
                     session |-> Put(Prune(limiter).session, ss, a.used + Len(a.list))]
           IN  /\ a.list \in Seq(Http)
               /\ LimiterOK(l, admitted \cup New(ss, a.list, now), forgotten \cup Evicted, now)
               /\ Len(l.session) <= MaxTracked + 1
               /\ Len(l.seen) <= MaxTracked + Len(urls) /\ Len(l.host) <= MaxTracked + Len(urls)
  <1> DEFINE kept == Prune(limiter)
             F == forgotten \cup Evicted
             a == Admit(ss, urls)
             c == a.used + Len(a.list)
             d == Put(kept.session, ss, c)
             l == [seen |-> a.seen, host |-> a.host, session |-> d]
             B == admitted
             C == B \cup New(ss, a.list, now)
  <1>1. /\ AdmitInv(a, ss, B, F, now)
        /\ Len(a.seen) <= MaxTracked + Len(urls) /\ Len(a.host) <= MaxTracked + Len(urls)
    BY AdmitIs
  <1>2. /\ IsDict(kept.session, Sessions, Counts) /\ Len(kept.session) <= MaxTracked
    BY PruneTables DEF LimiterOK, LimiterType
  <1>3. SessionsOK(B, kept.session, F)
    BY PruneKeeps
  <1>4. WindowsOK(B, forgotten)
    BY DEF LimiterOK
  <1>5. \A x : x \notin F => x \notin forgotten
    OBVIOUS
  <1> HIDE DEF kept, F, a
  <1>6. a \in AdmitState /\ a.used \in Nat /\ a.list \in Seq(Http)
    BY ONLY <1>1 DEF AdmitInv, AdmitState
  <1>7. /\ IsDict(a.seen, Http, Nat) /\ IsDict(a.host, Hosts, Times) /\ c <= MaxPerSession
        /\ Account(C, a.seen, a.host, F, now)
        /\ ss \notin F => Cardinality(Charged(C, ss)) <= c
    BY ONLY <1>1 DEF AdmitInv
  <1>8. c \in Counts
    <2>1. Len(a.list) \in Nat
      BY ONLY <1>6, LenProperties
    <2> QED
      BY ONLY <1>6, <1>7, <2>1, Numbers DEF Counts
  <1> HIDE DEF c
  <1>9. /\ IsDict(d, Sessions, Counts)
        /\ \A x : Get(d, ss, x) = c
        /\ \A k, x : k # ss => Get(d, k, x) = Get(kept.session, k, x)
        /\ Len(d) <= Len(kept.session) + 1
    BY ONLY <1>2, <1>8, ss \in Sessions, PutIs
  <1> HIDE DEF d
  <1>10. Len(d) <= MaxTracked + 1
    <2>1. Len(d) \in Nat /\ Len(kept.session) \in Nat
      BY ONLY <1>2, <1>9, LenProperties DEF IsDict
    <2> QED
      BY ONLY <1>2, <1>9, <2>1, Numbers
  <1>11. l.seen = a.seen /\ l.host = a.host /\ l.session = d
    BY ONLY DEF l
  <1>12. \A r \in New(ss, a.list, now) : r.session = ss /\ r.at = now
    BY ONLY DEF New
  <1>13. SessionsOK(C, d, F)
    <2> SUFFICES ASSUME NEW s \in Sessions, s \notin F
                 PROVE  Cardinality(Charged(C, s)) <= Get(d, s, 0)
      BY DEF SessionsOK
    <2>1. CASE s = ss
      BY ONLY <1>7, <1>9, <2>1, s \notin F
    <2>2. CASE s # ss
      <3>1. Charged(C, s) = Charged(B, s)
        BY ONLY <1>12, <2>2 DEF Charged
      <3>2. Cardinality(Charged(B, s)) <= Get(kept.session, s, 0)
        BY ONLY <1>3, s \in Sessions, s \notin F DEF SessionsOK
      <3> QED
        BY ONLY <1>9, <2>2, <3>1, <3>2
    <2> QED
      BY ONLY <2>1, <2>2
  <1>14. C \in SUBSET Admission /\ \A r \in C : r.at <= now
    BY ONLY <1>7 DEF Account
  <1>15. WindowsOK(C, F)
    <2> SUFFICES ASSUME NEW r \in C, HostOf[r.url] \notin F
                 PROVE  Cardinality(Window(C, r)) <= MaxPerHost
      BY DEF WindowsOK
    <2>1. r.url \in Http /\ r.at \in Nat /\ r.at <= now /\ HostOf[r.url] \in Hosts
      BY ONLY <1>14, r \in C DEF Admission, Hosts
    <2>2. CASE r.at = now
      <3> DEFINE h == HostOf[r.url]
                 v == Get(a.host, h, << >>)
      <3>1. Covers(Live(C, h, now), v)
        BY ONLY <1>7, <2>1, HostOf[r.url] \notin F DEF Account, HostsOK
      <3>2. v \in Seq(Nat) /\ Len(v) <= MaxPerHost
        BY ONLY <1>7, TimesOf DEF Times
      <3>3. \A b \in C : b.at \in Nat
        BY ONLY <1>14 DEF Admission
      <3>4. Window(C, r) \in SUBSET Live(C, h, now)
        BY ONLY <2>2, <3>3, now \in Nat, Numbers DEF Window, Live
      <3> HIDE DEF v, h, C
      <3>5. Covers(Window(C, r), v)
        BY ONLY <3>1, <3>4, CoversLess
      <3>6. IsFiniteSet(Window(C, r)) /\ Cardinality(Window(C, r)) <= Len(v)
        BY ONLY <3>2, <3>5, CoversCount
      <3>7. Cardinality(Window(C, r)) \in Nat /\ Len(v) \in Nat
        BY ONLY <3>2, <3>6, FS_CardinalityType, LenProperties
      <3> QED
        BY ONLY <3>2, <3>6, <3>7, Numbers
    <2>3. CASE r.at # now
      <3>1. r \in B
        BY ONLY <1>12, <2>3, r \in C
      <3>2. ~(now <= r.at)
        BY ONLY <2>1, <2>3, now \in Nat
      <3>3. Window(C, r) = Window(B, r)
        BY ONLY <1>12, <3>2 DEF Window
      <3>4. Cardinality(Window(B, r)) <= MaxPerHost
        BY ONLY <1>4, <1>5, <3>1, HostOf[r.url] \notin F DEF WindowsOK
      <3> QED
        BY ONLY <3>3, <3>4
    <2> QED
      BY ONLY <2>2, <2>3
  <1> HIDE DEF l, C
  <1>16. LimiterOK(l, C, F, now)
    BY ONLY <1>7, <1>9, <1>11, <1>13, <1>15 DEF LimiterOK, LimiterType
  <1> QED
    BY ONLY <1>1, <1>6, <1>10, <1>11, <1>16 DEF l, d, c, C, a, kept, F

\* Time passes: less is recent.
LEMMA LaterKeeps ==
    ASSUME NEW l, NEW B, NEW F, NEW n \in Nat, LimiterOK(l, B, F, n)
    PROVE  LimiterOK(l, B, F, n + 1)
  <1>1. /\ LimiterType(l) /\ SessionsOK(B, l.session, F) /\ WindowsOK(B, F)
        /\ B \in SUBSET Admission /\ IsFiniteSet(B) /\ \A a \in B : a.at <= n
        /\ SeenOK(B, l.seen, F, n) /\ HostsOK(B, l.host, F, n) /\ Apart(B, F)
    BY DEF LimiterOK, Account
  <1>2. \A a \in B : /\ a.at \in Nat /\ a.at <= n + 1
                     /\ (n + 1) - a.at < Dedupe => n - a.at < Dedupe
    <2>1. \A a \in B : a.at \in Nat
      BY ONLY <1>1 DEF Admission
    <2>2. \A i \in Nat : i <= n => /\ i <= n + 1
                                   /\ (n + 1) - i < Dedupe => n - i < Dedupe
      BY ONLY n \in Nat, Numbers
    <2> QED
      BY ONLY <1>1, <2>1, <2>2
  <1>3. SeenOK(B, l.seen, F, n + 1)
    BY ONLY <1>1, <1>2 DEF SeenOK
  <1>4. HostsOK(B, l.host, F, n + 1)
    <2>1. \A h : Live(B, h, n + 1) \in SUBSET Live(B, h, n)
      BY ONLY <1>2 DEF Live
    <2> QED
      BY ONLY <1>1, <2>1, CoversLess DEF HostsOK
  <1> QED
    BY ONLY <1>1, <1>2, <1>3, <1>4 DEF LimiterOK, Account

-----------------------------------------------------------------------------
(* The scan of a script yields no more URLs than it may.                    *)

Text == STRING \cup {Unresolved}
Env == UNION {[D -> Text] : D \in SUBSET STRING}
Listed == {u \in Seq(Http) : Len(u) <= MaxUrls}
ScanState == [urls : Listed, skipped : Nat, env : Env, raised : BOOLEAN, next : Nat]

LEMMA EnvIs ==
    ASSUME NEW env \in Env
    PROVE  DOMAIN env \in SUBSET STRING /\ \A x \in DOMAIN env : env[x] \in Text
  BY DEF Env

LEMMA BindIn ==
    ASSUME NEW env \in Env, NEW name \in STRING, NEW value \in Text
    PROVE  Bind(env, name, value) \in Env
  <1>1. DOMAIN env \in SUBSET STRING /\ \A x \in DOMAIN env : env[x] \in Text
    BY EnvIs
  <1> DEFINE D == DOMAIN env \cup {name}
             f == [x \in D |-> IF x = name THEN value ELSE env[x]]
  <1>2. f \in [D -> Text] /\ D \in SUBSET STRING
    BY ONLY <1>1, name \in STRING, value \in Text
  <1>3. Bind(env, name, value) = f
    BY ONLY DEF Bind
  <1> HIDE DEF D, f
  <1>4. f \in Env
    BY ONLY <1>2 DEF Env
  <1> QED
    BY ONLY <1>3, <1>4

LEMMA ExpandIn ==
    ASSUME NEW env \in Env, NEW w \in Word
    PROVE  Expand(w, env) \in Text
  <1>1. w.text \in Text /\ Unresolved \in Text
    BY DEF Word, Text
  <1>2. \A x \in DOMAIN env : env[x] \in Text
    BY EnvIs
  <1> QED
    BY ONLY <1>1, <1>2 DEF Expand

LEMMA AssignIn ==
    ASSUME NEW env \in Env, NEW name \in STRING, NEW value \in Text
    PROVE  Assign(env, name, value) \in Env
  BY BindIn DEF Assign

\* Only http and https URLs are listed.
LEMMA RequestUrl ==
    ASSUME NEW cmd, NEW args, ParseDownloadArgs(cmd, args).protocol = "http"
    PROVE  ParseDownloadArgs(cmd, args).url \in Http
  BY DEF ParseDownloadArgs, NoRequest

LEMMA RequestIn ==
    ASSUME NEW s \in ScanState, NEW cmd, NEW args
    PROVE  Request(s, cmd, args) \in ScanState
  <1> DEFINE req == ParseDownloadArgs(cmd, args)
  <1>1. s.urls \in Listed /\ s.urls \in Seq(Http) /\ s.skipped \in Nat
    BY DEF ScanState, Listed
  <1>2. req.protocol = "http" => req.url \in Http
    BY RequestUrl
  <1> HIDE DEF req
  <1>3. [s EXCEPT !.skipped = s.skipped + 1] \in ScanState
    BY ONLY <1>1, s \in ScanState DEF ScanState
  <1>4. ASSUME req.url \in Http, ~IsFull(s)
        PROVE  [s EXCEPT !.urls = Append(s.urls, req.url)] \in ScanState
    <2> DEFINE t == Append(s.urls, req.url)
    <2>1. t \in Seq(Http) /\ Len(t) = Len(s.urls) + 1 /\ Len(s.urls) \in Nat
      BY ONLY <1>1, <1>4, AppendProperties, LenProperties
    <2> HIDE DEF t
    <2>2. Len(t) <= MaxUrls
      BY ONLY <1>4, <2>1, Numbers DEF IsFull
    <2>3. t \in Listed
      BY ONLY <2>1, <2>2 DEF Listed
    <2>4. [s EXCEPT !.urls = t] \in ScanState
      BY ONLY <2>3, s \in ScanState DEF ScanState
    <2> QED
      BY ONLY <2>4 DEF t
  <1>5. [s EXCEPT !.raised = TRUE] \in ScanState
    BY ONLY s \in ScanState DEF ScanState
  <1> QED
    BY ONLY <1>2, <1>3, <1>4, <1>5, s \in ScanState DEF Request, req

\* The folds over a segment's assignments and over the texts of a loop's list.
LEMMA AssignFold ==
    ASSUME NEW n \in Nat, NEW q, DOMAIN q = 1 .. n, NEW X, NEW b \in X,
           \A x \in X : \A m \in 1 .. n : AssignNext(x, q[m]) \in X
    PROVE  AssignAll(b, q) \in X
  <1> DEFINE Op(x, m) == AssignNext(x, q[m])
             G == [p \in X \X (1 .. n) |-> Op(p[1], p[2])]
             Body(h, s) == IF s = {} THEN b ELSE Op(h[s \ {Max(s)}], Max(s))
             iter == CHOOSE f : f = [s \in SUBSET (1 .. n) |-> Body(f, s)]
  <1>1. b \in X /\ \A x \in X : \A m \in 1 .. n : Op(x, m) \in X
    OBVIOUS
  <1>3. AssignAll(b, q) = iter[1 .. n]
    BY DEF AssignAll, FoldLeft, MapThenFoldSet
  <1> HIDE DEF Op
  <1>4. G \in [X \X (1 .. n) -> X]
    BY <1>1
  <1>5. \A x \in X : \A m \in 1 .. n : G[<<x, m>>] = Op(x, m)
    OBVIOUS
  <1> HIDE DEF G
  <1>6. PICK h \in [SUBSET (1 .. n) -> X] : Recurs(h, n, b, G)
    <2>1. Recursive(n, X, b, G)
      BY ONLY <1>1, <1>4, n \in Nat, FoldExists
    <2> QED
      BY ONLY <2>1 DEF Recursive
  <1>7. ASSUME NEW s \in SUBSET (1 .. n) PROVE h[s] = Body(h, s)
    <2>1. CASE s = {}
      BY ONLY <1>6, <2>1, s \in SUBSET (1 .. n) DEF Recurs
    <2>2. CASE s # {}
      <3>1. Max(s) \in 1 .. n /\ s \ {Max(s)} \in SUBSET (1 .. n)
        BY ONLY <2>2, n \in Nat, s \in SUBSET (1 .. n), MaxIn
      <3>2. h[s] = G[<<h[s \ {Max(s)}], Max(s)>>]
        BY ONLY <1>6, <2>2, s \in SUBSET (1 .. n) DEF Recurs
      <3> QED
        BY ONLY <1>5, <1>6, <2>2, <3>1, <3>2
    <2> QED
      BY ONLY <2>1, <2>2
  <1>8. h = [s \in SUBSET (1 .. n) |-> Body(h, s)]
    BY ONLY <1>6, <1>7
  <1>9. iter = [s \in SUBSET (1 .. n) |-> Body(iter, s)]
    BY ONLY <1>8
  <1>10. \A s \in SUBSET (1 .. n) : iter[s] = Body(iter, s)
    BY ONLY <1>9
  <1> HIDE DEF iter
  <1>11. iter[{}] \in X
    BY ONLY <1>1, <1>10
  <1>12. ASSUME NEW m \in 1 .. n, iter[1 .. (m - 1)] \in X PROVE iter[1 .. m] \in X
    <2>1. /\ m \in Nat /\ 1 .. m \in SUBSET (1 .. n) /\ 1 .. m # {} /\ m \in 1 .. m
          /\ (1 .. m) \ {m} = 1 .. (m - 1)
      BY ONLY n \in Nat, m \in 1 .. n, UpTo
    <2>2. Max(1 .. m) = m
      BY ONLY <2>1, MaxIs
    <2>3. iter[1 .. m] = Op(iter[1 .. (m - 1)], m)
      BY ONLY <1>10, <2>1, <2>2
    <2> QED
      BY ONLY <1>1, <1>12, <2>3
  <1>13. \A m \in 0 .. n : iter[1 .. m] \in X
    <2>1. \A m \in 1 .. n : iter[1 .. (m - 1)] \in X => iter[1 .. m] \in X
      BY ONLY <1>12
    <2> QED
      BY ONLY <1>11, <2>1, n \in Nat, StaysIn
  <1>14. n \in 0 .. n
    OBVIOUS
  <1> QED
    BY ONLY <1>3, <1>13, <1>14

LEMMA SplitFold ==
    ASSUME NEW n \in Nat, NEW q, DOMAIN q = 1 .. n, NEW X, NEW b \in X, b = << >>,
           \A x \in X : \A m \in 1 .. n : SplitNext(x, q[m]) \in X
    PROVE  SplitAll(q) \in X
  <1> DEFINE Op(x, m) == SplitNext(x, q[m])
             G == [p \in X \X (1 .. n) |-> Op(p[1], p[2])]
             Body(h, s) == IF s = {} THEN b ELSE Op(h[s \ {Max(s)}], Max(s))
             iter == CHOOSE f : f = [s \in SUBSET (1 .. n) |-> Body(f, s)]
  <1>1. b \in X /\ \A x \in X : \A m \in 1 .. n : Op(x, m) \in X
    OBVIOUS
  <1>3. SplitAll(q) = iter[1 .. n]
    BY DEF SplitAll, FoldLeft, MapThenFoldSet
  <1> HIDE DEF Op
  <1>4. G \in [X \X (1 .. n) -> X]
    BY <1>1
  <1>5. \A x \in X : \A m \in 1 .. n : G[<<x, m>>] = Op(x, m)
    OBVIOUS
  <1> HIDE DEF G
  <1>6. PICK h \in [SUBSET (1 .. n) -> X] : Recurs(h, n, b, G)
    <2>1. Recursive(n, X, b, G)
      BY ONLY <1>1, <1>4, n \in Nat, FoldExists
    <2> QED
      BY ONLY <2>1 DEF Recursive
  <1>7. ASSUME NEW s \in SUBSET (1 .. n) PROVE h[s] = Body(h, s)
    <2>1. CASE s = {}
      BY ONLY <1>6, <2>1, s \in SUBSET (1 .. n) DEF Recurs
    <2>2. CASE s # {}
      <3>1. Max(s) \in 1 .. n /\ s \ {Max(s)} \in SUBSET (1 .. n)
        BY ONLY <2>2, n \in Nat, s \in SUBSET (1 .. n), MaxIn
      <3>2. h[s] = G[<<h[s \ {Max(s)}], Max(s)>>]
        BY ONLY <1>6, <2>2, s \in SUBSET (1 .. n) DEF Recurs
      <3> QED
        BY ONLY <1>5, <1>6, <2>2, <3>1, <3>2
    <2> QED
      BY ONLY <2>1, <2>2
  <1>8. h = [s \in SUBSET (1 .. n) |-> Body(h, s)]
    BY ONLY <1>6, <1>7
  <1>9. iter = [s \in SUBSET (1 .. n) |-> Body(iter, s)]
    BY ONLY <1>8
  <1>10. \A s \in SUBSET (1 .. n) : iter[s] = Body(iter, s)
    BY ONLY <1>9
  <1> HIDE DEF iter
  <1>11. iter[{}] \in X
    BY ONLY <1>1, <1>10
  <1>12. ASSUME NEW m \in 1 .. n, iter[1 .. (m - 1)] \in X PROVE iter[1 .. m] \in X
    <2>1. /\ m \in Nat /\ 1 .. m \in SUBSET (1 .. n) /\ 1 .. m # {} /\ m \in 1 .. m
          /\ (1 .. m) \ {m} = 1 .. (m - 1)
      BY ONLY n \in Nat, m \in 1 .. n, UpTo
    <2>2. Max(1 .. m) = m
      BY ONLY <2>1, MaxIs
    <2>3. iter[1 .. m] = Op(iter[1 .. (m - 1)], m)
      BY ONLY <1>10, <2>1, <2>2
    <2> QED
      BY ONLY <1>1, <1>12, <2>3
  <1>13. \A m \in 0 .. n : iter[1 .. m] \in X
    <2>1. \A m \in 1 .. n : iter[1 .. (m - 1)] \in X => iter[1 .. m] \in X
      BY ONLY <1>12
    <2> QED
      BY ONLY <1>11, <2>1, n \in Nat, StaysIn
  <1>14. n \in 0 .. n
    OBVIOUS
  <1> QED
    BY ONLY <1>3, <1>13, <1>14

LEMMA AssignAllIn ==
    ASSUME NEW env \in Env, NEW sets \in Seq(Assignment)
    PROVE  AssignAll(env, sets) \in Env
  <1>1. PICK n \in Nat : DOMAIN sets = 1 .. n /\ \A m \in 1 .. n : sets[m] \in Assignment
    BY LenProperties
  <1>2. ASSUME NEW e \in Env, NEW m \in 1 .. n PROVE AssignNext(e, sets[m]) \in Env
    <2>1. sets[m].name \in STRING /\ sets[m].word \in Word
      BY ONLY <1>1, m \in 1 .. n DEF Assignment
    <2>2. Expand(sets[m].word, e) \in Text
      BY ONLY <2>1, e \in Env, ExpandIn
    <2> QED
      BY ONLY <2>1, <2>2, e \in Env, AssignIn DEF AssignNext
  <1> QED
    BY ONLY <1>1, <1>2, env \in Env, AssignFold

LEMMA SplitAllIn ==
    ASSUME NEW n \in Nat, NEW texts \in [1 .. n -> Text]
    PROVE  SplitAll(texts) \in Seq(Text)
  <1>1. DOMAIN texts = 1 .. n /\ \A m \in 1 .. n : texts[m] \in Text
    OBVIOUS
  <1>2. ASSUME NEW x \in Text PROVE Split(x) \in Seq(Text)
    <2>1. << >> \in Seq(Text) /\ <<x>> \in Seq(Text)
      BY ONLY x \in Text, EmptySeq
    <2>2. CASE x \in DOMAIN WordsOf
      <3> DEFINE w == WordsOf[x]
      <3>1. w \in Seq(STRING)
        BY ONLY <2>2, WordsAssumption
      <3> HIDE DEF w
      <3>2. w \in Seq(Text)
        BY ONLY <3>1 DEF Text
      <3> QED
        BY ONLY <2>2, <3>2 DEF Split, w
    <2> QED
      BY ONLY <2>1, <2>2 DEF Split
  <1>3. ASSUME NEW r \in Seq(Text), NEW m \in 1 .. n PROVE SplitNext(r, texts[m]) \in Seq(Text)
    <2> DEFINE w == Split(texts[m])
    <2>1. w \in Seq(Text)
      BY ONLY <1>1, <1>2, m \in 1 .. n
    <2> HIDE DEF w
    <2>2. r \o w \in Seq(Text)
      BY ONLY <2>1, r \in Seq(Text), ConcatProperties
    <2> QED
      BY ONLY <2>2 DEF SplitNext, w
  <1>4. << >> \in Seq(Text)
    BY ONLY EmptySeq
  <1> QED
    BY ONLY <1>1, <1>3, <1>4, n \in Nat, SplitFold

\* _segment (script_scan.py).
LEMMA SegmentIn ==
    ASSUME NEW s \in ScanState, NEW seg \in Segment
    PROVE  ScanSegment(s, seg) \in ScanState
  <1> DEFINE env == AssignAll(s.env, seg.sets)
             t == [s EXCEPT !.env = env]
  <1>1. s.env \in Env /\ seg.sets \in Seq(Assignment)
    BY DEF ScanState, Segment
  <1>2. env \in Env
    BY ONLY <1>1, AssignAllIn
  <1> HIDE DEF env
  <1>3. t \in ScanState
    BY ONLY <1>2, s \in ScanState DEF ScanState
  <1> HIDE DEF t
  <1>4. Request(t, seg.name, ExpandAll(seg.words, env)) \in ScanState
    BY ONLY <1>3, RequestIn
  <1> QED
    BY ONLY <1>3, <1>4, s \in ScanState DEF ScanSegment, t, env

\* The folds over a body, over a loop's values and over a script.
LEMMA BodyFold ==
    ASSUME NEW n \in Nat, NEW q, DOMAIN q = 1 .. n, NEW X, NEW b \in X,
           \A x \in X : \A m \in 1 .. n : ScanSegment(x, q[m]) \in X
    PROVE  FoldLeft(ScanSegment, b, q) \in X
  <1> DEFINE Op(x, m) == ScanSegment(x, q[m])
             G == [p \in X \X (1 .. n) |-> Op(p[1], p[2])]
             Body(h, s) == IF s = {} THEN b ELSE Op(h[s \ {Max(s)}], Max(s))
             iter == CHOOSE f : f = [s \in SUBSET (1 .. n) |-> Body(f, s)]
  <1>1. b \in X /\ \A x \in X : \A m \in 1 .. n : Op(x, m) \in X
    OBVIOUS
  <1>3. FoldLeft(ScanSegment, b, q) = iter[1 .. n]
    BY DEF FoldLeft, MapThenFoldSet
  <1> HIDE DEF Op
  <1>4. G \in [X \X (1 .. n) -> X]
    BY <1>1
  <1>5. \A x \in X : \A m \in 1 .. n : G[<<x, m>>] = Op(x, m)
    OBVIOUS
  <1> HIDE DEF G
  <1>6. PICK h \in [SUBSET (1 .. n) -> X] : Recurs(h, n, b, G)
    <2>1. Recursive(n, X, b, G)
      BY ONLY <1>1, <1>4, n \in Nat, FoldExists
    <2> QED
      BY ONLY <2>1 DEF Recursive
  <1>7. ASSUME NEW s \in SUBSET (1 .. n) PROVE h[s] = Body(h, s)
    <2>1. CASE s = {}
      BY ONLY <1>6, <2>1, s \in SUBSET (1 .. n) DEF Recurs
    <2>2. CASE s # {}
      <3>1. Max(s) \in 1 .. n /\ s \ {Max(s)} \in SUBSET (1 .. n)
        BY ONLY <2>2, n \in Nat, s \in SUBSET (1 .. n), MaxIn
      <3>2. h[s] = G[<<h[s \ {Max(s)}], Max(s)>>]
        BY ONLY <1>6, <2>2, s \in SUBSET (1 .. n) DEF Recurs
      <3> QED
        BY ONLY <1>5, <1>6, <2>2, <3>1, <3>2
    <2> QED
      BY ONLY <2>1, <2>2
  <1>8. h = [s \in SUBSET (1 .. n) |-> Body(h, s)]
    BY ONLY <1>6, <1>7
  <1>9. iter = [s \in SUBSET (1 .. n) |-> Body(iter, s)]
    BY ONLY <1>8
  <1>10. \A s \in SUBSET (1 .. n) : iter[s] = Body(iter, s)
    BY ONLY <1>9
  <1> HIDE DEF iter
  <1>11. iter[{}] \in X
    BY ONLY <1>1, <1>10
  <1>12. ASSUME NEW m \in 1 .. n, iter[1 .. (m - 1)] \in X PROVE iter[1 .. m] \in X
    <2>1. /\ m \in Nat /\ 1 .. m \in SUBSET (1 .. n) /\ 1 .. m # {} /\ m \in 1 .. m
          /\ (1 .. m) \ {m} = 1 .. (m - 1)
      BY ONLY n \in Nat, m \in 1 .. n, UpTo
    <2>2. Max(1 .. m) = m
      BY ONLY <2>1, MaxIs
    <2>3. iter[1 .. m] = Op(iter[1 .. (m - 1)], m)
      BY ONLY <1>10, <2>1, <2>2
    <2> QED
      BY ONLY <1>1, <1>12, <2>3
  <1>13. \A m \in 0 .. n : iter[1 .. m] \in X
    <2>1. \A m \in 1 .. n : iter[1 .. (m - 1)] \in X => iter[1 .. m] \in X
      BY ONLY <1>12
    <2> QED
      BY ONLY <1>11, <2>1, n \in Nat, StaysIn
  <1>14. n \in 0 .. n
    OBVIOUS
  <1> QED
    BY ONLY <1>3, <1>13, <1>14

OneValue(r, name, v, before, body) ==
    IF IsFull(r) THEN r
    ELSE FoldLeft(ScanSegment, [r EXCEPT !.env = Bind(before, name, v)], body)

LEMMA ValuesFold ==
    ASSUME NEW n \in Nat, NEW q, DOMAIN q = 1 .. n, NEW name, NEW body, NEW X, NEW b \in X,
           \A x \in X : \A m \in 1 .. n : OneValue(x, name, q[m], b.env, body) \in X
    PROVE  ForValues(b, name, body, q) \in X
  <1> DEFINE Op(x, m) == OneValue(x, name, q[m], b.env, body)
             G == [p \in X \X (1 .. n) |-> Op(p[1], p[2])]
             Body(h, s) == IF s = {} THEN b ELSE Op(h[s \ {Max(s)}], Max(s))
             iter == CHOOSE f : f = [s \in SUBSET (1 .. n) |-> Body(f, s)]
  <1>1. b \in X /\ \A x \in X : \A m \in 1 .. n : Op(x, m) \in X
    OBVIOUS
  <1>2. \A x, m : Op(x, m) = OneValue(x, name, q[m], b.env, body)
    OBVIOUS
  <1>3. ForValues(b, name, body, q) = iter[1 .. n]
    BY DEF ForValues, OneValue, FoldLeft, MapThenFoldSet
  <1> HIDE DEF Op
  <1>4. G \in [X \X (1 .. n) -> X]
    BY <1>1
  <1>5. \A x \in X : \A m \in 1 .. n : G[<<x, m>>] = Op(x, m)
    OBVIOUS
  <1> HIDE DEF G
  <1>6. PICK h \in [SUBSET (1 .. n) -> X] : Recurs(h, n, b, G)
    <2>1. Recursive(n, X, b, G)
      BY ONLY <1>1, <1>4, n \in Nat, FoldExists
    <2> QED
      BY ONLY <2>1 DEF Recursive
  <1>7. ASSUME NEW s \in SUBSET (1 .. n) PROVE h[s] = Body(h, s)
    <2>1. CASE s = {}
      BY ONLY <1>6, <2>1, s \in SUBSET (1 .. n) DEF Recurs
    <2>2. CASE s # {}
      <3>1. Max(s) \in 1 .. n /\ s \ {Max(s)} \in SUBSET (1 .. n)
        BY ONLY <2>2, n \in Nat, s \in SUBSET (1 .. n), MaxIn
      <3>2. h[s] = G[<<h[s \ {Max(s)}], Max(s)>>]
        BY ONLY <1>6, <2>2, s \in SUBSET (1 .. n) DEF Recurs
      <3> QED
        BY ONLY <1>5, <1>6, <2>2, <3>1, <3>2
    <2> QED
      BY ONLY <2>1, <2>2
  <1>8. h = [s \in SUBSET (1 .. n) |-> Body(h, s)]
    BY ONLY <1>6, <1>7
  <1>9. iter = [s \in SUBSET (1 .. n) |-> Body(iter, s)]
    BY ONLY <1>8
  <1>10. \A s \in SUBSET (1 .. n) : iter[s] = Body(iter, s)
    BY ONLY <1>9
  <1> HIDE DEF iter
  <1>11. iter[{}] \in X
    BY ONLY <1>1, <1>10
  <1>12. ASSUME NEW m \in 1 .. n, iter[1 .. (m - 1)] \in X PROVE iter[1 .. m] \in X
    <2>1. /\ m \in Nat /\ 1 .. m \in SUBSET (1 .. n) /\ 1 .. m # {} /\ m \in 1 .. m
          /\ (1 .. m) \ {m} = 1 .. (m - 1)
      BY ONLY n \in Nat, m \in 1 .. n, UpTo
    <2>2. Max(1 .. m) = m
      BY ONLY <2>1, MaxIs
    <2>3. iter[1 .. m] = Op(iter[1 .. (m - 1)], m)
      BY ONLY <1>10, <2>1, <2>2
    <2> QED
      BY ONLY <1>1, <1>12, <2>3
  <1>13. \A m \in 0 .. n : iter[1 .. m] \in X
    <2>1. \A m \in 1 .. n : iter[1 .. (m - 1)] \in X => iter[1 .. m] \in X
      BY ONLY <1>12
    <2> QED
      BY ONLY <1>11, <2>1, n \in Nat, StaysIn
  <1>14. n \in 0 .. n
    OBVIOUS
  <1> QED
    BY ONLY <1>3, <1>13, <1>14

ScanAt(s, segs, i) ==
    IF i < s.next \/ IsFull(s) THEN s
    ELSE IF FirstWord(segs[i]) = "for" THEN ForLoop(s, segs, i)
    ELSE [ScanSegment(s, segs[i]) EXCEPT !.next = i + 1]

ScanStart == [urls |-> << >>, skipped |-> 0, env |-> << >>, raised |-> FALSE, next |-> 1]

LEMMA ScriptFold ==
    ASSUME NEW n \in Nat, NEW segs, DOMAIN segs = 1 .. n, NEW X, NEW b \in X, b = ScanStart,
           \A x \in X : \A m \in 1 .. n : ScanAt(x, segs, m) \in X
    PROVE  Scan(segs) \in X
  <1> DEFINE Op(x, m) == ScanAt(x, segs, m)
             w == [i \in DOMAIN segs |-> i]
             G == [p \in X \X (1 .. n) |-> Op(p[1], p[2])]
             Body(h, s) == IF s = {} THEN b ELSE Op(h[s \ {Max(s)}], w[Max(s)])
             iter == CHOOSE f : f = [s \in SUBSET (DOMAIN w) |-> Body(f, s)]
  <1>1. b \in X /\ \A x \in X : \A m \in 1 .. n : Op(x, m) \in X
    OBVIOUS
  <1>2. DOMAIN w = 1 .. n /\ \A m \in 1 .. n : w[m] = m
    OBVIOUS
  <1>3. Scan(segs) = iter[DOMAIN w]
    BY DEF Scan, ScanAt, ScanStart, FoldLeftDomain, FoldLeft, MapThenFoldSet
  <1> HIDE DEF Op, w
  <1>4. G \in [X \X (1 .. n) -> X]
    BY <1>1
  <1>5. \A x \in X : \A m \in 1 .. n : G[<<x, m>>] = Op(x, m)
    OBVIOUS
  <1> HIDE DEF G
  <1>6. PICK h \in [SUBSET (1 .. n) -> X] : Recurs(h, n, b, G)
    <2>1. Recursive(n, X, b, G)
      BY ONLY <1>1, <1>4, n \in Nat, FoldExists
    <2> QED
      BY ONLY <2>1 DEF Recursive
  <1>7. ASSUME NEW s \in SUBSET (1 .. n) PROVE h[s] = Body(h, s)
    <2>1. CASE s = {}
      BY ONLY <1>6, <2>1, s \in SUBSET (1 .. n) DEF Recurs
    <2>2. CASE s # {}
      <3>1. Max(s) \in 1 .. n /\ s \ {Max(s)} \in SUBSET (1 .. n)
        BY ONLY <2>2, n \in Nat, s \in SUBSET (1 .. n), MaxIn
      <3>2. h[s] = G[<<h[s \ {Max(s)}], Max(s)>>]
        BY ONLY <1>6, <2>2, s \in SUBSET (1 .. n) DEF Recurs
      <3> QED
        BY ONLY <1>2, <1>5, <1>6, <2>2, <3>1, <3>2
    <2> QED
      BY ONLY <2>1, <2>2
  <1>8. h = [s \in SUBSET (DOMAIN w) |-> Body(h, s)]
    BY ONLY <1>2, <1>6, <1>7
  <1>9. iter = [s \in SUBSET (DOMAIN w) |-> Body(iter, s)]
    BY ONLY <1>8
  <1>10. \A s \in SUBSET (1 .. n) : iter[s] = Body(iter, s)
    BY ONLY <1>2, <1>9
  <1> HIDE DEF iter
  <1>11. iter[{}] \in X
    BY ONLY <1>1, <1>10
  <1>12. ASSUME NEW m \in 1 .. n, iter[1 .. (m - 1)] \in X PROVE iter[1 .. m] \in X
    <2>1. /\ m \in Nat /\ 1 .. m \in SUBSET (1 .. n) /\ 1 .. m # {} /\ m \in 1 .. m
          /\ (1 .. m) \ {m} = 1 .. (m - 1)
      BY ONLY n \in Nat, m \in 1 .. n, UpTo
    <2>2. Max(1 .. m) = m
      BY ONLY <2>1, MaxIs
    <2>3. iter[1 .. m] = Op(iter[1 .. (m - 1)], m)
      <3>1. iter[1 .. m] = Op(iter[(1 .. m) \ {Max(1 .. m)}], w[Max(1 .. m)])
        BY ONLY <1>10, <2>1
      <3>2. w[m] = m
        BY ONLY <1>2, m \in 1 .. n
      <3> QED
        BY ONLY <2>1, <2>2, <3>1, <3>2
    <2> QED
      BY ONLY <1>1, <1>12, <2>3
  <1>13. \A m \in 0 .. n : iter[1 .. m] \in X
    <2>1. \A m \in 1 .. n : iter[1 .. (m - 1)] \in X => iter[1 .. m] \in X
      BY ONLY <1>12
    <2> QED
      BY ONLY <1>11, <2>1, n \in Nat, StaysIn
  <1>14. n \in 0 .. n
    OBVIOUS
  <1> QED
    BY ONLY <1>2, <1>3, <1>13, <1>14

\* Where a loop's body ends (script_scan.py, _for_loop).
LEMMA LoopEndIn ==
    ASSUME NEW n \in Nat, NEW segs, Len(segs) = n, NEW start \in 1 .. n, start # n
    PROVE  LoopEnd(segs, start) \in start + 2 .. n + 1
  <1> DEFINE Count(j, words) == Cardinality({k \in start + 2 .. j - 1 : FirstWord(segs[k]) \in words})
             Stops(j) == \/ j > Len(segs)
                         \/ FirstWord(segs[j]) = "done" /\ Count(j, {"done"}) = Count(j, {"for", "while"})
                         \/ j - start - 1 >= MaxLoopBody + (IF IsBare(segs[start + 1]) THEN 1 ELSE 0)
             T == {j \in start + 2 .. n + 1 : Stops(j)}
  <1>1. LoopEnd(segs, start) =
           CHOOSE j \in start + 2 .. n + 1 : Stops(j) /\ \A k \in start + 2 .. j - 1 : ~Stops(k)
    BY DEF LoopEnd
  <1>2. n + 1 \in start + 2 .. n + 1 /\ Stops(n + 1)
    OBVIOUS
  <1> HIDE DEF Stops
  <1>3. n + 1 \in T /\ T \in SUBSET Nat
    BY ONLY <1>2, n \in Nat, start \in 1 .. n
  <1>4. PICK j \in T : \A k \in T : j <= k
    BY ONLY <1>3, LeastNatural
  <1>5. j \in start + 2 .. n + 1 /\ Stops(j)
    BY ONLY <1>4
  <1>6. ASSUME NEW k \in start + 2 .. j - 1 PROVE ~Stops(k)
    <2>1. k \in start + 2 .. n + 1 /\ ~(j <= k)
      BY ONLY <1>5, n \in Nat, start \in 1 .. n, k \in start + 2 .. j - 1
    <2>2. k \notin T
      BY ONLY <1>4, <2>1
    <2> QED
      BY ONLY <2>1, <2>2
  <1>7. \E i \in start + 2 .. n + 1 : Stops(i) /\ \A k \in start + 2 .. i - 1 : ~Stops(k)
    BY ONLY <1>5, <1>6
  <1> QED
    BY ONLY <1>1, <1>7

LEMMA LoopBodyIn ==
    ASSUME NEW n \in Nat, NEW segs \in Seq(Segment), Len(segs) = n, NEW start \in 1 .. n, start # n
    PROVE  LoopBody(segs, start) \in Seq(Segment)
  <1>1. PICK e \in start + 2 .. n + 1 : LoopEnd(segs, start) = e
    BY LoopEndIn
  <1>2. start + 1 \in Int /\ e - 1 \in Int /\ \A i \in start + 1 .. e - 1 : i \in 1 .. n
    BY ONLY <1>1, n \in Nat, start \in 1 .. n
  <1>3. \A i \in start + 1 .. e - 1 : segs[i] \in Segment
    BY ONLY <1>2, segs \in Seq(Segment), Len(segs) = n, ElementOfSeq
  <1>4. SubSeq(segs, start + 1, e - 1) \in Seq(Segment)
    BY ONLY <1>2, <1>3, SubSeqProperties
  <1> QED
    BY ONLY <1>1, <1>4 DEF LoopBody

LEMMA LoopValuesIn ==
    ASSUME NEW s \in ScanState, NEW seg \in Segment
    PROVE  LoopValues(s, seg) \in Seq(Text)
  <1> DEFINE values == ExpandAll(seg.words, s.env)
  <1>1. s.env \in Env /\ seg.words \in Seq(Word)
    BY DEF ScanState, Segment
  <1>2. PICK l \in Nat : /\ Len(seg.words) = l /\ DOMAIN seg.words = 1 .. l
                         /\ \A i \in 1 .. l : seg.words[i] \in Word
    BY ONLY <1>1, LenProperties
  <1>3. values = [i \in 1 .. l |-> Expand(seg.words[i], s.env)]
    BY ONLY <1>2 DEF ExpandAll
  <1>4. \A i \in 1 .. l : Expand(seg.words[i], s.env) \in Text
    BY ONLY <1>1, <1>2, ExpandIn
  <1> HIDE DEF values
  <1>5. values \in [1 .. l -> Text]
    BY ONLY <1>3, <1>4
  <1> DEFINE words == SplitAll(values)
  <1>6. words \in Seq(Text)
    BY ONLY <1>2, <1>5, SplitAllIn
  <1> HIDE DEF words
  <1>7. PICK c \in Nat : Len(words) = c /\ \A i \in 1 .. c : words[i] \in Text
    BY ONLY <1>6, LenProperties
  <1> DEFINE k == IF Len(words) < MaxLoopValues THEN Len(words) ELSE MaxLoopValues
  <1>8. 1 \in Int /\ k \in Int /\ \A i \in 1 .. k : i \in 1 .. c
    BY ONLY <1>7, ScanBoundAssumption
  <1> HIDE DEF k
  <1>9. SubSeq(words, 1, k) \in Seq(Text)
    <2>1. \A i \in 1 .. k : words[i] \in Text
      BY ONLY <1>7, <1>8
    <2> QED
      BY ONLY <1>8, <2>1, SubSeqProperties
  <1>10. << >> \in Seq(Text)
    BY ONLY EmptySeq
  <1> QED
    BY ONLY <1>9, <1>10 DEF LoopValues, k, words, values

LEMMA ForLoopIn ==
    ASSUME NEW n \in Nat, NEW segs \in Seq(Segment), Len(segs) = n, NEW start \in 1 .. n,
           NEW s \in ScanState
    PROVE  ForLoop(s, segs, start) \in ScanState
  <1>1. segs[start] \in Segment
    BY ElementOfSeq
  <1>2. CASE segs[start].words = << >> \/ start = Len(segs) \/ segs[start + 1].lead # "do"
    <2>1. ForLoop(s, segs, start) = [s EXCEPT !.next = start + 1]
      BY ONLY <1>2 DEF ForLoop
    <2>2. start + 1 \in Nat
      BY ONLY n \in Nat, start \in 1 .. n
    <2> QED
      BY ONLY <2>1, <2>2, s \in ScanState DEF ScanState
  <1>3. CASE ~(segs[start].words = << >> \/ start = Len(segs) \/ segs[start + 1].lead # "do")
    <2> DEFINE name == segs[start].name
               body == LoopBody(segs, start)
               values == LoopValues(s, segs[start])
               e == LoopEnd(segs, start)
               r == ForValues(s, name, body, values)
    <2>1. start # n
      BY ONLY <1>3, Len(segs) = n
    <2>2. body \in Seq(Segment)
      BY ONLY <2>1, n \in Nat, segs \in Seq(Segment), Len(segs) = n, start \in 1 .. n, LoopBodyIn
    <2>3. e + 1 \in Nat
      <3>1. e \in start + 2 .. n + 1
        BY ONLY <2>1, n \in Nat, Len(segs) = n, start \in 1 .. n, LoopEndIn
      <3> HIDE DEF e
      <3> QED
        BY ONLY <3>1, n \in Nat, start \in 1 .. n
    <2>4. name \in STRING /\ s.env \in Env
      BY ONLY <1>1, s \in ScanState DEF Segment, ScanState
    <2>5. values \in Seq(Text)
      BY ONLY <1>1, s \in ScanState, LoopValuesIn
    <2>6. ForLoop(s, segs, start) = [r EXCEPT !.env = s.env, !.next = e + 1]
      BY ONLY <1>3 DEF ForLoop
    <2> HIDE DEF name, body, values, e
    <2>7. PICK l \in Nat : DOMAIN values = 1 .. l /\ \A m \in 1 .. l : values[m] \in Text
      BY ONLY <2>5, LenProperties
    <2>8. PICK k \in Nat : DOMAIN body = 1 .. k /\ \A m \in 1 .. k : body[m] \in Segment
      BY ONLY <2>2, LenProperties
    <2>9. ASSUME NEW x \in ScanState, NEW m \in 1 .. l
          PROVE  OneValue(x, name, values[m], s.env, body) \in ScanState
      <3> DEFINE b == [x EXCEPT !.env = Bind(s.env, name, values[m])]
      <3>1. Bind(s.env, name, values[m]) \in Env
        BY ONLY <2>4, <2>7, m \in 1 .. l, BindIn
      <3>2. b \in ScanState
        BY ONLY <3>1, x \in ScanState DEF ScanState
      <3> HIDE DEF b
      <3>3. \A y \in ScanState : \A i \in 1 .. k : ScanSegment(y, body[i]) \in ScanState
        BY ONLY <2>8, SegmentIn
      <3>4. FoldLeft(ScanSegment, b, body) \in ScanState
        BY ONLY <2>8, <3>2, <3>3, BodyFold
      <3> QED
        BY ONLY <3>4, x \in ScanState DEF OneValue, b
    <2>10. r \in ScanState
      BY ONLY <2>7, <2>9, s \in ScanState, ValuesFold
    <2> HIDE DEF r
    <2> QED
      BY ONLY <2>3, <2>4, <2>6, <2>10 DEF ScanState
  <1> QED
    BY ONLY <1>2, <1>3

\* scan_script (script_scan.py) for any script.
LEMMA ScanIn ==
    ASSUME NEW segs \in Seq(Segment)
    PROVE  Scan(segs).urls \in Seq(Http) /\ Len(Scan(segs).urls) <= MaxUrls
  <1>1. PICK n \in Nat : /\ Len(segs) = n /\ DOMAIN segs = 1 .. n
                         /\ \A m \in 1 .. n : segs[m] \in Segment
    BY LenProperties
  <1>2. ScanStart \in ScanState
    <2>1. << >> \in Listed
      <3>1. << >> \in Seq(Http) /\ Len(<< >>) = 0 /\ 0 <= MaxUrls
        BY EmptySeq, Numbers
      <3> QED
        BY ONLY <3>1 DEF Listed
    <2>2. << >> \in Env
      <3>1. << >> \in [{} -> Text] /\ {} \in SUBSET STRING
        OBVIOUS
      <3> QED
        BY ONLY <3>1 DEF Env
    <2> QED
      BY ONLY <2>1, <2>2 DEF ScanStart, ScanState
  <1>3. ASSUME NEW x \in ScanState, NEW m \in 1 .. n PROVE ScanAt(x, segs, m) \in ScanState
    <2>1. ForLoop(x, segs, m) \in ScanState
      BY ONLY <1>1, x \in ScanState, m \in 1 .. n, segs \in Seq(Segment), ForLoopIn
    <2>2. ScanSegment(x, segs[m]) \in ScanState /\ m + 1 \in Nat
      BY ONLY <1>1, x \in ScanState, m \in 1 .. n, SegmentIn
    <2>3. [ScanSegment(x, segs[m]) EXCEPT !.next = m + 1] \in ScanState
      BY ONLY <2>2 DEF ScanState
    <2> QED
      BY ONLY <2>1, <2>3, x \in ScanState DEF ScanAt
  <1>4. Scan(segs) \in ScanState
    BY ONLY <1>1, <1>2, <1>3, ScriptFold
  <1> QED
    BY ONLY <1>4 DEF ScanState, Listed

-----------------------------------------------------------------------------
(* The invariant.                                                           *)

Result == [depth : Nat, segs : Seq(Segment)]

TaskRecord == [state : {"idle", "running", "done"}, pending : Seq(Result),
               children : Seq(Http), depth : Nat]

Inv ==
    /\ pool \in SUBSET Seq(Segment)
    /\ now \in Nat
    /\ task \in [Tasks -> TaskRecord]
    /\ LimiterOK(limiter, admitted, forgotten, now)
    /\ TablesBounded

LEMMA InitInv == Init => Inv
  <1> SUFFICES ASSUME Init PROVE Inv
    OBVIOUS
  <1>1. pool \in SUBSET Seq(Segment) /\ now \in Nat
    BY ScriptAssumption DEF Init
  <1>2. task \in [Tasks -> TaskRecord]
    <2>1. << >> \in Seq(Result) /\ << >> \in Seq(Http)
      BY EmptySeq
    <2>2. [state |-> "idle", pending |-> << >>, children |-> << >>, depth |-> 0] \in TaskRecord
      BY ONLY <2>1 DEF TaskRecord
    <2> QED
      BY <2>2 DEF Init
  <1>3. /\ limiter.seen = << >> /\ limiter.session = << >> /\ limiter.host = << >>
        /\ admitted = {} /\ forgotten = {} /\ now = 0
    BY DEF Init
  <1>4. \A S : << >> \in Seq(S) /\ Len(<< >>) = 0
    BY ONLY EmptySeq
  <1>5. \A K, V : IsDict(<< >>, K, V)
    <2>1. 1 .. 0 = {}
      OBVIOUS
    <2> QED
      BY ONLY <1>4, <2>1 DEF IsDict
  <1>6. LimiterType(limiter)
    BY ONLY <1>3, <1>5 DEF LimiterType
  <1>7. \A k, x : Get(<< >>, k, x) = x
    BY ONLY DEF Get, Keys
  <1>8. IsFiniteSet({}) /\ Cardinality({}) = 0
    BY ONLY FS_EmptySet
  <1>9. Covers({}, << >>)
    <2>1. [a \in {} |-> 0] \in [{} -> 1 .. Len(<< >>)]
      OBVIOUS
    <2> QED
      BY ONLY <2>1 DEF Covers
  <1>10. HostsOK({}, << >>, {}, 0)
    <2>1. \A h : Live({}, h, 0) = {}
      BY ONLY DEF Live
    <2> QED
      BY ONLY <1>7, <1>9, <2>1 DEF HostsOK
  <1>11. Account({}, << >>, << >>, {}, 0)
    BY ONLY <1>8, <1>10 DEF Account, SeenOK, Apart
  <1>12. SessionsOK({}, << >>, {})
    <2> SUFFICES ASSUME NEW s \in Sessions PROVE Cardinality(Charged({}, s)) <= Get(<< >>, s, 0)
      BY DEF SessionsOK
    <2>1. Charged({}, s) = {}
      BY ONLY DEF Charged
    <2>2. Cardinality(Charged({}, s)) = 0
      BY ONLY <1>8, <2>1
    <2>3. Get(<< >>, s, 0) = 0
      BY ONLY <1>7
    <2> QED
      BY ONLY <2>2, <2>3
  <1>13. WindowsOK({}, {})
    BY ONLY DEF WindowsOK
  <1>14. LimiterOK(limiter, admitted, forgotten, now)
    BY ONLY <1>3, <1>6, <1>11, <1>12, <1>13 DEF LimiterOK
  <1>15. TablesBounded
    <2>1. 0 <= MaxTracked + 1 /\ 0 <= MaxTracked + MaxUrls
      BY ONLY Numbers
    <2> QED
      BY ONLY <1>3, <1>4, <2>1 DEF TablesBounded
  <1> QED
    BY ONLY <1>1, <1>2, <1>14, <1>15 DEF Inv

\* plan_followups (stage2.py).
LEMMA PlanInv ==
    ASSUME Inv, NEW t \in Tasks, Plan(t), UNCHANGED pool
    PROVE  Inv'
  <1> DEFINE r == Head(task[t].pending)
             ss == SessionOf[t]
             urls == Scan(r.segs).urls
             a == Admit(ss, urls)
             kept == Prune(limiter)
             l == [seen |-> a.seen, host |-> a.host,
                   session |-> Put(kept.session, ss, a.used + Len(a.list))]
  <1>1. /\ now \in Nat /\ LimiterOK(limiter, admitted, forgotten, now) /\ TablesBounded
        /\ pool \in SUBSET Seq(Segment) /\ task \in [Tasks -> TaskRecord]
    BY DEF Inv
  <1>2. task[t] \in TaskRecord /\ task[t].pending \in Seq(Result) /\ task[t].pending # << >>
    BY ONLY <1>1, Plan(t), t \in Tasks DEF Plan, TaskRecord
  <1>3. r \in Result /\ Tail(task[t].pending) \in Seq(Result)
    BY ONLY <1>2, HeadTailProperties
  <1>4. r.segs \in Seq(Segment) /\ r.depth \in Nat
    BY ONLY <1>3 DEF Result
  <1>5. ss \in Sessions
    BY ONLY TaskAssumption, t \in Tasks
  <1>6. CASE Plans(r)
    <2>1. /\ task' = [task EXCEPT ![t].pending = Tail(task[t].pending), ![t].children = a.list,
                                  ![t].depth = r.depth + 1]
          /\ limiter' = l
          /\ admitted' = admitted \cup New(ss, a.list, now)
          /\ forgotten' = forgotten \cup Evicted
          /\ now' = now /\ pool' = pool
      BY ONLY <1>6, Plan(t), UNCHANGED pool DEF Plan, New
    <2>2. urls \in Seq(Http) /\ Len(urls) <= MaxUrls
      BY ONLY <1>4, ScanIn
    <2> HIDE DEF urls, ss
    <2>3. /\ a.list \in Seq(Http)
          /\ LimiterOK(l, admitted \cup New(ss, a.list, now), forgotten \cup Evicted, now)
          /\ Len(l.session) <= MaxTracked + 1
          /\ Len(l.seen) <= MaxTracked + Len(urls) /\ Len(l.host) <= MaxTracked + Len(urls)
      BY ONLY <1>1, <1>5, <2>2, PlanKeeps
    <2> HIDE DEF a, r
    <2>4. task' \in [Tasks -> TaskRecord]
      <3>1. r.depth + 1 \in Nat
        BY ONLY <1>4
      <3> DEFINE p == Tail(task[t].pending)
      <3>2. p \in Seq(Result)
        BY ONLY <1>3
      <3> HIDE DEF p
      <3>3. [task[t] EXCEPT !.pending = p, !.children = a.list, !.depth = r.depth + 1] \in TaskRecord
        BY ONLY <1>2, <2>3, <3>1, <3>2 DEF TaskRecord
      <3>4. task' = [task EXCEPT ![t] = [task[t] EXCEPT !.pending = p, !.children = a.list,
                                                        !.depth = r.depth + 1]]
        BY ONLY <2>1 DEF p
      <3> QED
        BY ONLY <1>1, <3>3, <3>4
    <2>5. LimiterType(l)
      BY ONLY <2>3 DEF LimiterOK
    <2> HIDE DEF l
    <2>6. Len(l.seen) <= MaxTracked + MaxUrls /\ Len(l.host) <= MaxTracked + MaxUrls
      <3>1. Len(l.seen) \in Nat /\ Len(l.host) \in Nat
        BY ONLY <2>5, LenProperties DEF LimiterType, IsDict
      <3>2. Len(urls) \in Nat
        BY ONLY <2>2, LenProperties
      <3> QED
        BY ONLY <2>2, <2>3, <3>1, <3>2, Numbers
    <2>7. TablesBounded'
      BY ONLY <2>1, <2>3, <2>6 DEF TablesBounded
    <2>8. LimiterOK(limiter', admitted', forgotten', now')
      BY ONLY <2>1, <2>3
    <2> QED
      BY ONLY <1>1, <2>1, <2>4, <2>7, <2>8 DEF Inv
  <1>7. CASE ~Plans(r)
    <2>1. /\ task' = [task EXCEPT ![t].pending = Tail(task[t].pending)]
          /\ UNCHANGED <<now, limiter, admitted, forgotten, pool>>
      BY ONLY <1>7, Plan(t), UNCHANGED pool DEF Plan
    <2> DEFINE p == Tail(task[t].pending)
    <2>2. p \in Seq(Result)
      BY ONLY <1>3
    <2>3. task' = [task EXCEPT ![t] = [task[t] EXCEPT !.pending = p]]
      BY ONLY <2>1
    <2> HIDE DEF p
    <2>4. [task[t] EXCEPT !.pending = p] \in TaskRecord
      BY ONLY <1>2, <2>2 DEF TaskRecord
    <2>5. task' \in [Tasks -> TaskRecord]
      BY ONLY <1>1, <2>3, <2>4
    <2> QED
      BY ONLY <1>1, <2>1, <2>5 DEF Inv, TablesBounded
  <1> QED
    BY ONLY <1>6, <1>7

\* A step that only changes one task to another of its type.
LEMMA TaskStep ==
    ASSUME Inv, UNCHANGED <<pool, now, limiter, admitted, forgotten>>,
           NEW t \in Tasks, NEW k \in TaskRecord, task' = [task EXCEPT ![t] = k]
    PROVE  Inv'
  <1>1. task' \in [Tasks -> TaskRecord]
    BY DEF Inv
  <1> QED
    BY <1>1 DEF Inv, TablesBounded

LEMMA NextInv == Inv /\ [Next]_vars => Inv'
  <1> SUFFICES ASSUME Inv, [Next]_vars PROVE Inv'
    OBVIOUS
  <1>0. \A t \in Tasks : /\ task[t] \in TaskRecord /\ task[t].pending \in Seq(Result)
                         /\ task[t].children \in Seq(Http) /\ task[t].depth \in Nat
    BY DEF Inv, TaskRecord
  <1>1. ASSUME NEW t \in Tasks, NEW segs \in pool, StartStage2(t, segs), UNCHANGED pool PROVE Inv'
    <2> DEFINE e == [depth |-> 0, segs |-> segs]
               k == [task[t] EXCEPT !.state = "running", !.pending = <<e>>]
    <2>1. segs \in Seq(Segment)
      BY DEF Inv
    <2>2. e \in Result
      BY ONLY <2>1 DEF Result
    <2>3. <<e>> \in Seq(Result)
      BY ONLY <2>2
    <2>4. k \in TaskRecord
      BY ONLY <1>0, <2>3, t \in Tasks DEF TaskRecord
    <2>5. /\ task' = [task EXCEPT ![t] = k]
          /\ UNCHANGED <<pool, now, limiter, admitted, forgotten>>
      BY ONLY <1>1 DEF StartStage2
    <2> HIDE DEF k
    <2> QED
      BY ONLY <2>4, <2>5, Inv, t \in Tasks, TaskStep
  <1>2. ASSUME NEW t \in Tasks, Plan(t), UNCHANGED pool PROVE Inv'
    BY ONLY <1>2, Inv, t \in Tasks, PlanInv
  <1>3. ASSUME NEW t \in Tasks, NEW segs \in Payloads(t), FetchChild(t, segs), UNCHANGED pool PROVE Inv'
    <2> DEFINE e == [depth |-> task[t].depth, segs |-> segs]
               c == Tail(task[t].children)
               p == Append(task[t].pending, e)
               k == [task[t] EXCEPT !.children = c, !.pending = p]
    <2>1. segs \in Seq(Segment)
      <3>1. NoScript \in Seq(Segment)
        BY ONLY EmptySeq DEF NoScript
      <3>2. pool \in SUBSET Seq(Segment)
        BY ONLY Inv DEF Inv
      <3> QED
        BY ONLY <3>1, <3>2, segs \in Payloads(t) DEF Payloads
    <2>2. e \in Result
      BY ONLY <1>0, <2>1, t \in Tasks DEF Result
    <2>3. p \in Seq(Result)
      BY ONLY <1>0, <2>2, t \in Tasks, AppendProperties
    <2>4. task[t].children # << >>
      BY ONLY <1>3 DEF FetchChild
    <2>5. c \in Seq(Http)
      BY ONLY <1>0, <2>4, t \in Tasks, HeadTailProperties
    <2>6. /\ task' = [task EXCEPT ![t] = k]
          /\ UNCHANGED <<pool, now, limiter, admitted, forgotten>>
      BY ONLY <1>3 DEF FetchChild
    <2> HIDE DEF p, c
    <2>7. k \in TaskRecord
      BY ONLY <1>0, <2>3, <2>5, t \in Tasks DEF TaskRecord
    <2> HIDE DEF k
    <2> QED
      BY ONLY <2>6, <2>7, Inv, t \in Tasks, TaskStep
  <1>4. ASSUME NEW t \in Tasks, TaskDone(t), UNCHANGED pool PROVE Inv'
    <2> DEFINE k == [task[t] EXCEPT !.state = "done"]
    <2>1. k \in TaskRecord
      BY ONLY <1>0, t \in Tasks DEF TaskRecord
    <2>2. /\ task' = [task EXCEPT ![t] = k]
          /\ UNCHANGED <<pool, now, limiter, admitted, forgotten>>
      BY ONLY <1>4 DEF TaskDone
    <2> HIDE DEF k
    <2> QED
      BY ONLY <2>1, <2>2, Inv, t \in Tasks, TaskStep
  <1>5. ASSUME Tick, UNCHANGED pool PROVE Inv'
    <2>1. now' = now + 1 /\ UNCHANGED <<pool, limiter, task, admitted, forgotten>>
      BY ONLY <1>5 DEF Tick
    <2>2. now \in Nat /\ LimiterOK(limiter, admitted, forgotten, now)
      BY ONLY Inv DEF Inv
    <2>3. LimiterOK(limiter, admitted, forgotten, now + 1) /\ now + 1 \in Nat
      BY ONLY <2>2, LaterKeeps
    <2>4. LimiterOK(limiter', admitted', forgotten', now')
      BY ONLY <2>1, <2>3
    <2> QED
      BY ONLY <2>1, <2>3, <2>4, Inv DEF Inv, TablesBounded
  <1>6. CASE UNCHANGED vars
    BY ONLY <1>6, Inv DEF Inv, TablesBounded, vars
  <1> QED
    BY ONLY <1>1, <1>2, <1>3, <1>4, <1>5, <1>6, [Next]_vars DEF Next

-----------------------------------------------------------------------------
(* The theorems.                                                            *)

LEMMA InvHolds == Spec => []Inv
  BY InitInv, NextInv, PTL DEF Spec

\* A session's count is one of the table, which never exceeds the limit.
LEMMA InvBudgets == Inv => BudgetsKept
  <1> SUFFICES ASSUME Inv PROVE BudgetsKept
    OBVIOUS
  <1>1. /\ IsDict(limiter.session, Sessions, Counts)
        /\ SessionsOK(admitted, limiter.session, forgotten)
        /\ WindowsOK(admitted, forgotten) /\ Apart(admitted, forgotten)
        /\ IsFiniteSet(admitted)
    BY DEF Inv, LimiterOK, LimiterType, Account
  <1>2. ASSUME NEW s \in Sessions \ forgotten
        PROVE  Cardinality({a \in admitted : a.session = s}) <= MaxPerSession
    <2>1. Charged(admitted, s) = {a \in admitted : a.session = s}
      BY ONLY DEF Charged
    <2>2. Cardinality(Charged(admitted, s)) <= Get(limiter.session, s, 0)
      BY ONLY <1>1, s \in Sessions \ forgotten DEF SessionsOK
    <2>3. Get(limiter.session, s, 0) \in 0 .. MaxPerSession
      <3>1. CASE s \in Keys(limiter.session)
        BY ONLY <1>1, <3>1, GetIn DEF Counts
      <3>2. CASE s \notin Keys(limiter.session)
        BY ONLY <3>2, Numbers DEF Get
      <3> QED
        BY ONLY <3>1, <3>2
    <2>4. Cardinality(Charged(admitted, s)) \in Nat
      <3>1. Charged(admitted, s) \in SUBSET admitted
        BY ONLY DEF Charged
      <3> QED
        BY ONLY <1>1, <3>1, FS_Subset, FS_CardinalityType
    <2> QED
      BY ONLY <2>1, <2>2, <2>3, <2>4, Numbers
  <1>3. \A a, b \in admitted :
           a.url = b.url /\ a # b /\ a.url \notin forgotten =>
              a.at >= b.at + Dedupe \/ b.at >= a.at + Dedupe
    BY ONLY <1>1 DEF Apart
  <1>4. \A a \in admitted :
           HostOf[a.url] \notin forgotten =>
              Cardinality({b \in admitted : /\ HostOf[b.url] = HostOf[a.url]
                                            /\ b.at <= a.at /\ a.at < b.at + Dedupe}) <= MaxPerHost
    BY ONLY <1>1 DEF WindowsOK, Window
  <1> QED
    BY ONLY <1>2, <1>3, <1>4 DEF BudgetsKept

\* Stage2Limiter (stage2.py): a session's count, a URL's cooldown and a host's
\* cap hold for all that was ever admitted, except for keys that were evicted,
\* for any tasks, sessions, scripts, limits and times.
THEOREM BudgetsAreKept == Spec => []BudgetsKept
  BY InvHolds, InvBudgets, PTL

\* _prune (stage2.py): the tables stay within _MAX_TRACKED and what one script
\* may add, however many sessions, URLs and hosts come by.
THEOREM TablesAreBounded == Spec => []TablesBounded
  <1>1. Inv => TablesBounded
    BY DEF Inv
  <1> QED
    BY <1>1, InvHolds, PTL

=============================================================================
