---------------------- MODULE ConnectionLimiterProofs ----------------------
(***************************************************************************)
(* What acquiring and releasing a slot does to the count of an address,    *)
(* limiter.py, for any number of addresses, connections and any cap.  The  *)
(* listeners' proofs rest on these facts.                                  *)
(***************************************************************************)
EXTENDS ConnectionLimiter, FiniteSets, FiniteSetTheorems, TLAPS

\* The count n of an address is the number of connections that hold its slots,
\* of which there are finitely many and, with a cap, no more than the cap.
Counted(n, held) ==
    /\ IsFiniteSet(held)
    /\ MaxPerIp > 0 => n = Cardinality(held) /\ n <= MaxPerIp

\* Nobody holds a slot of a new limiter.
LEMMA NoneCounted == Counted(0, {})
  BY FS_EmptySet, MaxPerIpAssumption DEF Counted

\* acquire, after can_acquire, by a connection k that holds no slot yet.
LEMMA AcquireCounted ==
    ASSUME counts \in [Ips -> Nat], NEW i \in Ips, NEW held, NEW k, k \notin held,
           Counted(counts[i], held), CanAcquire(i), Acquire(i)
    PROVE  /\ counts' \in [Ips -> Nat]
           /\ Counted(counts'[i], held \cup {k})
           /\ \A o \in Ips : o # i => counts'[o] = counts[o]
  <1>1. IsFiniteSet(held \cup {k}) /\ Cardinality(held \cup {k}) = Cardinality(held) + 1
    BY FS_AddElement DEF Counted
  <1>2. CASE MaxPerIp = 0
    BY <1>1, <1>2 DEF Counted, Acquire
  <1>3. CASE MaxPerIp > 0
    <2>1. counts' = [counts EXCEPT ![i] = @ + 1] /\ counts[i] < MaxPerIp
      BY <1>3 DEF Acquire, CanAcquire
    <2> QED
      BY <1>1, <1>3, <2>1, MaxPerIpAssumption DEF Counted
  <1> QED
    BY <1>2, <1>3, MaxPerIpAssumption

\* release by a connection k that holds a slot: the count is above zero, so the
\* slot that is given back is its own.
LEMMA ReleaseCounted ==
    ASSUME counts \in [Ips -> Nat], NEW i \in Ips, NEW held, NEW k \in held,
           Counted(counts[i], held), Release(i)
    PROVE  /\ counts' \in [Ips -> Nat]
           /\ Counted(counts'[i], held \ {k})
           /\ \A o \in Ips : o # i => counts'[o] = counts[o]
  <1>1. /\ IsFiniteSet(held \ {k})
        /\ Cardinality(held \ {k}) = Cardinality(held) - 1
        /\ Cardinality(held) \in Nat
    BY FS_RemoveElement, FS_CardinalityType DEF Counted
  <1>2. Cardinality(held) # 0
    BY FS_EmptySet DEF Counted
  <1>3. /\ counts' \in [Ips -> Nat]
        /\ counts[i] > 0 => counts'[i] = counts[i] - 1
        /\ \A o \in Ips : o # i => counts'[o] = counts[o]
    BY DEF Release
  <1> QED
    BY <1>1, <1>2, <1>3, MaxPerIpAssumption DEF Counted

=============================================================================
