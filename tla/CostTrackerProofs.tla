---------------------------- MODULE CostTrackerProofs ----------------------------
(***************************************************************************)
(* Theorems of CostTracker for any number of tasks, traces and scopes, and *)
(* any limits.  BoundedMemory rests on the keys being distinct: touching a *)
(* trace then removes its one old place, so only a new trace lengthens the *)
(* keys, and by one.  OvershootIsInFlight is not inductive: what is, is    *)
(* that a trace's total together with all its calls in flight could still  *)
(* add stays within the bound (Committed).                                 *)
(***************************************************************************)
EXTENDS CostTracker, SubsequencesProofs, SequenceTheorems

USE CostAssumption DEF Keys

\* What the calls of a trace in flight can still add is already counted.
Committed ==
    \A t \in Traces :
        /\ Cardinality(InFlight(t)) <= peak[t]
        /\ total[t] + MaxUsage * Cardinality(InFlight(t)) <= Budget - 1 + MaxUsage * peak[t]

IInv == TypeOK /\ BoundedMemory /\ Committed

---------------------------------------------------------------------------
(* Sequences, numbers and sets of tasks.                                   *)

\* Removing an element moves the later ones down by one place.
LEMMA Removal ==
    ASSUME NEW S, NEW s \in Seq(S), NEW i \in 1..Len(s)
    PROVE  /\ RemoveAt(s, i) \in Seq(S)
           /\ Len(RemoveAt(s, i)) = Len(s) - 1
           /\ \A j \in 1..(Len(s) - 1) : RemoveAt(s, i)[j] = IF j < i THEN s[j] ELSE s[j + 1]
  <1> DEFINE a == SubSeq(s, 1, i - 1)
             b == SubSeq(s, i + 1, Len(s))
  <1>0. Len(s) \in Nat /\ \A j \in 1..Len(s) : s[j] \in S
      BY LenProperties, ElementOfSeq
  <1>1. a \in Seq(S) /\ Len(a) = i - 1 /\ \A j \in 1..(i - 1) : a[j] = s[j]
    <2>1. \A j \in 1..(i - 1) : s[j] \in S
        BY <1>0
    <2>2. /\ a \in Seq(S)
          /\ Len(a) = IF 1 <= i - 1 THEN (i - 1) - 1 + 1 ELSE 0
          /\ \A j \in 1..((i - 1) - 1 + 1) : a[j] = s[1 + j - 1]
        BY <1>0, <2>1, SubSeqProperties
    <2> QED BY <1>0, <2>2
  <1>2. b \in Seq(S) /\ Len(b) = Len(s) - i /\ \A j \in 1..(Len(s) - i) : b[j] = s[i + j]
    <2>1. \A j \in (i + 1)..Len(s) : s[j] \in S
        BY <1>0
    <2>2. /\ b \in Seq(S)
          /\ Len(b) = IF i + 1 <= Len(s) THEN Len(s) - (i + 1) + 1 ELSE 0
          /\ \A j \in 1..(Len(s) - (i + 1) + 1) : b[j] = s[(i + 1) + j - 1]
        BY <1>0, <2>1, SubSeqProperties
    <2> QED BY <1>0, <2>2
  <1> HIDE DEF a, b
  <1> DEFINE ab == a \o b
  <1>3. /\ ab \in Seq(S)
        /\ Len(ab) = Len(a) + Len(b)
        /\ \A j \in 1..(Len(a) + Len(b)) :
              ab[j] = IF j <= Len(a) THEN a[j] ELSE b[j - Len(a)]
      BY <1>1, <1>2, ConcatProperties
  <1>4. RemoveAt(s, i) = ab
      BY DEF RemoveAt, a, b
  <1> HIDE DEF ab
  <1>5. ASSUME NEW j \in 1..(Len(s) - 1)
        PROVE  ab[j] = IF j < i THEN s[j] ELSE s[j + 1]
    <2>1. CASE j < i
        BY <1>0, <1>1, <1>2, <1>3, <2>1
    <2>2. CASE j >= i
      <3>1. PICK k \in 1..(Len(s) - i) : k = j - Len(a) /\ i + k = j + 1 /\ ~(j <= Len(a))
          BY <1>0, <1>1, <2>2
      <3>2. ab[j] = b[k]
        <4>1. j \in 1..(Len(a) + Len(b))
            BY <1>0, <1>1, <1>2
        <4>2. ab[j] = b[j - Len(a)]
            BY <1>1, <1>3, <3>1, <4>1
        <4> QED BY <3>1, <4>2
      <3>3. b[k] = s[j + 1]
          BY <1>2, <3>1
      <3> QED BY <2>2, <3>2, <3>3
    <2> QED BY <1>0, <2>1, <2>2
  <1> QED BY <1>0, <1>1, <1>2, <1>3, <1>4, <1>5

\* A multiple grows with its factor, and by one multiplicand at a time.
LEMMA Multiples ==
    ASSUME NEW m \in Nat, NEW a \in Nat, NEW b \in Nat
    PROVE  /\ m * a \in Nat
           /\ m * (a + 1) = m * a + m
           /\ a <= b => m * a <= m * b
  OBVIOUS

\* A task that starts a call of a trace is one more in flight there, and
\* moves nothing elsewhere.
LEMMA Starting ==
    ASSUME TypeOK, NEW c \in Tasks, NEW v \in Spans, call[c] = NoCall,
           call' = [call EXCEPT ![c] = v], NEW t \in Traces
    PROVE  /\ Cardinality(InFlight(t)) \in Nat
           /\ Cardinality(InFlight(t)') =
                 IF v.trace = t THEN Cardinality(InFlight(t)) + 1 ELSE Cardinality(InFlight(t))
  <1>1. InFlight(t) \subseteq Tasks /\ c \notin InFlight(t)
      BY DEF InFlight
  <1>2. InFlight(t)' = IF v.trace = t THEN InFlight(t) \cup {c} ELSE InFlight(t)
      BY DEF InFlight, TypeOK, Spans
  <1>3. IsFiniteSet(InFlight(t))
      BY <1>1, FS_Subset
  <1> QED BY <1>1, <1>2, <1>3, FS_AddElement, FS_CardinalityType

\* A task whose call ends is one less in flight in the call's trace.
LEMMA Ending ==
    ASSUME TypeOK, NEW c \in Tasks, call[c] # NoCall,
           call' = [call EXCEPT ![c] = NoCall], NEW t \in Traces
    PROVE  /\ Cardinality(InFlight(t)) \in Nat
           /\ Cardinality(InFlight(t)') \in Nat
           /\ Cardinality(InFlight(t)) =
                 IF call[c].trace = t THEN Cardinality(InFlight(t)') + 1
                 ELSE Cardinality(InFlight(t)')
  <1>1. InFlight(t)' \subseteq Tasks /\ c \notin InFlight(t)'
      BY DEF InFlight, TypeOK
  <1>2. InFlight(t) = IF call[c].trace = t THEN InFlight(t)' \cup {c} ELSE InFlight(t)'
      BY DEF InFlight, TypeOK, Spans
  <1>3. IsFiniteSet(InFlight(t)')
      BY <1>1, FS_Subset
  <1> QED BY <1>1, <1>2, <1>3, FS_AddElement, FS_CardinalityType

---------------------------------------------------------------------------
(* The keys.                                                               *)

\* Without a trace the keys are the others, still distinct.
LEMMA WithoutKeys ==
    ASSUME TypeOK, NEW t \in Traces
    PROVE  /\ Without(t) \in Seq(Traces)
           /\ IsInjective(Without(t))
           /\ ToSet(Without(t)) = ToSet(lru) \ {t}
           /\ Len(Without(t)) = IF t \in ToSet(lru) THEN Len(lru) - 1 ELSE Len(lru)
           /\ \A i, j \in 1..Len(Without(t)) : i < j =>
                 \E p, q \in 1..Len(lru) : /\ p < q /\ Without(t)[i] = lru[p]
                                          /\ Without(t)[j] = lru[q]
  <1>0. lru \in Seq(Traces) /\ Len(lru) \in Nat /\ DOMAIN lru = 1..Len(lru)
        /\ \A x, y \in 1..Len(lru) : lru[x] = lru[y] => x = y
      BY LenProperties DEF TypeOK, IsInjective
  <1>1. CASE t \notin ToSet(lru)
      BY <1>0, <1>1 DEF Without, TypeOK
  <1>2. CASE t \in ToSet(lru)
    <2> DEFINE i == PlaceOf(t)
               w == RemoveAt(lru, i)
               n == Len(lru) - 1
    <2>1. i \in 1..Len(lru) /\ lru[i] = t
        BY <1>0, <1>2 DEF PlaceOf, ToSet
    <2> HIDE DEF i
    <2>2. /\ w \in Seq(Traces) /\ Len(w) = n
          /\ \A j \in 1..n : w[j] = IF j < i THEN lru[j] ELSE lru[j + 1]
      <3>0. lru \in Seq(Traces) /\ i \in 1..Len(lru)
          BY <1>0, <2>1
      <3>1. /\ RemoveAt(lru, i) \in Seq(Traces)
            /\ Len(RemoveAt(lru, i)) = Len(lru) - 1
            /\ \A j \in 1..(Len(lru) - 1) :
                  RemoveAt(lru, i)[j] = IF j < i THEN lru[j] ELSE lru[j + 1]
          BY <3>0, Removal
      <3> QED BY <3>1
    <2> HIDE DEF w
    <2>3. DOMAIN w = 1..n
        BY <2>2, LenProperties
    <2>4. IsInjective(w)
        BY <1>0, <2>1, <2>2, <2>3 DEF IsInjective
    <2>5. ASSUME NEW j \in 1..n PROVE w[j] \in ToSet(lru) \ {t}
      <3>1. PICK k \in 1..Len(lru) : k # i /\ w[j] = lru[k]
          BY <1>0, <2>1, <2>2
      <3> QED BY <1>0, <2>1, <3>1 DEF ToSet
    <2>6. ASSUME NEW k \in 1..Len(lru), lru[k] # t
          PROVE  \E j \in 1..n : w[j] = lru[k]
      <3>1. CASE k < i
          BY <1>0, <2>1, <2>2, <3>1
      <3>2. CASE k > i
        <4>1. k - 1 \in 1..n /\ w[k - 1] = lru[(k - 1) + 1]
            BY <1>0, <2>1, <2>2, <3>2
        <4> QED BY <1>0, <4>1
      <3> QED BY <1>0, <2>1, <2>6, <3>1, <3>2
    <2>7. ToSet(w) = ToSet(lru) \ {t}
      <3>1. ToSet(w) \subseteq ToSet(lru) \ {t}
          BY <2>3, <2>5 DEF ToSet
      <3>2. ASSUME NEW x \in ToSet(lru) \ {t} PROVE x \in ToSet(w)
        <4>1. PICK k \in 1..Len(lru) : lru[k] = x
            BY <1>0 DEF ToSet
        <4> QED BY <2>3, <2>6, <4>1 DEF ToSet
      <3> QED BY <3>1, <3>2
    <2>8. Without(t) = w
        BY <1>2 DEF Without, w, i
    <2>9. ASSUME NEW a \in 1..Len(w), NEW b \in 1..Len(w), a < b
          PROVE  \E p, q \in 1..Len(lru) : p < q /\ w[a] = lru[p] /\ w[b] = lru[q]
      <3> DEFINE at(k) == IF k < i THEN k ELSE k + 1
      <3>1. a \in 1..n /\ b \in 1..n
          BY <2>2
      <3>2. at(a) \in 1..Len(lru) /\ at(b) \in 1..Len(lru) /\ at(a) < at(b)
          BY <1>0, <2>1, <2>9, <3>1
      <3>3. w[a] = lru[at(a)] /\ w[b] = lru[at(b)]
          BY <2>2, <3>1
      <3> HIDE DEF at
      <3> QED BY <3>2, <3>3
    <2> QED BY <1>2, <2>2, <2>4, <2>7, <2>8, <2>9
  <1> QED BY <1>1, <1>2

\* Touched, a trace is a key, last and once.
LEMMA TouchedKeys ==
    ASSUME TypeOK, NEW t \in Traces
    PROVE  /\ Touched(t) \in Seq(Traces)
           /\ IsInjective(Touched(t))
           /\ ToSet(Touched(t)) = ToSet(lru) \cup {t}
           /\ Len(Touched(t)) = IF t \in ToSet(lru) THEN Len(lru) ELSE Len(lru) + 1
           /\ Touched(t)[Len(Touched(t))] = t
           /\ Len(Touched(t)) \in Nat \ {0}
  <1> DEFINE w == Without(t)
  <1>1. /\ w \in Seq(Traces) /\ IsInjective(w) /\ ToSet(w) = ToSet(lru) \ {t}
        /\ Len(w) = IF t \in ToSet(lru) THEN Len(lru) - 1 ELSE Len(lru)
      BY WithoutKeys
  <1> HIDE DEF w
  <1>2. Len(w) \in Nat /\ DOMAIN w = 1..Len(w) /\ Len(lru) \in Nat
      BY <1>1, LenProperties DEF TypeOK
  <1> DEFINE a == Append(w, t)
  <1>3. /\ a \in Seq(Traces) /\ Len(a) = Len(w) + 1 /\ a[Len(w) + 1] = t
        /\ \A j \in 1..Len(w) : a[j] = w[j]
      BY <1>1, AppendProperties
  <1> HIDE DEF a
  <1>4. DOMAIN a = 1..(Len(w) + 1)
      BY <1>3, LenProperties
  <1>5. \A j \in 1..Len(w) : w[j] # t
      BY <1>1, <1>2 DEF ToSet
  <1>6. IsInjective(a)
      BY <1>1, <1>2, <1>3, <1>4, <1>5 DEF IsInjective
  <1>7. ToSet(a) = ToSet(w) \cup {t}
      BY <1>2, <1>3, <1>4 DEF ToSet
  <1>8. Touched(t) = a
      BY DEF Touched, a, w
  <1> QED BY <1>1, <1>2, <1>3, <1>6, <1>7, <1>8

---------------------------------------------------------------------------
(* The log.                                                                *)

\* The places of the log that are not those of some traces.
Kept(gone) == {i \in 1 .. Len(log) : log[i].trace \notin gone}

\* What remains of the log is at those places.
LEMMA Remains ==
    ASSUME TypeOK, NEW gone
    PROVE  /\ Len(log) \in Nat /\ DOMAIN log = 1 .. Len(log)
           /\ \A i \in 1 .. Len(log) : log[i] \in Usages
           /\ Since(gone) \in Seq(Usages)
           /\ Len(Since(gone)) = Cardinality(Kept(gone)) /\ Len(Since(gone)) \in Nat
           /\ \A n \in 1 .. Len(Since(gone)) :
                 Nth(Kept(gone), n) \in Kept(gone) /\ Since(gone)[n] = log[Nth(Kept(gone), n)]
  <1>1. /\ log \in Seq(Usages) /\ Len(log) \in Nat /\ DOMAIN log = 1 .. Len(log)
        /\ \A i \in 1 .. Len(log) : log[i] \in Usages
    <2>1. log \in Seq(Usages)
        BY DEF TypeOK
    <2> QED BY <2>1, LenProperties, ElementOfSeq
  <1> DEFINE K == Kept(gone)
             k == Cardinality(K)
             r == [n \in 1 .. k |-> log[Nth(K, n)]]
  <1>2. K \in SUBSET (1 .. Len(log))
      BY DEF Kept
  <1>3. Since(gone) = r
      BY <1>1 DEF Since, ElementsAt, Kept
  <1> HIDE DEF K
  <1>4. k \in Nat /\ \A n \in 1 .. k : Nth(K, n) \in K
    <2>1. Cardinality(K) \in 0 .. Len(log)
        BY <1>1, <1>2, Enumeration, Zenon
    <2>2. \A n \in 1 .. Cardinality(K) : Nth(K, n) \in K
        BY <1>1, <1>2, Enumeration, Zenon
    <2> QED BY <1>1, <2>1, <2>2
  <1>5. \A n \in 1 .. k : r[n] = log[Nth(K, n)] /\ r[n] \in Usages
      BY <1>1, <1>2, <1>4
  <1> HIDE DEF k
  <1>6. r \in [1 .. k -> Usages]
      BY <1>5
  <1>7. r \in Seq(Usages)
    <2>1. \E n \in Nat : r \in [1 .. n -> Usages]
        BY <1>4, <1>6
    <2> QED BY <2>1, SeqDef
  <1>8. Len(r) = k
      BY <1>4, <1>7, LenProperties
  <1> QED BY <1>1, <1>3, <1>4, <1>5, <1>7, <1>8 DEF K, k

---------------------------------------------------------------------------
(* The invariant.                                                          *)

\* At the start nothing is kept and nothing is in flight.
LEMMA InitIInv == Init => IInv
  <1> SUFFICES ASSUME Init PROVE IInv
      OBVIOUS
  <1>1. TypeOK
      BY EmptySeq DEF Init, TypeOK, IsInjective, Usages
  <1>2. BoundedMemory
      BY EmptySeq DEF Init, BoundedMemory
  <1>3. \A t \in Traces : Cardinality(InFlight(t)) = 0
    <2>1. \A t \in Traces : InFlight(t) = {}
        BY DEF Init, InFlight
    <2> QED BY <2>1, FS_EmptySet
  <1>4. Committed
      BY <1>3 DEF Init, Committed
  <1> QED BY <1>1, <1>2, <1>4 DEF IInv

\* A call that starts was shown a total below the budget, and makes room in
\* the bound for what it may use by raising the peak.
LEMMA CheckInputIInv ==
    ASSUME IInv, NEW c \in Tasks, NEW t \in Traces, NEW s \in Scopes \cup {NoScope},
           CheckInput(c, t, s)
    PROVE  IInv'
  <1> DEFINE v == [trace |-> t, scope |-> s]
             n(x) == Cardinality(InFlight(x))
  <1>0. v \in Spans /\ v.trace = t /\ call[c] = NoCall /\ total[t] < Budget
        /\ call' = [call EXCEPT ![c] = v]
        /\ lru' = lru /\ total' = total /\ scoped' = scoped /\ log' = log
      BY DEF CheckInput, Within, ContextFor, tracker, Spans
  <1>1. \A x \in Traces : /\ n(x) \in Nat
                          /\ n(x)' = IF x = t THEN n(x) + 1 ELSE n(x)
      BY <1>0, Starting DEF IInv
  <1>2. n(t) \in Nat /\ peak' = [peak EXCEPT ![t] = IF n(t) + 1 > peak[t] THEN n(t) + 1 ELSE peak[t]]
      BY <1>1 DEF CheckInput
  <1> HIDE DEF n
  <1>3. TypeOK'
      BY <1>0, <1>2 DEF IInv, TypeOK
  <1>4. BoundedMemory'
      BY <1>0 DEF IInv, BoundedMemory
  <1>5. ASSUME NEW x \in Traces
        PROVE  /\ n(x)' <= peak'[x]
               /\ total'[x] + MaxUsage * n(x)' <= Budget - 1 + MaxUsage * peak'[x]
    <2>1. /\ n(x) <= peak[x] /\ total[x] + MaxUsage * n(x) <= Budget - 1 + MaxUsage * peak[x]
          /\ total[x] \in Nat /\ peak[x] \in Nat /\ peak'[x] \in Nat
        BY <1>3 DEF IInv, Committed, TypeOK, n
    <2>2. CASE x # t
        BY <1>0, <1>1, <1>2, <2>1, <2>2 DEF IInv, TypeOK
    <2>3. CASE x = t
      <3>1. n(x)' = n(x) + 1 /\ n(x)' \in Nat /\ n(x)' <= peak'[x]
          BY <1>1, <1>2, <2>1, <2>3 DEF IInv, TypeOK
      <3>2. MaxUsage * n(x)' <= MaxUsage * peak'[x] /\ MaxUsage * n(x)' \in Nat
            /\ MaxUsage * peak'[x] \in Nat
          BY <2>1, <3>1, Multiples
      <3> QED BY <1>0, <2>1, <2>3, <3>1, <3>2
    <2> QED BY <2>2, <2>3
  <1>6. Committed'
      BY <1>5 DEF Committed, n
  <1> QED BY <1>3, <1>4, <1>6 DEF IInv

\* A record keeps the types and the bound on memory: only a new trace is
\* one more, and the trace evicted then is the oldest and another one.
LEMMA RecordKeeps ==
    ASSUME TypeOK, BoundedMemory, NEW t \in Traces, NEW s \in Scopes \cup {NoScope},
           NEW u \in 0..MaxUsage, Record(t, s, u)
    PROVE  /\ lru' \in Seq(Traces) /\ IsInjective(lru')
           /\ total' \in [Traces -> Nat] /\ scoped' \in [Keys -> Nat]
           /\ log' \in Seq(Usages)
           /\ BoundedMemory'
           /\ \A x \in Traces : total'[x] <= total[x] + (IF x = t THEN u ELSE 0)
  <1>1. CASE u = 0
      BY <1>1 DEF Record, tracker, TypeOK, BoundedMemory
  <1>0. ASSUME u # 0 PROVE log' \in Seq(Usages)
    <2> DEFINE e == [trace |-> t, scope |-> s, usage |-> u]
    <2>1. e \in Usages
        BY <1>0 DEF Usages
    <2>2. Since(Evicted(Touched(t))) \in Seq(Usages)
        BY Remains
    <2>3. log' = Append(Since(Evicted(Touched(t))), e)
        BY <1>0 DEF Record
    <2> HIDE DEF e
    <2> QED BY <2>1, <2>2, <2>3, AppendProperties
  <1>2. CASE u # 0
    <2> DEFINE w == Touched(t)
               gone == Evicted(w)
    <2>1. /\ w \in Seq(Traces) /\ IsInjective(w) /\ ToSet(w) = ToSet(lru) \cup {t}
          /\ Len(w) = IF t \in ToSet(lru) THEN Len(lru) ELSE Len(lru) + 1
          /\ w[Len(w)] = t /\ Len(w) \in Nat \ {0}
        BY TouchedKeys
    <2>2. /\ lru' = IF gone = {} THEN w ELSE Tail(w)
          /\ total' = [TotalWithout(gone) EXCEPT ![t] = @ + u]
          /\ scoped' = IF s = NoScope THEN ScopedWithout(gone)
                       ELSE [ScopedWithout(gone) EXCEPT ![<<t, s>>] = @ + u]
        BY <1>2 DEF Record
    <2>3. Len(lru) \in Nat /\ Len(lru) <= MaxTraces
        BY LenProperties DEF TypeOK, BoundedMemory
    <2>4. total' \in [Traces -> Nat] /\ scoped' \in [Keys -> Nat]
          /\ \A x \in Traces : total'[x] <= total[x] + (IF x = t THEN u ELSE 0)
      <3>1. TotalWithout(gone) \in [Traces -> Nat]
            /\ \A x \in Traces : TotalWithout(gone)[x] <= total[x]
          BY DEF TypeOK, TotalWithout
      <3>2. ScopedWithout(gone) \in [Keys -> Nat]
          BY DEF TypeOK, ScopedWithout
      <3>3. total[t] \in Nat /\ \A x \in Traces : total[x] \in Nat
          BY DEF TypeOK
      <3> HIDE DEF gone
      <3>4. total' \in [Traces -> Nat]
          BY <2>2, <3>1
      <3>5. \A x \in Traces : total'[x] <= total[x] + (IF x = t THEN u ELSE 0)
          BY <2>2, <3>1, <3>3
      <3>6. scoped' \in [Keys -> Nat]
        <4>1. CASE s = NoScope
            BY <2>2, <3>2, <4>1
        <4>2. CASE s # NoScope
          <5>1. scoped' = [ScopedWithout(gone) EXCEPT ![<<t, s>>] = @ + u] /\ <<t, s>> \in Keys
              BY <2>2, <4>2
          <5> QED BY <3>2, <5>1
        <4> QED BY <4>1, <4>2
      <3> QED BY <3>4, <3>5, <3>6
    <2>5. \A x \in Traces \ {t} :
              /\ x \in gone => total'[x] = 0 /\ \A y \in Scopes : scoped'[<<x, y>>] = 0
              /\ total[x] = 0 => total'[x] = 0
              /\ \A y \in Scopes : scoped[<<x, y>>] = 0 => scoped'[<<x, y>>] = 0
        BY <2>2 DEF TypeOK, TotalWithout, ScopedWithout
    <2> HIDE DEF w
    <2>6. CASE gone = {}
      <3>1. lru' = w /\ Len(w) <= MaxTraces
          BY <2>1, <2>2, <2>3, <2>6 DEF Evicted
      <3>2. BoundedMemory'
          BY <2>1, <2>5, <3>1 DEF BoundedMemory
      <3> QED BY <1>0, <1>2, <2>1, <2>4, <3>1, <3>2
    <2>7. CASE gone # {}
      <3>1. gone = {Head(w)} /\ Len(w) > MaxTraces /\ lru' = Tail(w)
          BY <2>2, <2>7 DEF Evicted
      <3>2. w # <<>> /\ Head(w) = w[1] /\ DOMAIN w = 1..Len(w)
          BY <2>1, <3>1, EmptySeq, LenProperties
      <3>2a. \A x, y \in 1..Len(w) : w[x] = w[y] => x = y
        <4>1. IsInjective(w) /\ DOMAIN w = 1..Len(w)
            BY <2>1, <3>2
        <4> QED BY <4>1 DEF IsInjective
      <3>3. /\ lru' \in Seq(Traces) /\ Len(lru') = Len(w) - 1
            /\ \A i \in 1..(Len(w) - 1) : lru'[i] = w[i + 1]
          BY <2>1, <3>1, <3>2, HeadTailProperties
      <3>4. DOMAIN lru' = 1..(Len(w) - 1)
          BY <3>3, LenProperties
      <3>5. IsInjective(lru')
        <4>1. ASSUME NEW x \in 1..(Len(w) - 1), NEW y \in 1..(Len(w) - 1), lru'[x] = lru'[y]
              PROVE  x = y
          <5>1. x + 1 \in 1..Len(w) /\ y + 1 \in 1..Len(w) /\ w[x + 1] = w[y + 1]
              BY <2>1, <3>3, <4>1
          <5>2. x + 1 = y + 1
              BY <3>2a, <5>1
          <5> QED BY <5>2
        <4> QED BY <3>4, <4>1 DEF IsInjective
      <3>6. Len(lru') <= MaxTraces /\ Len(w) >= 2
          BY <2>1, <2>3, <3>1, <3>3
      <3>7. Head(w) # t
        <4>1. 1 \in 1..Len(w) /\ Len(w) \in 1..Len(w) /\ 1 # Len(w)
            BY <2>1, <3>6
        <4>2. w[1] # w[Len(w)]
            BY <3>2a, <4>1
        <4> QED BY <2>1, <3>2, <4>2
      <3>8. t \in ToSet(lru')
        <4>1. Len(w) - 1 \in DOMAIN lru' /\ lru'[Len(w) - 1] = t
            BY <2>1, <3>3, <3>4, <3>6
        <4> QED BY <4>1 DEF ToSet
      <3>9. ASSUME NEW x \in ToSet(lru), x # Head(w) PROVE x \in ToSet(lru')
        <4>1. PICK k \in 1..Len(w) : w[k] = x
            BY <2>1, <3>2 DEF ToSet
        <4>2. k - 1 \in 1..(Len(w) - 1) /\ (k - 1) + 1 = k
            BY <2>1, <3>2, <3>9, <4>1
        <4>3. lru'[k - 1] = x
            BY <3>3, <4>1, <4>2
        <4> QED BY <3>4, <4>2, <4>3 DEF ToSet
      <3>10. BoundedMemory'
          BY <2>5, <3>1, <3>6, <3>8, <3>9 DEF BoundedMemory
      <3> QED BY <1>0, <1>2, <2>4, <3>3, <3>5, <3>10
    <2> QED BY <2>6, <2>7
  <1> QED BY <1>1, <1>2

\* A call that ends adds at most MaxUsage to its trace and no longer counts
\* as in flight there; no other trace gains anything.
LEMMA EndingCommitted ==
    ASSUME IInv, NEW c \in Tasks, call[c] # NoCall, call' = [call EXCEPT ![c] = NoCall],
           NEW u \in 0..MaxUsage, peak' = peak, total' \in [Traces -> Nat],
           \A x \in Traces : total'[x] <= total[x] + (IF x = call[c].trace THEN u ELSE 0)
    PROVE  Committed'
  <1> DEFINE n(x) == Cardinality(InFlight(x))
  <1>1. \A x \in Traces : /\ n(x) \in Nat /\ n(x)' \in Nat
                          /\ n(x) = IF call[c].trace = x THEN n(x)' + 1 ELSE n(x)'
      BY Ending DEF IInv
  <1>2. ASSUME NEW x \in Traces
        PROVE  /\ n(x)' <= peak'[x]
               /\ total'[x] + MaxUsage * n(x)' <= Budget - 1 + MaxUsage * peak'[x]
    <2>1. /\ n(x) <= peak[x] /\ total[x] + MaxUsage * n(x) <= Budget - 1 + MaxUsage * peak[x]
          /\ total[x] \in Nat /\ total'[x] \in Nat /\ peak[x] \in Nat /\ peak'[x] = peak[x]
        BY DEF IInv, Committed, TypeOK
    <2> HIDE DEF n
    <2>2. CASE x # call[c].trace
        BY <1>1, <2>1, <2>2
    <2>3. CASE x = call[c].trace
      <3>1. n(x) = n(x)' + 1 /\ n(x)' \in Nat /\ total'[x] <= total[x] + u
          BY <1>1, <2>3
      <3>2. MaxUsage * n(x) = MaxUsage * n(x)' + MaxUsage /\ MaxUsage * n(x)' \in Nat
            /\ MaxUsage * peak[x] \in Nat
          BY <2>1, <3>1, Multiples
      <3> QED BY <2>1, <3>1, <3>2
    <2> QED BY <2>2, <2>3
  <1> QED BY <1>2 DEF Committed

\* A result's usage is recorded.
LEMMA CheckOutputIInv ==
    ASSUME IInv, NEW c \in Tasks, NEW u \in 0..MaxUsage, CheckOutput(c, u)
    PROVE  IInv'
  <1>1. /\ call[c] # NoCall /\ call' = [call EXCEPT ![c] = NoCall] /\ peak' = peak
        /\ Record(call[c].trace, call[c].scope, u)
      BY DEF CheckOutput
  <1>2. call[c].trace \in Traces /\ call[c].scope \in Scopes \cup {NoScope}
      BY <1>1 DEF IInv, TypeOK, Spans
  <1>3. /\ lru' \in Seq(Traces) /\ IsInjective(lru')
        /\ total' \in [Traces -> Nat] /\ scoped' \in [Keys -> Nat] /\ BoundedMemory'
        /\ log' \in Seq(Usages)
        /\ \A x \in Traces : total'[x] <= total[x] + (IF x = call[c].trace THEN u ELSE 0)
      BY <1>1, <1>2, RecordKeeps DEF IInv
  <1>4. Committed'
      BY <1>1, <1>3, EndingCommitted
  <1> QED BY <1>1, <1>3, <1>4 DEF IInv, TypeOK

\* A call that records nothing only ends.
LEMMA CallFailsIInv ==
    ASSUME IInv, NEW c \in Tasks, CallFails(c)
    PROVE  IInv'
  <1>1. /\ call[c] # NoCall /\ call' = [call EXCEPT ![c] = NoCall] /\ peak' = peak
        /\ lru' = lru /\ total' = total /\ scoped' = scoped /\ log' = log
      BY DEF CallFails, tracker
  <1>2. 0 \in 0..MaxUsage /\ total' \in [Traces -> Nat]
        /\ \A x \in Traces : total'[x] <= total[x] + (IF x = call[c].trace THEN 0 ELSE 0)
      BY <1>1 DEF IInv, TypeOK
  <1>3. Committed'
      BY <1>1, <1>2, EndingCommitted
  <1> QED BY <1>1, <1>3 DEF IInv, TypeOK, BoundedMemory

\* Ending a trace drops its key, its total and its scopes together.
LEMMA EndTraceIInv ==
    ASSUME IInv, NEW t \in Traces, EndTrace(t)
    PROVE  IInv'
  <1>1. /\ lru' = Without(t) /\ call' = call /\ peak' = peak
        /\ total' = [x \in Traces |-> IF x = t THEN 0 ELSE total[x]]
        /\ scoped' = [k \in Keys |-> IF k[1] = t THEN 0 ELSE scoped[k]]
      BY DEF EndTrace, TotalWithout, ScopedWithout
  <1>2. /\ lru' \in Seq(Traces) /\ IsInjective(lru') /\ ToSet(lru') = ToSet(lru) \ {t}
        /\ Len(lru') = IF t \in ToSet(lru) THEN Len(lru) - 1 ELSE Len(lru)
      BY <1>1, WithoutKeys DEF IInv
  <1>2a. log' \in Seq(Usages)
      BY Remains DEF IInv, EndTrace
  <1>3. TypeOK'
      BY <1>1, <1>2, <1>2a DEF IInv, TypeOK
  <1>4. BoundedMemory'
    <2>1. Len(lru) \in Nat /\ Len(lru) <= MaxTraces
        BY LenProperties DEF IInv, TypeOK, BoundedMemory
    <2>2. \A x \in Traces : x = t \/ (total[x] = 0 /\ \A s \in Scopes : scoped[<<x, s>>] = 0)
              => total'[x] = 0 /\ \A s \in Scopes : scoped'[<<x, s>>] = 0
        BY <1>1
    <2> QED BY <1>2, <2>1, <2>2 DEF IInv, BoundedMemory
  <1>5. Committed'
    <2>1. \A x \in Traces : Cardinality(InFlight(x))' = Cardinality(InFlight(x))
        BY <1>1 DEF InFlight
    <2>2. \A x \in Traces : total'[x] <= total[x] /\ total'[x] \in Nat /\ total[x] \in Nat
        BY <1>1 DEF IInv, TypeOK
    <2>3. ASSUME NEW x \in Traces
          PROVE  total'[x] + MaxUsage * Cardinality(InFlight(x))'
                    <= Budget - 1 + MaxUsage * peak'[x]
      <3>1. InFlight(x) \subseteq Tasks
          BY DEF InFlight
      <3>2. Cardinality(InFlight(x)) \in Nat
          BY <3>1, FS_Subset, FS_CardinalityType
      <3>3. peak[x] \in Nat
            /\ total[x] + MaxUsage * Cardinality(InFlight(x)) <= Budget - 1 + MaxUsage * peak[x]
          BY DEF IInv, TypeOK, Committed
      <3>4. MaxUsage * Cardinality(InFlight(x)) \in Nat /\ MaxUsage * peak[x] \in Nat
          BY <3>2, <3>3, Multiples
      <3> QED BY <1>1, <2>1, <2>2, <3>3, <3>4
    <2> QED BY <1>1, <2>1, <2>3 DEF IInv, Committed
  <1> QED BY <1>3, <1>4, <1>5 DEF IInv

\* No step breaks the invariant.
LEMMA StepIInv == IInv /\ [Next]_vars => IInv'
  <1> SUFFICES ASSUME IInv, [Next]_vars PROVE IInv'
      OBVIOUS
  <1>1. CASE UNCHANGED vars
      BY <1>1 DEF vars, tracker, IInv, TypeOK, BoundedMemory, Committed, InFlight
  <1>2. ASSUME NEW c \in Tasks, NEW t \in Traces, NEW s \in Scopes \cup {NoScope},
               CheckInput(c, t, s)
        PROVE  IInv'
      BY <1>2, CheckInputIInv
  <1>3. ASSUME NEW c \in Tasks, NEW u \in 0..MaxUsage, CheckOutput(c, u) PROVE IInv'
      BY <1>3, CheckOutputIInv
  <1>4. ASSUME NEW c \in Tasks, CallFails(c) PROVE IInv'
      BY <1>4, CallFailsIInv
  <1>5. ASSUME NEW t \in Traces, EndTrace(t) PROVE IInv'
      BY <1>5, EndTraceIInv
  <1> QED BY <1>1, <1>2, <1>3, <1>4, <1>5 DEF Next

\* The invariant always holds.
LEMMA Invariance == Spec => []IInv
  <1> QED BY InitIInv, StepIInv, PTL DEF Spec

---------------------------------------------------------------------------
(* Recency.  The least recently touched key is the one recorded longest    *)
(* ago, because the keys are in the order of their last records (InOrder). *)

\* x was last recorded before y, in some log.
Before(entries, x, y) ==
    \E j \in 1 .. Len(entries) :
        /\ entries[j].trace = y
        /\ \A i \in 1 .. Len(entries) : entries[i].trace = x => i < j

InOrder == \A i, j \in 1 .. Len(lru) : i < j => Before(log, lru[i], lru[j])

\* The property's comparison, of last places.
LEMMA BeforeIsEarlier ==
    ASSUME TypeOK, NEW x, NEW y, Before(log, x, y)
    PROVE  LastRecord(x) < LastRecord(y)
  <1> DEFINE at(t) == {i \in DOMAIN log : log[i].trace = t}
  <1>1. Len(log) \in Nat /\ DOMAIN log = 1 .. Len(log)
      BY Remains
  <1>2. PICK j \in at(y) : \A i \in at(x) : i < j
      BY <1>1 DEF Before
  <1>3. ASSUME NEW t, at(t) # {}
        PROVE  LastRecord(t) \in at(t) /\ \A i \in at(t) : i <= LastRecord(t)
    <2>1. at(t) \in SUBSET (1 .. Len(log))
        BY <1>1
    <2>2. LastRecord(t) = CHOOSE i \in at(t) : \A k \in at(t) : k <= i
        BY <1>3 DEF LastRecord
    <2> HIDE DEF at
    <2>3. \E i \in at(t) : \A k \in at(t) : k <= i
        BY <1>1, <1>3, <2>1, FirstAndLast
    <2> QED BY <2>2, <2>3
  <1>4. at(x) = {} => LastRecord(x) = 0
      BY DEF LastRecord
  <1>5. LastRecord(y) \in 1 .. Len(log) /\ j <= LastRecord(y) /\ j \in 1 .. Len(log)
    <2>1. LastRecord(y) \in at(y) /\ j <= LastRecord(y)
        BY <1>2, <1>3
    <2> QED BY <1>1, <2>1
  <1>6. CASE at(x) = {}
      BY <1>4, <1>5, <1>6
  <1>7. CASE at(x) # {}
    <2>1. LastRecord(x) \in at(x) /\ LastRecord(x) < j
        BY <1>2, <1>3, <1>7
    <2>2. LastRecord(x) \in 1 .. Len(log)
        BY <1>1, <2>1
    <2> QED BY <1>5, <2>1, <2>2
  <1> QED BY <1>6, <1>7

\* Dropping the records of others changes no order.
LEMMA BeforeStays ==
    ASSUME TypeOK, NEW gone, NEW x, NEW y, x \notin gone, y \notin gone, Before(log, x, y)
    PROVE  Before(Since(gone), x, y)
  <1> DEFINE K == Kept(gone)
             r == Since(gone)
             k == Len(r)
  <1>1. /\ Len(log) \in Nat /\ k \in Nat /\ k = Cardinality(K)
        /\ \A n \in 1 .. k : Nth(K, n) \in K /\ r[n] = log[Nth(K, n)]
      BY Remains
  <1>2. K \in SUBSET (1 .. Len(log))
      BY DEF Kept
  <1>3. PICK j \in 1 .. Len(log) :
          log[j].trace = y /\ \A i \in 1 .. Len(log) : log[i].trace = x => i < j
      BY DEF Before
  <1>4. j \in K
      BY <1>3 DEF Kept
  <1> HIDE DEF K, r
  <1>5. /\ \A i \in K : \E n \in 1 .. k : Nth(K, n) = i
        /\ \A n, o \in 1 .. k : n < o => Nth(K, n) < Nth(K, o)
    <2>1. \A i \in K : \E n \in 1 .. Cardinality(K) : Nth(K, n) = i
        BY <1>1, <1>2, Enumeration, Zenon
    <2>2. \A n, o \in 1 .. Cardinality(K) : n < o => Nth(K, n) < Nth(K, o)
        BY <1>1, <1>2, Enumeration, Zenon
    <2> QED BY <1>1, <2>1, <2>2
  <1>6. PICK n \in 1 .. k : Nth(K, n) = j
      BY <1>4, <1>5
  <1>7. ASSUME NEW i \in 1 .. k, r[i].trace = x PROVE i < n
    <2>1. Nth(K, i) \in 1 .. Len(log) /\ log[Nth(K, i)].trace = x
        BY <1>1, <1>2, <1>7
    <2>2. Nth(K, i) < Nth(K, n)
        BY <1>3, <1>6, <2>1
    <2>3. i # n /\ ~(n < i)
      <3>1. Nth(K, n) \in 1 .. Len(log)
          BY <1>6
      <3> QED BY <1>5, <2>1, <2>2, <3>1
    <2> QED BY <2>3
  <1>8. r[n].trace = y
      BY <1>1, <1>3, <1>6
  <1>9. Before(r, x, y)
      BY <1>7, <1>8 DEF Before
  <1> QED BY <1>9 DEF r

\* A new record is after all others, and moves none of them.
LEMMA BeforeAppended ==
    ASSUME NEW r \in Seq(Usages), NEW e \in Usages, NEW x, x # e.trace
    PROVE  /\ Before(Append(r, e), x, e.trace)
           /\ \A y : y # e.trace /\ Before(r, x, y) => Before(Append(r, e), x, y)
  <1> DEFINE a == Append(r, e)
  <1>1. /\ Len(r) \in Nat /\ Len(a) = Len(r) + 1 /\ a[Len(r) + 1] = e
        /\ \A i \in 1 .. Len(r) : a[i] = r[i]
      BY AppendProperties, LenProperties
  <1> HIDE DEF a
  <1>2. Len(r) + 1 \in 1 .. Len(a) /\ \A i \in 1 .. Len(a) : i = Len(r) + 1 \/ i \in 1 .. Len(r)
      BY <1>1
  <1>3. Before(a, x, e.trace)
    <2>1. ASSUME NEW i \in 1 .. Len(a), a[i].trace = x PROVE i < Len(r) + 1
      <3>1. i # Len(r) + 1
          BY <1>1, <2>1
      <3> QED BY <1>1, <1>2, <3>1
    <2> QED BY <1>1, <1>2, <2>1 DEF Before
  <1>4. ASSUME NEW y, y # e.trace, Before(r, x, y) PROVE Before(a, x, y)
    <2>1. PICK j \in 1 .. Len(r) :
            r[j].trace = y /\ \A i \in 1 .. Len(r) : r[i].trace = x => i < j
        BY <1>4 DEF Before
    <2>2. j \in 1 .. Len(a) /\ a[j].trace = y
        BY <1>1, <2>1
    <2>3. ASSUME NEW i \in 1 .. Len(a), a[i].trace = x PROVE i < j
      <3>1. i \in 1 .. Len(r) /\ r[i].trace = x
          BY <1>1, <1>2, <2>3
      <3> QED BY <2>1, <3>1
    <2> QED BY <2>2, <2>3 DEF Before
  <1> QED BY <1>3, <1>4 DEF a

\* A trace that is touched comes after the others, which keep their order.
LEMMA TouchedOrder ==
    ASSUME TypeOK, InOrder, NEW t \in Traces,
           NEW i \in 1 .. Len(Touched(t)), NEW j \in 1 .. Len(Touched(t)), i < j
    PROVE  /\ Touched(t)[i] # t
           /\ Touched(t)[j] = t \/ Before(log, Touched(t)[i], Touched(t)[j])
  <1> DEFINE w == Without(t)
             a == Append(w, t)
  <1>1. /\ w \in Seq(Traces) /\ ToSet(w) = ToSet(lru) \ {t}
        /\ \A p, q \in 1 .. Len(w) : p < q =>
              \E c, d \in 1 .. Len(lru) : c < d /\ w[p] = lru[c] /\ w[q] = lru[d]
      BY WithoutKeys
  <1> HIDE DEF w
  <1>2. /\ Len(w) \in Nat /\ DOMAIN w = 1 .. Len(w)
        /\ Len(a) = Len(w) + 1 /\ a[Len(w) + 1] = t
        /\ \A p \in 1 .. Len(w) : a[p] = w[p]
      BY <1>1, AppendProperties, LenProperties
  <1>3. Touched(t) = a
      BY DEF Touched, w
  <1> HIDE DEF a
  <1>4. i \in 1 .. Len(w) /\ (j = Len(w) + 1 \/ j \in 1 .. Len(w))
      BY <1>2, <1>3
  <1>5. a[i] = w[i] /\ w[i] \in ToSet(w)
      BY <1>2, <1>4 DEF ToSet
  <1>6. a[i] # t
      BY <1>1, <1>5
  <1>7. CASE j = Len(w) + 1
      BY <1>2, <1>3, <1>6, <1>7
  <1>8. CASE j \in 1 .. Len(w)
    <2>1. PICK c, d \in 1 .. Len(lru) : c < d /\ w[i] = lru[c] /\ w[j] = lru[d]
        BY <1>1, <1>4, <1>8
    <2>2. Before(log, w[i], w[j])
        BY <2>1 DEF InOrder
    <2> QED BY <1>2, <1>3, <1>5, <1>6, <1>8, <2>2
  <1> QED BY <1>4, <1>7, <1>8

\* The keys a record leaves are the touched ones from some place on, none of
\* them dropped.
LEMMA RecordedKeys ==
    ASSUME TypeOK, BoundedMemory, NEW t \in Traces,
           lru' = IF Evicted(Touched(t)) = {} THEN Touched(t) ELSE Tail(Touched(t))
    PROVE  \E d \in {0, 1} :
              /\ Len(lru') \in Nat /\ Len(lru') = Len(Touched(t)) - d
              /\ DOMAIN lru' = 1 .. Len(lru')
              /\ \A i \in 1 .. Len(lru') : /\ lru'[i] = Touched(t)[i + d]
                                           /\ lru'[i] \notin Evicted(Touched(t))
              /\ d = 0 => ToSet(lru') = ToSet(lru) \cup {t}
              /\ d = 1 => Touched(t)[1] \notin ToSet(lru')
  <1> DEFINE a == Touched(t)
  <1>1. /\ a \in Seq(Traces) /\ IsInjective(a) /\ ToSet(a) = ToSet(lru) \cup {t}
        /\ Len(a) \in Nat \ {0}
      BY TouchedKeys
  <1>2. lru' = IF Evicted(a) = {} THEN a ELSE Tail(a)
      OBVIOUS
  <1> HIDE DEF a
  <1>3. DOMAIN a = 1 .. Len(a) /\ a # <<>> /\ Head(a) = a[1]
      BY <1>1, LenProperties, EmptySeq
  <1>4. CASE Evicted(a) = {}
    <2>1. lru' = a
        BY <1>2, <1>4
    <2> WITNESS 0 \in {0, 1}
    <2> QED BY <1>1, <1>3, <1>4, <2>1 DEF a
  <1>5. CASE Evicted(a) # {}
    <2>1. Evicted(a) = {a[1]} /\ lru' = Tail(a)
        BY <1>2, <1>3, <1>5 DEF Evicted
    <2>2. /\ lru' \in Seq(Traces) /\ Len(lru') = Len(a) - 1
          /\ \A i \in 1 .. (Len(a) - 1) : lru'[i] = a[i + 1]
      <3>1. /\ Tail(a) \in Seq(Traces) /\ Len(Tail(a)) = Len(a) - 1
            /\ \A i \in 1 .. Len(Tail(a)) : Tail(a)[i] = a[i + 1]
          BY <1>1, <1>3, HeadTailProperties, Zenon
      <3> QED BY <2>1, <3>1
    <2>3. DOMAIN lru' = 1 .. Len(lru') /\ Len(lru') \in Nat
        BY <2>2, LenProperties
    <2>4. ASSUME NEW i \in 1 .. Len(lru') PROVE lru'[i] = a[i + 1] /\ lru'[i] # a[1]
      <3>1. i \in 1 .. (Len(a) - 1)
          BY <2>2
      <3>2. lru'[i] = a[i + 1]
          BY <2>2, <3>1
      <3>3. i + 1 \in 1 .. Len(a) /\ 1 \in 1 .. Len(a) /\ i + 1 # 1
          BY <1>1, <3>1
      <3> QED BY <1>1, <1>3, <3>2, <3>3 DEF IsInjective
    <2>5. a[1] \notin ToSet(lru')
        BY <2>3, <2>4 DEF ToSet
    <2>6. /\ Len(lru') \in Nat /\ Len(lru') = Len(a) - 1 /\ DOMAIN lru' = 1 .. Len(lru')
          /\ \A i \in 1 .. Len(lru') : lru'[i] = a[i + 1] /\ lru'[i] \notin Evicted(a)
        BY <2>1, <2>2, <2>3, <2>4
    <2> WITNESS 1 \in {0, 1}
    <2>7. 1 # 0
        OBVIOUS
    <2> QED BY <2>5, <2>6, <2>7, Zenon DEF a
  <1> QED BY <1>4, <1>5

LEMMA RecordOrder ==
    ASSUME TypeOK, BoundedMemory, InOrder, NEW t \in Traces, NEW s \in Scopes \cup {NoScope},
           NEW u \in 0 .. MaxUsage, Record(t, s, u)
    PROVE  InOrder'
  <1>1. CASE u = 0
      BY <1>1 DEF Record, tracker, InOrder, Before
  <1>2. CASE u # 0
    <2> DEFINE a == Touched(t)
               gone == Evicted(a)
               r == Since(gone)
               e == [trace |-> t, scope |-> s, usage |-> u]
    <2>1. lru' = (IF gone = {} THEN a ELSE Tail(a)) /\ log' = Append(r, e)
        BY <1>2 DEF Record
    <2>2. e \in Usages /\ e.trace = t
        BY <1>2 DEF Usages
    <2>3. r \in Seq(Usages)
        BY Remains
    <2>4. PICK d \in {0, 1} :
             /\ Len(lru') \in Nat /\ Len(lru') = Len(a) - d
             /\ \A i \in 1 .. Len(lru') : lru'[i] = a[i + d] /\ lru'[i] \notin gone
      <3>1. lru' = IF Evicted(Touched(t)) = {} THEN Touched(t) ELSE Tail(Touched(t))
          BY <2>1
      <3> HIDE DEF gone, a
      <3>2. PICK d \in {0, 1} :
               /\ Len(lru') \in Nat /\ Len(lru') = Len(Touched(t)) - d
               /\ DOMAIN lru' = 1 .. Len(lru')
               /\ \A i \in 1 .. Len(lru') : /\ lru'[i] = Touched(t)[i + d]
                                            /\ lru'[i] \notin Evicted(Touched(t))
               /\ d = 0 => ToSet(lru') = ToSet(lru) \cup {t}
               /\ d = 1 => Touched(t)[1] \notin ToSet(lru')
          BY <3>1, RecordedKeys, Zenon
      <3> QED BY <3>2, Zenon DEF gone, a
    <2>5. \A i, j \in 1 .. Len(a) : i < j => a[i] # t /\ (a[j] = t \/ Before(log, a[i], a[j]))
        BY TouchedOrder
    <2> HIDE DEF gone, r, e, a
    <2> SUFFICES ASSUME NEW i \in 1 .. Len(lru'), NEW j \in 1 .. Len(lru'), i < j
                 PROVE  Before(log', lru'[i], lru'[j])
        BY DEF InOrder
    <2> DEFINE x == lru'[i]
               y == lru'[j]
    <2>6. x # t /\ (y = t \/ Before(log, x, y)) /\ x \notin gone /\ y \notin gone
      <3>1. i + d \in 1 .. Len(a) /\ j + d \in 1 .. Len(a) /\ i + d < j + d
          BY <2>4
      <3> QED BY <2>4, <2>5, <3>1
    <2> HIDE DEF x, y
    <2>7. CASE y = t
        BY <2>1, <2>2, <2>3, <2>6, <2>7, BeforeAppended DEF x, y
    <2>8. CASE y # t
      <3>1. Before(r, x, y)
          BY <2>6, <2>8, BeforeStays DEF r
      <3> QED BY <2>1, <2>2, <2>3, <2>6, <2>8, <3>1, BeforeAppended DEF x, y
    <2> QED BY <2>7, <2>8
  <1> QED BY <1>1, <1>2

LEMMA EndTraceOrder ==
    ASSUME TypeOK, InOrder, NEW t \in Traces, EndTrace(t)
    PROVE  InOrder'
  <1> DEFINE w == Without(t)
  <1>1. /\ w \in Seq(Traces) /\ ToSet(w) = ToSet(lru) \ {t}
        /\ \A p, q \in 1 .. Len(w) : p < q =>
              \E c, d \in 1 .. Len(lru) : c < d /\ w[p] = lru[c] /\ w[q] = lru[d]
      BY WithoutKeys
  <1>2. lru' = w /\ log' = Since({t})
      BY DEF EndTrace
  <1> HIDE DEF w
  <1>3. DOMAIN w = 1 .. Len(w)
      BY <1>1, LenProperties
  <1> SUFFICES ASSUME NEW i \in 1 .. Len(w), NEW j \in 1 .. Len(w), i < j
               PROVE  Before(Since({t}), w[i], w[j])
      BY <1>2 DEF InOrder
  <1>4. w[i] # t /\ w[j] # t
      BY <1>1, <1>3 DEF ToSet
  <1>5. PICK c, d \in 1 .. Len(lru) : c < d /\ w[i] = lru[c] /\ w[j] = lru[d]
      BY <1>1
  <1>6. Before(log, w[i], w[j])
      BY <1>5 DEF InOrder
  <1> QED BY <1>4, <1>6, BeforeStays

\* What a step that makes room drops was recorded before all that stays.
LEMMA DropsLeastRecent ==
    ASSUME IInv, InOrder, [Next]_vars, ToSet(lru') \ ToSet(lru) # {},
           NEW x \in ToSet(lru) \ ToSet(lru'), NEW y \in ToSet(lru) \cap ToSet(lru')
    PROVE  LastRecord(x) < LastRecord(y)
  <1>1. PICK c \in Tasks, u \in 0 .. MaxUsage : CheckOutput(c, u)
    <2>1. ASSUME NEW t \in Traces, EndTrace(t) PROVE ToSet(lru') \subseteq ToSet(lru)
        BY <2>1, WithoutKeys DEF EndTrace, IInv
    <2>2. ASSUME NEW c \in Tasks, NEW t, NEW s, CheckInput(c, t, s) \/ CallFails(c)
          PROVE  lru' = lru
        BY <2>2 DEF CheckInput, CallFails, tracker
    <2>3. UNCHANGED vars => lru' = lru
        BY DEF vars, tracker
    <2> QED BY <2>1, <2>2, <2>3 DEF Next
  <1> DEFINE t == call[c].trace
             a == Touched(t)
  <1>2. t \in Traces /\ lru' = IF Evicted(a) = {} THEN a ELSE Tail(a)
    <2>1. u # 0
        BY <1>1 DEF CheckOutput, Record, tracker
    <2>2. call[c] \in Spans
        BY <1>1 DEF CheckOutput, IInv, TypeOK
    <2> QED BY <1>1, <2>1, <2>2 DEF CheckOutput, Record, Spans
  <1> HIDE DEF t
  <1>3. PICK d \in {0, 1} :
          /\ Len(lru') \in Nat /\ Len(lru') = Len(a) - d
          /\ DOMAIN lru' = 1 .. Len(lru')
          /\ \A i \in 1 .. Len(lru') : lru'[i] = a[i + d] /\ lru'[i] \notin Evicted(a)
          /\ d = 0 => ToSet(lru') = ToSet(lru) \cup {t}
          /\ d = 1 => a[1] \notin ToSet(lru')
      BY <1>2, RecordedKeys, Zenon DEF IInv
  <1>4. /\ a \in Seq(Traces) /\ ToSet(a) = ToSet(lru) \cup {t} /\ Len(a) \in Nat
        /\ a[Len(a)] = t
      BY <1>2, TouchedKeys DEF IInv
  <1>5. \A i, j \in 1 .. Len(a) : i < j => a[i] # t /\ (a[j] = t \/ Before(log, a[i], a[j]))
      BY <1>2, TouchedOrder DEF IInv
  <1> HIDE DEF a
  <1>6. DOMAIN a = 1 .. Len(a)
      BY <1>4, LenProperties
  <1>7. d = 1 /\ Len(lru') = Len(a) - 1 /\ \A i \in 1 .. Len(lru') : lru'[i] = a[i + 1]
      BY <1>3
  <1>8. PICK i \in 1 .. Len(a) : a[i] = x
      BY <1>4, <1>6 DEF ToSet
  <1>9. i = 1
    <2>1. ASSUME i # 1 PROVE FALSE
      <3>1. i - 1 \in 1 .. Len(lru') /\ (i - 1) + 1 = i
          BY <1>4, <1>7, <2>1
      <3>2. lru'[i - 1] = x
          BY <1>7, <1>8, <3>1
      <3> QED BY <1>3, <3>1, <3>2 DEF ToSet
    <2> QED BY <2>1
  <1>10. PICK j \in 1 .. Len(a) : a[j] = y /\ j # 1
    <2>1. PICK n \in 1 .. Len(lru') : lru'[n] = y
        BY <1>3 DEF ToSet
    <2>2. n + 1 \in 1 .. Len(a) /\ n + 1 # 1 /\ a[n + 1] = y
        BY <1>4, <1>7, <2>1
    <2> QED BY <2>2
  <1>11. y # t
    <2>1. t \notin ToSet(lru)
      <3>1. ToSet(lru') \subseteq ToSet(a)
        <4>1. ASSUME NEW n \in 1 .. Len(lru') PROVE lru'[n] \in ToSet(a)
          <5>1. n + 1 \in 1 .. Len(a) /\ lru'[n] = a[n + 1]
              BY <1>4, <1>7
          <5> QED BY <1>6, <5>1 DEF ToSet
        <4> QED BY <1>3, <4>1 DEF ToSet
      <3> QED BY <1>4, <3>1
    <2> QED BY <2>1
  <1>12. Before(log, x, y)
      BY <1>5, <1>8, <1>9, <1>10, <1>11
  <1> QED BY <1>12, BeforeIsEarlier DEF IInv

---------------------------------------------------------------------------
(* Sums.                                                                   *)

\* What LoggedFor sums, of some log.
ValuesOf(entries, t, S) ==
    [i \in DOMAIN entries |-> IF entries[i].trace = t /\ entries[i].scope \in S
                              THEN entries[i].usage ELSE 0]

Logged(entries, t, S) == SumTo(ValuesOf(entries, t, S), Len(entries))

LEMMA ValuesAreNumbers ==
    ASSUME NEW r \in Seq(Usages), NEW t, NEW S
    PROVE  /\ Len(r) \in Nat
           /\ \A i \in 1 .. Len(r) :
                /\ ValuesOf(r, t, S)[i] \in Nat
                /\ ValuesOf(r, t, S)[i] = IF r[i].trace = t /\ r[i].scope \in S THEN r[i].usage ELSE 0
  <1>1. Len(r) \in Nat /\ DOMAIN r = 1 .. Len(r) /\ \A i \in 1 .. Len(r) : r[i] \in Usages
      BY LenProperties, ElementOfSeq
  <1> QED BY <1>1 DEF ValuesOf, Usages

\* Dropping the usages of some traces leaves the sums of the others.
LEMMA LoggedSince ==
    ASSUME TypeOK, NEW gone, NEW t, NEW S
    PROVE  Logged(Since(gone), t, S) = IF t \in gone THEN 0 ELSE Logged(log, t, S)
  <1> DEFINE K == Kept(gone)
             r == Since(gone)
             e == ValuesOf(r, t, S)
             f == ValuesOf(log, t, S)
  <1>1. /\ Len(log) \in Nat /\ Len(r) = Cardinality(K) /\ Len(r) \in Nat /\ r \in Seq(Usages)
        /\ \A n \in 1 .. Len(r) : Nth(K, n) \in K /\ r[n] = log[Nth(K, n)]
      BY Remains
  <1>2. K \in SUBSET (1 .. Len(log)) /\ \A i \in 1 .. Len(log) : i \in K <=> log[i].trace \notin gone
      BY DEF Kept
  <1>3. \A n \in 1 .. Len(r) :
          e[n] \in Nat /\ e[n] = IF r[n].trace = t /\ r[n].scope \in S THEN r[n].usage ELSE 0
      BY <1>1, ValuesAreNumbers
  <1>4. \A i \in 1 .. Len(log) :
          f[i] \in Nat /\ f[i] = IF log[i].trace = t /\ log[i].scope \in S THEN log[i].usage ELSE 0
      BY ValuesAreNumbers DEF TypeOK
  <1> HIDE DEF K, r, e, f
  <1>5. CASE t \in gone
    <2>1. \A n \in 1 .. Len(r) : e[n] = 0
        BY <1>1, <1>2, <1>3, <1>5
    <2>2. SumTo(e, Len(r)) = 0
        BY <1>1, <2>1, SumOfNothing
    <2> QED BY <1>5, <2>2 DEF Logged, e, r
  <1>6. CASE t \notin gone
    <2>1. \A i \in (1 .. Len(log)) \ K : f[i] = 0
        BY <1>2, <1>4, <1>6
    <2>2. \A n \in 1 .. Cardinality(K) : e[n] = f[Nth(K, n)]
        BY <1>1, <1>2, <1>3, <1>4
    <2>3. SumTo(f, Len(log)) = SumTo(e, Cardinality(K))
        BY <1>1, <1>2, <1>4, <2>1, <2>2, SumOfPlaces
    <2> QED BY <1>1, <1>6, <2>3 DEF Logged, e, f, r
  <1> QED BY <1>5, <1>6

\* One more usage adds to the sums it is of.
LEMMA LoggedAppended ==
    ASSUME NEW r \in Seq(Usages), NEW u \in Usages, NEW t, NEW S
    PROVE  Logged(Append(r, u), t, S) =
             Logged(r, t, S) + (IF u.trace = t /\ u.scope \in S THEN u.usage ELSE 0)
  <1> DEFINE a == Append(r, u)
             e == ValuesOf(r, t, S)
             f == ValuesOf(a, t, S)
  <1>1. /\ a \in Seq(Usages) /\ Len(r) \in Nat /\ Len(a) = Len(r) + 1 /\ a[Len(r) + 1] = u
        /\ \A i \in 1 .. Len(r) : a[i] = r[i]
      BY AppendProperties, LenProperties
  <1>2. \A i \in 1 .. Len(r) :
          e[i] = IF r[i].trace = t /\ r[i].scope \in S THEN r[i].usage ELSE 0
      BY ValuesAreNumbers
  <1> HIDE DEF a
  <1>3. \A i \in 1 .. Len(a) :
          f[i] \in Nat /\ f[i] = IF a[i].trace = t /\ a[i].scope \in S THEN a[i].usage ELSE 0
      BY <1>1, ValuesAreNumbers
  <1> HIDE DEF e, f
  <1>4. Len(a) \in 1 .. Len(a) /\ \A i \in 1 .. Len(r) : i \in 1 .. Len(a)
      BY <1>1
  <1>5. SumTo(f, Len(a)) = SumTo(f, Len(a) - 1) + f[Len(a)]
    <2>1. Len(a) \in Nat /\ \A i \in 1 .. Len(a) : f[i] \in Nat
        BY <1>1, <1>3
    <2>2. \A n \in 1 .. Len(a) : SumTo(f, n) = SumTo(f, n - 1) + f[n]
        BY <2>1, SumToSteps
    <2> QED BY <1>4, <2>2
  <1>6. \A i \in 1 .. Len(r) : e[i] = f[i]
      BY <1>1, <1>2, <1>3, <1>4
  <1>7. SumTo(e, Len(r)) = SumTo(f, Len(r))
      BY <1>1, <1>6, SumToSame
  <1>8. Len(a) - 1 = Len(r) /\ f[Len(a)] = IF u.trace = t /\ u.scope \in S THEN u.usage ELSE 0
      BY <1>1, <1>3, <1>4
  <1> QED BY <1>5, <1>7, <1>8 DEF Logged, a, e, f

LEMMA RecordExact ==
    ASSUME TypeOK, TotalsAreExact, NEW t \in Traces, NEW s \in Scopes \cup {NoScope},
           NEW u \in 0 .. MaxUsage, Record(t, s, u)
    PROVE  TotalsAreExact'
  <1>1. CASE u = 0
      BY <1>1 DEF Record, tracker, TotalsAreExact, LoggedFor
  <1>2. CASE u # 0
    <2> DEFINE gone == Evicted(Touched(t))
               r == Since(gone)
               e == [trace |-> t, scope |-> s, usage |-> u]
    <2>1. /\ total' = [TotalWithout(gone) EXCEPT ![t] = @ + u]
          /\ scoped' = IF s = NoScope THEN ScopedWithout(gone)
                       ELSE [ScopedWithout(gone) EXCEPT ![<<t, s>>] = @ + u]
          /\ log' = Append(r, e)
        BY <1>2 DEF Record
    <2>2. e \in Usages /\ e.trace = t /\ e.scope = s /\ e.usage = u
        BY <1>2 DEF Usages
    <2>3. r \in Seq(Usages)
        BY Remains
    <2> HIDE DEF gone, r, e
    <2>4. \A x, S : Logged(log', x, S) =
              (IF x \in gone THEN 0 ELSE Logged(log, x, S)) + (IF t = x /\ s \in S THEN u ELSE 0)
        BY <2>1, <2>2, <2>3, LoggedAppended, LoggedSince DEF r
    <2>5. \A x \in Traces :
             /\ total[x] = Logged(log, x, Scopes \cup {NoScope}) /\ total[x] \in Nat
             /\ \A y \in Scopes : /\ scoped[<<x, y>>] = Logged(log, x, {y})
                                  /\ scoped[<<x, y>>] \in Nat
        BY DEF TotalsAreExact, LoggedFor, Logged, ValuesOf, TypeOK
    <2>6. ASSUME NEW x \in Traces
          PROVE  total'[x] = Logged(log', x, Scopes \cup {NoScope})
      <3>1. total'[x] = (IF x \in gone THEN 0 ELSE total[x]) + (IF t = x THEN u ELSE 0)
          BY <2>1, <2>5 DEF TotalWithout
      <3> QED BY <2>4, <2>5, <3>1
    <2>7. ASSUME NEW x \in Traces, NEW y \in Scopes
          PROVE  scoped'[<<x, y>>] = Logged(log', x, {y})
      <3>1. scoped'[<<x, y>>] =
              (IF x \in gone THEN 0 ELSE scoped[<<x, y>>]) + (IF t = x /\ s = y THEN u ELSE 0)
        <4>1. /\ <<x, y>> \in Keys /\ ScopedWithout(gone) \in [Keys -> Nat]
              /\ ScopedWithout(gone)[<<x, y>>] = IF x \in gone THEN 0 ELSE scoped[<<x, y>>]
            BY DEF ScopedWithout, TypeOK
        <4>2. CASE s = NoScope
            BY <2>1, <2>5, <4>1, <4>2
        <4>3. CASE s # NoScope
          <5>1. scoped' = [ScopedWithout(gone) EXCEPT ![<<t, s>>] = @ + u]
              BY <2>1, <4>3
          <5>2. CASE t = x /\ s = y
              BY <4>1, <5>1, <5>2
          <5>3. CASE ~(t = x /\ s = y)
            <6>1. <<t, s>> # <<x, y>>
                BY <5>3
            <6> QED BY <2>5, <4>1, <5>1, <5>3, <6>1
          <5> QED BY <5>2, <5>3
        <4> QED BY <4>2, <4>3
      <3> QED BY <2>4, <2>5, <3>1
    <2> QED BY <2>6, <2>7 DEF TotalsAreExact, LoggedFor, Logged, ValuesOf
  <1> QED BY <1>1, <1>2

LEMMA EndTraceExact ==
    ASSUME TypeOK, TotalsAreExact, NEW t \in Traces, EndTrace(t)
    PROVE  TotalsAreExact'
  <1>1. /\ total' = [x \in Traces |-> IF x = t THEN 0 ELSE total[x]]
        /\ scoped' = [k \in Keys |-> IF k[1] = t THEN 0 ELSE scoped[k]]
        /\ log' = Since({t})
      BY DEF EndTrace, TotalWithout, ScopedWithout
  <1>2. \A x, S : Logged(log', x, S) = IF x \in {t} THEN 0 ELSE Logged(log, x, S)
      BY <1>1, LoggedSince
  <1>3. \A x \in Traces :
           /\ total[x] = Logged(log, x, Scopes \cup {NoScope})
           /\ \A y \in Scopes : scoped[<<x, y>>] = Logged(log, x, {y})
      BY DEF TotalsAreExact, LoggedFor, Logged, ValuesOf
  <1>4. ASSUME NEW x \in Traces
        PROVE  /\ total'[x] = Logged(log', x, Scopes \cup {NoScope})
               /\ \A y \in Scopes : scoped'[<<x, y>>] = Logged(log', x, {y})
    <2>1. total'[x] = IF x = t THEN 0 ELSE total[x]
        BY <1>1
    <2>2. \A y \in Scopes : scoped'[<<x, y>>] = IF x = t THEN 0 ELSE scoped[<<x, y>>]
        BY <1>1
    <2>3. \A S : Logged(log', x, S) = IF x = t THEN 0 ELSE Logged(log, x, S)
        BY <1>2
    <2> QED BY <1>3, <2>1, <2>2, <2>3
  <1> QED BY <1>4 DEF TotalsAreExact, LoggedFor, Logged, ValuesOf

---------------------------------------------------------------------------
\* The keys are in the order of the log, and the totals are its sums.
LogInv == InOrder /\ TotalsAreExact

LEMMA LogInvariance == Spec => []LogInv
  <1>1. Init => LogInv
    <2> SUFFICES ASSUME Init PROVE LogInv
        OBVIOUS
    <2>1. Len(lru) = 0 /\ Len(log) = 0
        BY EmptySeq DEF Init
    <2>2. ASSUME NEW t, NEW S PROVE LoggedFor(t, S) = 0
      <3> DEFINE f == [i \in DOMAIN log |-> IF log[i].trace = t /\ log[i].scope \in S THEN log[i].usage
                                            ELSE 0]
      <3>1. SumTo(f, 0) = 0
        <4> HIDE DEF f
        <4> QED BY SumToSteps
      <3> QED BY <2>1, <3>1 DEF LoggedFor
    <2> QED BY <2>1, <2>2 DEF Init, LogInv, InOrder, TotalsAreExact
  <1>2. ASSUME IInv, LogInv, [Next]_vars PROVE LogInv'
    <2>1. ASSUME NEW c \in Tasks, NEW t, NEW s, CheckInput(c, t, s) \/ CallFails(c)
          PROVE  LogInv'
      <3>1. UNCHANGED <<tracker, log>>
          BY <2>1 DEF CheckInput, CallFails
      <3> QED BY <1>2, <3>1 DEF tracker, LogInv, InOrder, Before, TotalsAreExact, LoggedFor
    <2>2. ASSUME NEW c \in Tasks, NEW u \in 0 .. MaxUsage, CheckOutput(c, u)
          PROVE  LogInv'
      <3>1. call[c].trace \in Traces /\ call[c].scope \in Scopes \cup {NoScope}
        <4>1. call[c] \in Spans
            BY <1>2, <2>2 DEF CheckOutput, IInv, TypeOK
        <4> QED BY <4>1 DEF Spans
      <3>2. Record(call[c].trace, call[c].scope, u)
          BY <2>2 DEF CheckOutput
      <3> QED BY <1>2, <3>1, <3>2, RecordOrder, RecordExact DEF LogInv, IInv
    <2>3. ASSUME NEW t \in Traces, EndTrace(t) PROVE LogInv'
        BY <1>2, <2>3, EndTraceOrder, EndTraceExact DEF LogInv, IInv
    <2>4. CASE UNCHANGED vars
        BY <1>2, <2>4 DEF vars, tracker, LogInv, InOrder, Before, TotalsAreExact, LoggedFor
    <2> QED BY <1>2, <2>1, <2>2, <2>3, <2>4 DEF Next
  <1> QED BY <1>1, <1>2, Invariance, PTL DEF Spec

---------------------------------------------------------------------------
(* The theorems.                                                           *)

\* The tracker's totals are numbers and its keys are distinct, whatever
\* calls and trace ends interleave (cost_tracker.py).
THEOREM TypeCorrect == Spec => []TypeOK
  <1> QED BY Invariance, PTL DEF IInv

\* The tracker never keeps more than max_traces traces, and neither a total
\* nor a scope of any other (cost_tracker.py record, _touch_trace,
\* end_trace).
THEOREM MemoryIsBounded == Spec => []BoundedMemory
  <1> QED BY Invariance, PTL DEF IInv

\* However many tasks share a trace, a budget is overshot by no more than
\* MaxUsage for each of the calls that were ever in flight together
\* (govern.py check_input, check_output).
THEOREM OvershootIsBounded == Spec => []OvershootIsInFlight
  <1>1. IInv => OvershootIsInFlight
    <2> SUFFICES ASSUME IInv, NEW t \in Traces
                 PROVE  total[t] <= Budget - 1 + MaxUsage * peak[t]
        BY DEF OvershootIsInFlight
    <2>1. InFlight(t) \subseteq Tasks
        BY DEF InFlight
    <2>2. Cardinality(InFlight(t)) \in Nat
        BY <2>1, FS_Subset, FS_CardinalityType
    <2>3. total[t] \in Nat /\ peak[t] \in Nat
          /\ total[t] + MaxUsage * Cardinality(InFlight(t)) <= Budget - 1 + MaxUsage * peak[t]
        BY DEF IInv, TypeOK, Committed
    <2>4. MaxUsage * Cardinality(InFlight(t)) \in Nat /\ MaxUsage * peak[t] \in Nat
        BY <2>2, <2>3, Multiples
    <2> QED BY <2>3, <2>4
  <1> QED BY Invariance, <1>1, PTL

\* The totals Cedar is shown are the sums of what was recorded since they
\* were last dropped, for traces and scopes, in any order of records, trace
\* ends and evictions (cost_tracker.py record, end_trace, _touch_trace).
THEOREM TotalsAreSums == Spec => []TotalsAreExact
  <1> QED BY LogInvariance, PTL DEF LogInv

\* A step that makes room drops the trace recorded longest ago, however many
\* traces are kept (_touch_trace).
THEOREM LeastRecentIsEvicted == Spec => EvictsLeastRecent
  <1>1. ASSUME IInv, LogInv, [Next]_vars
        PROVE  [ToSet(lru') \ ToSet(lru) # {} =>
                  \A t \in ToSet(lru) \ ToSet(lru') :
                      \A u \in ToSet(lru) \cap ToSet(lru') : LastRecord(t) < LastRecord(u)]_vars
      BY <1>1, DropsLeastRecent DEF LogInv
  <1> QED BY <1>1, Invariance, LogInvariance, PTL DEF Spec, EvictsLeastRecent
================================================================================
