------------------------- MODULE SubsequencesProofs -------------------------
(***************************************************************************)
(* What is at the places of a subsequence, and what sums add up to, for    *)
(* sequences of any length.  Nothing here is by induction on data, which   *)
(* the provers cannot instantiate: the least place with some property is   *)
(* the first of those that have it (Enumeration), and a recursive function *)
(* that failed somewhere would fail at a least place.                      *)
(***************************************************************************)
EXTENDS Subsequences, FiniteSetTheorems, TLAPS

\* The places of a subsequence are counted up, each once.
LEMMA Enumeration ==
    ASSUME NEW m \in Nat, NEW K \in SUBSET (1 .. m)
    PROVE  /\ Cardinality(K) \in 0 .. m
           /\ Cardinality(K) = m => K = 1 .. m
           /\ \A n \in 1 .. Cardinality(K) :
                 Nth(K, n) \in K /\ Cardinality({j \in K : j <= Nth(K, n)}) = n
           /\ \A i \in K : \E n \in 1 .. Cardinality(K) : Nth(K, n) = i
           /\ \A n, o \in 1 .. Cardinality(K) : n < o => Nth(K, n) < Nth(K, o)
  <1> DEFINE upto(i) == {j \in K : j <= i}
             rank == [i \in K |-> Cardinality(upto(i))]
             k == Cardinality(K)
  <1>1. /\ IsFiniteSet(1 .. m) /\ Cardinality(1 .. m) = m
        /\ IsFiniteSet(K) /\ k \in Nat /\ k <= m /\ (k = m => K = 1 .. m)
    <2>1. IsFiniteSet(1 .. m) /\ Cardinality(1 .. m) = m
        BY FS_Interval
    <2>2. IsFiniteSet(K) /\ k <= m /\ (m = k => 1 .. m = K)
        BY <2>1, FS_Subset
    <2> QED BY <2>1, <2>2, FS_CardinalityType
  <1>2. ASSUME NEW i \in K
        PROVE  /\ IsFiniteSet(upto(i)) /\ Cardinality(upto(i)) \in 1 .. k
    <2>1. IsFiniteSet(upto(i)) /\ Cardinality(upto(i)) <= k
        BY <1>1, FS_Subset
    <2>2. i \in upto(i)
        OBVIOUS
    <2>3. Cardinality(upto(i)) \in Nat /\ Cardinality(upto(i)) # 0
        BY <2>1, <2>2, FS_CardinalityType, FS_EmptySet
    <2> QED BY <1>1, <2>1, <2>3
  <1>3. ASSUME NEW i \in K, NEW j \in K, i < j
        PROVE  Cardinality(upto(i)) < Cardinality(upto(j))
    <2>1. IsFiniteSet(upto(j) \ {j}) /\ Cardinality(upto(j) \ {j}) = Cardinality(upto(j)) - 1
      <3>1. j \in upto(j) /\ IsFiniteSet(upto(j))
          BY <1>2
      <3> HIDE DEF upto
      <3> QED BY <3>1, FS_RemoveElement
    <2>2. upto(i) \in SUBSET (upto(j) \ {j})
      <3>1. ASSUME NEW x \in K, x <= i PROVE x <= j /\ x # j
        <4>1. i \in Int /\ j \in Int /\ x \in Int
            OBVIOUS
        <4> QED BY <1>3, <3>1, <4>1
      <3> QED BY <3>1 DEF upto
    <2>3. Cardinality(upto(i)) <= Cardinality(upto(j) \ {j})
      <3> HIDE DEF upto
      <3> QED BY <2>1, <2>2, FS_Subset
    <2>4. Cardinality(upto(i)) \in 1 .. k /\ Cardinality(upto(j)) \in 1 .. k
        BY <1>2
    <2> QED BY <1>1, <2>1, <2>3, <2>4
  <1>4. rank \in [K -> 1 .. k]
      BY <1>2
  <1>5. \A i, j \in K : i # j => rank[i] # rank[j]
    <2> SUFFICES ASSUME NEW i \in K, NEW j \in K, i # j PROVE rank[i] # rank[j]
        OBVIOUS
    <2>1. i < j \/ j < i
        OBVIOUS
    <2>2. rank[i] \in 1 .. k /\ rank[j] \in 1 .. k
        BY <1>4
    <2>3. rank[i] = Cardinality(upto(i)) /\ rank[j] = Cardinality(upto(j))
        OBVIOUS
    <2> HIDE DEF upto, rank
    <2> QED BY <1>1, <1>3, <2>1, <2>2, <2>3
  <1>6. \A n \in 1 .. k : \E i \in K : rank[i] = n
    <2> HIDE DEF rank
    <2>1. rank \in Injection(K, 1 .. k)
        BY <1>4, <1>5 DEF Injection, IsInjective
    <2>2. IsFiniteSet(1 .. k) /\ Cardinality(1 .. k) = k
        BY <1>1, FS_Interval
    <2>3. rank \in Surjection(K, 1 .. k)
        BY <2>1, <2>2, FS_Injection
    <2> QED BY <2>3 DEF Surjection
  <1>7. \A n \in 1 .. k : Nth(K, n) \in K /\ rank[Nth(K, n)] = n
    <2> SUFFICES ASSUME NEW n \in 1 .. k PROVE Nth(K, n) \in K /\ rank[Nth(K, n)] = n
        OBVIOUS
    <2>1. \E i \in K : Cardinality(upto(i)) = n
        BY <1>6
    <2>2. Nth(K, n) \in K /\ Cardinality(upto(Nth(K, n))) = n
        BY <2>1 DEF Nth
    <2> QED BY <2>2
  <1>8. ASSUME NEW i \in K PROVE \E n \in 1 .. k : Nth(K, n) = i
    <2> HIDE DEF rank
    <2>1. rank[i] \in 1 .. k
        BY <1>4
    <2>2. Nth(K, rank[i]) \in K /\ rank[Nth(K, rank[i])] = rank[i]
        BY <1>7, <2>1
    <2> QED BY <1>5, <2>1, <2>2
  <1>9. ASSUME NEW n \in 1 .. k, NEW o \in 1 .. k, n < o PROVE Nth(K, n) < Nth(K, o)
    <2> DEFINE a == Nth(K, n) b == Nth(K, o)
    <2>1. a \in K /\ b \in K /\ rank[a] = n /\ rank[b] = o
        BY <1>7
    <2>2. rank[a] = Cardinality(upto(a)) /\ rank[b] = Cardinality(upto(b))
        BY <2>1
    <2> HIDE DEF rank, a, b, upto
    <2>3. a # b
        BY <1>9, <2>1
    <2>4. ~(b < a)
        BY <1>1, <1>3, <1>9, <2>1, <2>2
    <2>5. a \in Int /\ b \in Int
        BY <2>1
    <2> QED BY <2>3, <2>4, <2>5 DEF a, b
  <1>10. k \in 0 .. m
      BY <1>1
  <1>11. \A n \in 1 .. k : Nth(K, n) \in K /\ Cardinality({j \in K : j <= Nth(K, n)}) = n
      BY <1>7
  <1> HIDE DEF upto, rank
  <1> QED BY <1>1, <1>8, <1>9, <1>10, <1>11

\* All places of a sequence are in their own place.
LEMMA EnumerationOfAll == ASSUME NEW m \in Nat, NEW n \in 1 .. m PROVE Nth(1 .. m, n) = n
  <1> DEFINE upto(i) == {j \in 1 .. m : j <= i}
  <1>1. ASSUME NEW i \in 1 .. m PROVE Cardinality(upto(i)) = i
    <2>1. upto(i) = 1 .. i
        OBVIOUS
    <2>2. Cardinality(1 .. i) = i
        BY FS_Interval
    <2> HIDE DEF upto
    <2> QED BY <2>1, <2>2
  <1>2. Nth(1 .. m, n) = CHOOSE i \in 1 .. m : Cardinality(upto(i)) = n
      BY DEF Nth
  <1> HIDE DEF upto
  <1> QED BY <1>1, <1>2

\* Some places, if there are any, have a first and a last.
LEMMA FirstAndLast ==
    ASSUME NEW m \in Nat, NEW K \in SUBSET (1 .. m), K # {}
    PROVE  /\ \E i \in K : \A j \in K : i <= j
           /\ \E i \in K : \A j \in K : j <= i
  <1> DEFINE k == Cardinality(K)
  <1>1. /\ k \in 0 .. m
        /\ \A n \in 1 .. k : Nth(K, n) \in K
        /\ \A i \in K : \E n \in 1 .. k : Nth(K, n) = i
        /\ \A n, o \in 1 .. k : n < o => Nth(K, n) < Nth(K, o)
      BY Enumeration
  <1> HIDE DEF k
  <1>2. 1 \in 1 .. k /\ k \in 1 .. k
    <2>1. PICK i \in K : TRUE
        OBVIOUS
    <2>2. PICK n \in 1 .. k : Nth(K, n) = i
        BY <1>1, <2>1
    <2> QED BY <1>1, <2>2
  <1>3. \A j \in K : j \in Int
      OBVIOUS
  <1>4. ASSUME NEW j \in K PROVE Nth(K, 1) <= j /\ j <= Nth(K, k)
    <2>1. PICK n \in 1 .. k : Nth(K, n) = j
        BY <1>1
    <2>2. (n = 1 \/ Nth(K, 1) < Nth(K, n)) /\ (n = k \/ Nth(K, n) < Nth(K, k))
        BY <1>1, <1>2
    <2>3. Nth(K, 1) \in Int /\ Nth(K, k) \in Int /\ j \in Int
        BY <1>1, <1>2, <1>3
    <2> QED BY <2>1, <2>2, <2>3
  <1>5. Nth(K, 1) \in K /\ Nth(K, k) \in K
      BY <1>1, <1>2
  <1> QED BY <1>4, <1>5

-----------------------------------------------------------------------------
(* Sums.                                                                   *)

\* g is the function SumTo(f, m) is taken from.
Adds(g, f, m) == g = [i \in 0 .. m |-> IF i = 0 THEN 0 ELSE g[i - 1] + f[i]]

LEMMA AddsOnce ==
    ASSUME NEW m \in Nat, NEW f, NEW e, \A i \in 1 .. m : f[i] = e[i],
           NEW g, NEW h, Adds(g, f, m), Adds(h, e, m)
    PROVE  g = h
  <1> DEFINE K == {i \in 1 .. m : g[i] # h[i]}
  <1>1. /\ g[0] = 0 /\ \A i \in 1 .. m : g[i] = g[i - 1] + f[i]
        /\ h[0] = 0 /\ \A i \in 1 .. m : h[i] = h[i - 1] + e[i]
      BY DEF Adds
  <1>2. ASSUME K # {} PROVE FALSE
    <2>1. PICK i \in K : \A j \in K : i <= j
        BY <1>2, FirstAndLast
    <2>2. i \in 1 .. m /\ g[i] # h[i]
        OBVIOUS
    <2>3. g[i - 1] = h[i - 1]
      <3>1. CASE i = 1
          BY <1>1, <3>1
      <3>2. CASE i # 1
        <4>1. i - 1 \in 1 .. m /\ ~(i <= i - 1)
            BY <2>2, <3>2
        <4> QED BY <2>1, <4>1
      <3> QED BY <3>1, <3>2
    <2> QED BY <1>1, <2>2, <2>3
  <1>3. \A i \in 0 .. m : g[i] = h[i]
      BY <1>1, <1>2
  <1>4. g = [i \in 0 .. m |-> g[i]] /\ h = [i \in 0 .. m |-> h[i]]
      BY DEF Adds
  <1> QED BY <1>3, <1>4

LEMMA AddsSome ==
    ASSUME NEW m \in Nat, NEW f
    PROVE  \E g : Adds(g, f, m)
  <1> DEFINE K == {i \in 1 .. m : ~ \E g : Adds(g, f, i)}
  <1>1. \E g : Adds(g, f, 0)
    <2>1. Adds([i \in 0 .. 0 |-> 0], f, 0)
        BY DEF Adds
    <2> QED BY <2>1
  <1>2. ASSUME NEW n \in Nat, NEW g, Adds(g, f, n) PROVE \E h : Adds(h, f, n + 1)
    <2> DEFINE h == [i \in 0 .. n + 1 |-> IF i = n + 1 THEN g[n] + f[n + 1] ELSE g[i]]
    <2>1. ASSUME NEW i \in 0 .. n + 1
          PROVE  h[i] = IF i = 0 THEN 0 ELSE h[i - 1] + f[i]
      <3>1. CASE i = 0
          BY <1>2, <3>1 DEF Adds
      <3>2. CASE i = n + 1
        <4>1. n \in 0 .. n + 1 /\ n # n + 1 /\ n + 1 \in 0 .. n + 1 /\ n + 1 # 0
            OBVIOUS
        <4> QED BY <3>2, <4>1
      <3>3. CASE i \in 1 .. n
        <4>1. i - 1 \in 0 .. n + 1 /\ i - 1 # n + 1 /\ i # n + 1 /\ i # 0 /\ i \in 0 .. n
            BY <3>3
        <4>2. g[i] = g[i - 1] + f[i]
            BY <1>2, <4>1 DEF Adds
        <4> QED BY <4>1, <4>2
      <3> QED BY <3>1, <3>2, <3>3
    <2>2. h = [i \in 0 .. n + 1 |-> IF i = 0 THEN 0 ELSE h[i - 1] + f[i]]
        BY <2>1
    <2> QED BY <2>2 DEF Adds
  <1>3. ASSUME K # {} PROVE FALSE
    <2>1. PICK i \in K : \A j \in K : i <= j
        BY <1>3, FirstAndLast
    <2>2. i \in 1 .. m /\ i - 1 \in Nat /\ (i - 1) + 1 = i
        OBVIOUS
    <2>3. \E g : Adds(g, f, i - 1)
      <3>1. CASE i = 1
          BY <1>1, <3>1
      <3>2. CASE i # 1
        <4>1. i - 1 \in 1 .. m /\ ~(i <= i - 1)
            BY <2>2, <3>2
        <4> QED BY <2>1, <4>1
      <3> QED BY <3>1, <3>2
    <2>4. \E h : Adds(h, f, i)
        BY <1>2, <2>2, <2>3
    <2> QED BY <2>4
  <1> QED BY <1>1, <1>3

LEMMA SumToAdds ==
    ASSUME NEW m \in Nat, NEW f, NEW g, Adds(g, f, m)
    PROVE  SumTo(f, m) = g[m]
  <1> DEFINE c == CHOOSE h : h = [i \in 0 .. m |-> IF i = 0 THEN 0 ELSE h[i - 1] + f[i]]
  <1>1. SumTo(f, m) = c[m]
      BY DEF SumTo
  <1>2. c = [i \in 0 .. m |-> IF i = 0 THEN 0 ELSE c[i - 1] + f[i]]
      BY DEF Adds
  <1> HIDE DEF c
  <1>3. Adds(c, f, m)
      BY <1>2 DEF Adds
  <1>4. c = g
      BY <1>3, AddsOnce
  <1> QED BY <1>1, <1>4

\* A sum is the sum before the last value, and that value.
LEMMA SumToSteps ==
    ASSUME NEW m \in Nat, NEW f, \A i \in 1 .. m : f[i] \in Nat
    PROVE  /\ SumTo(f, 0) = 0
           /\ \A n \in 1 .. m : SumTo(f, n) = SumTo(f, n - 1) + f[n]
           /\ \A n \in 0 .. m : SumTo(f, n) \in Nat
  <1>1. PICK g : Adds(g, f, m)
      BY AddsSome
  <1>2. g[0] = 0 /\ \A i \in 1 .. m : g[i] = g[i - 1] + f[i]
      BY <1>1 DEF Adds
  <1>3. ASSUME NEW n \in 0 .. m PROVE SumTo(f, n) = g[n]
    <2> DEFINE h == [i \in 0 .. n |-> g[i]]
    <2>1. ASSUME NEW i \in 0 .. n PROVE h[i] = IF i = 0 THEN 0 ELSE h[i - 1] + f[i]
      <3>1. CASE i = 0
          BY <1>2, <3>1
      <3>2. CASE i # 0
        <4>1. i \in 1 .. m /\ i - 1 \in 0 .. n
            BY <3>2
        <4> QED BY <1>2, <3>2, <4>1
      <3> QED BY <3>1, <3>2
    <2>2. Adds(h, f, n)
        BY <2>1 DEF Adds
    <2>3. SumTo(f, n) = h[n]
      <3> HIDE DEF h
      <3> QED BY <2>2, SumToAdds
    <2> QED BY <2>3
  <1>4. \A n \in 0 .. m : g[n] \in Nat
    <2> DEFINE K == {i \in 1 .. m : g[i] \notin Nat}
    <2>1. ASSUME K # {} PROVE FALSE
      <3>1. PICK i \in K : \A j \in K : i <= j
          BY <2>1, FirstAndLast
      <3>2. g[i - 1] \in Nat
        <4>1. CASE i = 1
            BY <1>2, <4>1
        <4>2. CASE i # 1
          <5>1. i - 1 \in 1 .. m /\ ~(i <= i - 1)
              BY <4>2
          <5> QED BY <3>1, <5>1
        <4> QED BY <4>1, <4>2
      <3>3. i \in 1 .. m /\ g[i] \notin Nat /\ f[i] \in Nat /\ g[i] = g[i - 1] + f[i]
          BY <1>2
      <3> QED BY <3>2, <3>3
    <2> QED BY <1>2, <2>1
  <1>5. ASSUME NEW n \in 1 .. m PROVE SumTo(f, n) = SumTo(f, n - 1) + f[n]
    <2>1. n \in 0 .. m /\ n - 1 \in 0 .. m
        OBVIOUS
    <2> QED BY <1>2, <1>3, <2>1
  <1> QED BY <1>2, <1>3, <1>4, <1>5

\* Equal values have an equal sum.
LEMMA SumToSame ==
    ASSUME NEW m \in Nat, NEW f, NEW e, \A i \in 1 .. m : f[i] = e[i]
    PROVE  SumTo(f, m) = SumTo(e, m)
  <1>1. PICK g, h : Adds(g, f, m) /\ Adds(h, e, m)
      BY AddsSome
  <1>2. g = h
      BY <1>1, AddsOnce
  <1> QED BY <1>1, <1>2, SumToAdds

\* Nothing adds up to nothing.
LEMMA SumOfNothing ==
    ASSUME NEW m \in Nat, NEW f, \A i \in 1 .. m : f[i] = 0
    PROVE  SumTo(f, m) = 0
  <1> DEFINE A == {n \in 1 .. m : SumTo(f, n) # 0}
  <1>1. SumTo(f, 0) = 0 /\ \A n \in 1 .. m : SumTo(f, n) = SumTo(f, n - 1) + f[n]
    <2>1. \A i \in 1 .. m : f[i] \in Nat
        OBVIOUS
    <2> QED BY <2>1, SumToSteps
  <1>2. ASSUME A # {} PROVE FALSE
    <2>1. PICK n \in A : \A j \in A : n <= j
        BY <1>2, FirstAndLast
    <2>2. n \in 1 .. m /\ SumTo(f, n) # 0
        OBVIOUS
    <2>3. CASE n = 1
        BY <1>1, <2>2, <2>3
    <2>4. CASE n # 1
      <3>1. n - 1 \in 1 .. m /\ ~(n <= n - 1)
          BY <2>2, <2>4
      <3>2. SumTo(f, n - 1) = 0
          BY <2>1, <3>1
      <3> QED BY <1>1, <2>2, <3>2
    <2> QED BY <2>3, <2>4
  <1>3. \A n \in 1 .. m : SumTo(f, n) = 0
      BY <1>2
  <1> QED BY <1>1, <1>3

\* The values that are not at some places add nothing: the sum is that of a
\* subsequence.
LEMMA SumOfPlaces ==
    ASSUME NEW m \in Nat, NEW K \in SUBSET (1 .. m), NEW f, \A i \in 1 .. m : f[i] \in Nat,
           \A i \in (1 .. m) \ K : f[i] = 0,
           NEW e, \A n \in 1 .. Cardinality(K) : e[n] = f[Nth(K, n)]
    PROVE  SumTo(f, m) = SumTo(e, Cardinality(K))
  <1> DEFINE k == Cardinality(K)
             upto(n) == {j \in K : j <= n}
             c(n) == Cardinality(upto(n))
  <1>1. /\ k \in 0 .. m
        /\ \A n \in 1 .. k : Nth(K, n) \in K /\ c(Nth(K, n)) = n
        /\ \A i \in K : \E n \in 1 .. k : Nth(K, n) = i
      BY Enumeration
  <1>2. \A n \in 1 .. k : e[n] \in Nat
      BY <1>1
  <1>3. /\ SumTo(f, 0) = 0
        /\ \A n \in 1 .. m : SumTo(f, n) = SumTo(f, n - 1) + f[n]
      BY SumToSteps
  <1>4. /\ SumTo(e, 0) = 0
        /\ \A n \in 1 .. k : SumTo(e, n) = SumTo(e, n - 1) + e[n]
      BY <1>1, <1>2, SumToSteps
  <1>0. \A j \in K : j \in Int /\ 1 <= j /\ j <= m
      OBVIOUS
  <1>5. c(0) = 0 /\ c(m) = k
    <2>1. upto(0) = {}
      <3>1. \A j \in K : ~(j <= 0)
          BY <1>0
      <3> QED BY <3>1
    <2>2. upto(m) = K
        BY <1>0
    <2> QED BY <2>1, <2>2, FS_EmptySet
  <1>6. ASSUME NEW n \in (1 .. m) \ K PROVE c(n) = c(n - 1)
    <2>1. \A j \in K : j <= n <=> j <= n - 1
      <3> SUFFICES ASSUME NEW j \in K PROVE j <= n <=> j <= n - 1
          OBVIOUS
      <3>1. j # n /\ n \in Int
          OBVIOUS
      <3> QED BY <1>0, <3>1
    <2>2. upto(n) = upto(n - 1)
        BY <2>1
    <2> QED BY <2>2
  <1>7. ASSUME NEW n \in K PROVE c(n) \in 1 .. k /\ c(n) = c(n - 1) + 1 /\ e[c(n)] = f[n]
    <2>1. c(n) \in 1 .. k /\ Nth(K, c(n)) = n
        BY <1>1
    <2>2. IsFiniteSet(upto(n)) /\ n \in upto(n)
      <3>1. IsFiniteSet(1 .. m)
          BY FS_Interval
      <3>2. upto(n) \in SUBSET (1 .. m)
          OBVIOUS
      <3> QED BY <3>1, <3>2, FS_Subset
    <2>3. upto(n - 1) = upto(n) \ {n}
      <3>1. \A j \in K : j <= n - 1 <=> j <= n /\ j # n
          BY <1>0
      <3> QED BY <3>1
    <2>4. c(n - 1) = c(n) - 1
      <3> HIDE DEF upto
      <3> QED BY <2>2, <2>3, FS_RemoveElement
    <2> HIDE DEF c
    <2> QED BY <1>1, <2>1, <2>4
  <1>11. \A n \in 0 .. m : c(n) \in Nat
    <2> SUFFICES ASSUME NEW n \in 0 .. m PROVE c(n) \in Nat
        OBVIOUS
    <2>1. IsFiniteSet(1 .. m)
        BY FS_Interval
    <2>2. upto(n) \in SUBSET (1 .. m)
        OBVIOUS
    <2>3. IsFiniteSet(upto(n))
      <3> HIDE DEF upto
      <3> QED BY <2>1, <2>2, FS_Subset
    <2> HIDE DEF upto
    <2> QED BY <2>3, FS_CardinalityType
  <1> HIDE DEF c, k
  <1> DEFINE A == {n \in 1 .. m : SumTo(f, n) # SumTo(e, c(n))}
  <1>8. ASSUME A # {} PROVE FALSE
    <2>1. PICK n \in A : \A j \in A : n <= j
        BY <1>8, FirstAndLast
    <2>2. n \in 1 .. m /\ SumTo(f, n) # SumTo(e, c(n))
        OBVIOUS
    <2>3. SumTo(f, n - 1) = SumTo(e, c(n - 1))
      <3>1. CASE n = 1
        <4>1. n - 1 = 0
            BY <3>1
        <4> QED BY <1>3, <1>4, <1>5, <4>1
      <3>2. CASE n # 1
        <4>1. n - 1 \in 1 .. m /\ ~(n <= n - 1)
            BY <2>2, <3>2
        <4> QED BY <2>1, <4>1
      <3> QED BY <3>1, <3>2
    <2>4. CASE n \in K
      <3>1. c(n) \in 1 .. k /\ c(n) - 1 = c(n - 1) /\ e[c(n)] = f[n]
        <4>1. c(n) \in 1 .. k /\ c(n) = c(n - 1) + 1 /\ e[c(n)] = f[n]
            BY <1>7, <2>4
        <4>2. c(n - 1) \in Nat
          <5>1. n - 1 \in 0 .. m
              BY <2>2
          <5> QED BY <1>11, <5>1
        <4> QED BY <4>1, <4>2
      <3>2. SumTo(e, c(n)) = SumTo(e, c(n - 1)) + f[n]
          BY <1>4, <3>1
      <3> QED BY <1>3, <2>2, <2>3, <3>2
    <2>5. CASE n \notin K
      <3>1. SumTo(f, n) = SumTo(f, n - 1) + 0
          BY <1>3, <2>2, <2>5
      <3>2. SumTo(f, n - 1) \in Nat
        <4>1. n - 1 \in 0 .. m
            BY <2>2
        <4> QED BY <4>1, SumToSteps
      <3> QED BY <1>6, <2>2, <2>3, <2>5, <3>1, <3>2
    <2> QED BY <2>4, <2>5
  <1>9. ASSUME m = 0 PROVE SumTo(f, m) = SumTo(e, k)
      BY <1>3, <1>4, <1>5, <1>9 DEF k
  <1>10. ASSUME m # 0 PROVE SumTo(f, m) = SumTo(e, k)
    <2>1. m \in 1 .. m
        BY <1>10
    <2>2. SumTo(f, m) = SumTo(e, c(m))
        BY <1>8, <2>1
    <2> QED BY <1>5, <2>2
  <1>12. SumTo(f, m) = SumTo(e, k)
      BY <1>5, <1>9, <1>10
  <1> QED BY <1>12 DEF k
=============================================================================
