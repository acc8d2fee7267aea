----------------------------- MODULE DataLemmas -----------------------------
(***************************************************************************)
(* Facts about numbers and sequences that the proofs of several components *)
(* need.  Induction is stated over sets, not over predicates: a property P *)
(* of numbers is used as the set of the numbers that have it.              *)
(***************************************************************************)
EXTENDS Integers, Sequences, SequenceTheorems, FiniteSetTheorems, WellFoundedInduction, TLAPS

LessOnNat == {pair \in Nat \X Nat : pair[1] < pair[2]}

\* No sequence of numbers goes down for ever.
LEMMA LessOnNatWellFounded == IsWellFoundedOn(LessOnNat, Nat)
BY NatLessThanWellFounded DEF OpToRel, LessOnNat

\* Every set of numbers has a least one.
LEMMA LeastNumber ==
    ASSUME NEW T, T \subseteq Nat, T # {}
    PROVE  \E m \in T : \A k \in T : m <= k
<1>1. PICK m \in T : \A k \in T : <<k, m>> \notin LessOnNat
  BY LessOnNatWellFounded, WFMin, Zenon
<1>2. \A k \in T : ~(k < m)
  BY <1>1 DEF LessOnNat
<1>3. QED
  BY <1>2

\* Induction: a set with 0 and the successor of each of its numbers has all.
LEMMA NumberInduction ==
    ASSUME NEW T, 0 \in T, \A n \in Nat : n \in T => n + 1 \in T
    PROVE  Nat \subseteq T
<1> DEFINE Missing == Nat \ T
<1>1. SUFFICES ASSUME Missing # {} PROVE FALSE
  OBVIOUS
<1>2. PICK m \in Missing : \A k \in Missing : m <= k
  BY <1>1, LeastNumber
<1>3. m # 0 /\ m - 1 \in Nat /\ m - 1 \notin Missing
  BY <1>2
<1>4. (m - 1) + 1 \in T
  BY <1>3
<1>5. QED
  BY <1>2, <1>3, <1>4

\* Every set of numbers with a bound has a greatest one.
LEMMA GreatestNumber ==
    ASSUME NEW a \in Int, NEW b \in Int, NEW T, T \subseteq a..b, T # {}
    PROVE  \E m \in T : \A k \in T : m >= k
<1> DEFINE Under == {n \in Nat : b - n \in T}
<1>1. Under \subseteq Nat
  OBVIOUS
<1>2. Under # {}
  <2>1. PICK k \in T : k \in a..b
    OBVIOUS
  <2>2. b - k \in Nat /\ b - (b - k) = k
    BY <2>1
  <2>3. QED
    BY <2>2
<1> HIDE DEF Under
<1>3. PICK u \in Under : \A n \in Under : u <= n
  BY <1>1, <1>2, LeastNumber
<1>4. u \in Nat /\ b - u \in T
  BY <1>3 DEF Under
<1>5. ASSUME NEW k \in T PROVE b - u >= k
  <2>1. k \in a..b /\ b - k \in Nat /\ b - (b - k) = k
    OBVIOUS
  <2>2. b - k \in Under
    BY <2>1 DEF Under
  <2>3. QED
    BY <1>3, <1>4, <2>1, <2>2
<1>6. QED
  BY <1>4, <1>5

\* What is repeated may be repeated any number of times.
Repeats(f, S, a, step) == f \in [Nat -> S] /\ f[0] = a /\ \A n \in Nat : f[n + 1] = step[f[n]]

LEMMA Repeated ==
    ASSUME NEW S, NEW a \in S, NEW step \in [S -> S]
    PROVE  \E f : Repeats(f, S, a, step)
<1> USE DEF Repeats
<1> DEFINE Starts(n, g) == g[0] = a /\ \A i \in Nat : i < n => g[i + 1] = step[g[i]]
           Long == {n \in Nat : \E g \in [0..n -> S] : Starts(n, g)}
<1>1. 0 \in Long
  <2>1. [i \in 0..0 |-> a] \in [0..0 -> S] /\ Starts(0, [i \in 0..0 |-> a])
    OBVIOUS
  <2>2. QED
    BY <2>1
<1>2. ASSUME NEW n \in Nat, n \in Long PROVE n + 1 \in Long
  <2>1. PICK g \in [0..n -> S] : Starts(n, g)
    BY <1>2
  <2> DEFINE h == [i \in 0..(n + 1) |-> IF i <= n THEN g[i] ELSE step[g[n]]]
  <2>2. g[n] \in S /\ step[g[n]] \in S
    OBVIOUS
  <2>3. h \in [0..(n + 1) -> S]
    <3>1. \A i \in 0..(n + 1) : (IF i <= n THEN g[i] ELSE step[g[n]]) \in S
      BY <2>2
    <3>2. QED
      BY <3>1
  <2>4. h[0] = a
    BY <2>1
  <2>5. ASSUME NEW i \in Nat, i < n + 1 PROVE h[i + 1] = step[h[i]]
    <3>1. h[i] = g[i]
      BY <2>5
    <3>2. CASE i < n
      <4>1. h[i + 1] = g[i + 1] /\ g[i + 1] = step[g[i]]
        BY <2>1, <3>2
      <4>2. QED
        BY <3>1, <4>1
    <3>3. CASE i = n
      <4>1. h[i + 1] = step[g[n]]
        BY <3>3
      <4>2. QED
        BY <3>1, <3>3, <4>1
    <3>4. QED
      BY <2>5, <3>2, <3>3
  <2> HIDE DEF h
  <2>6. QED
    BY <2>3, <2>4, <2>5
<1>3. Nat \subseteq Long
  <2> HIDE DEF Long
  <2>1. QED
    BY <1>1, <1>2, NumberInduction
<1> DEFINE G == [n \in Nat |-> CHOOSE g \in [0..n -> S] : Starts(n, g)]
<1>4. \A n \in Nat : G[n] \in [0..n -> S] /\ Starts(n, G[n])
  BY <1>3
<1> HIDE DEF G, Long
<1>5. \A n, m \in Nat : n <= m => G[m][n] = G[n][n]
  <2> DEFINE Alike == {n \in Nat : \A k, m \in Nat : n <= k /\ n <= m => G[m][n] = G[k][n]}
  <2>1. 0 \in Alike
    BY <1>4
  <2>2. ASSUME NEW n \in Nat, n \in Alike PROVE n + 1 \in Alike
    <3> SUFFICES ASSUME NEW k \in Nat, NEW m \in Nat, n + 1 <= k, n + 1 <= m PROVE G[m][n + 1] = G[k][n + 1]
      OBVIOUS
    <3>1. n < k /\ n < m
      OBVIOUS
    <3>2. G[m][n + 1] = step[G[m][n]] /\ G[k][n + 1] = step[G[k][n]]
      BY <1>4, <3>1
    <3>3. G[m][n] = G[k][n]
      BY <2>2, <3>1
    <3>4. QED
      BY <3>2, <3>3
  <2>3. Nat \subseteq Alike
    <3> HIDE DEF Alike
    <3>1. QED
      BY <2>1, <2>2, NumberInduction
  <2>4. QED
    BY <2>3
<1> DEFINE f == [n \in Nat |-> G[n][n]]
<1>6. f \in [Nat -> S]
  BY <1>4
<1>7. f[0] = a
  BY <1>4
<1>8. ASSUME NEW n \in Nat PROVE f[n + 1] = step[f[n]]
  <2>1. f[n + 1] = G[n + 1][n + 1] /\ f[n] = G[n][n]
    OBVIOUS
  <2>2. n < n + 1 /\ G[n + 1][n + 1] = step[G[n + 1][n]]
    BY <1>4
  <2>3. G[n + 1][n] = G[n][n]
    BY <1>5
  <2>4. QED
    BY <2>1, <2>2, <2>3
<1> HIDE DEF f
<1>9. QED
  BY <1>6, <1>7, <1>8

\* A suffix of a sequence, element by element.
LEMMA SuffixOf ==
    ASSUME NEW S, NEW s \in Seq(S), NEW n \in 0..Len(s)
    PROVE  /\ SubSeq(s, n + 1, Len(s)) \in Seq(S)
           /\ Len(SubSeq(s, n + 1, Len(s))) = Len(s) - n
           /\ \A i \in 1..(Len(s) - n) : SubSeq(s, n + 1, Len(s))[i] = s[n + i]
<1>1. Len(s) \in Nat /\ n + 1 \in Int /\ \A i \in (n + 1)..Len(s) : s[i] \in S
  BY LenProperties
<1>2. QED
  BY <1>1, SubSeqProperties

\* Of n things at different places, each number below n is the number of
\* things before one of them.
LEMMA RankTaken ==
    ASSUME NEW S, IsFiniteSet(S), NEW p \in [S -> Int], \A a, b \in S : p[a] = p[b] => a = b,
           NEW under \in [S -> SUBSET S], \A a, b \in S : a \in under[b] <=> p[a] < p[b],
           NEW k \in 1..Cardinality(S)
    PROVE  \E m \in S : Cardinality(under[m]) = k - 1
<1> DEFINE n == Cardinality(S)
<1> DEFINE rank == [m \in S |-> Cardinality(under[m])]
<1>1. n \in Nat
  BY FS_CardinalityType
<1>2. ASSUME NEW m \in S PROVE IsFiniteSet(under[m]) /\ Cardinality(under[m]) \in 0..(n - 1)
  <2>1. under[m] \in SUBSET (S \ {m})
    <3>1. p[m] \in Int /\ m \notin under[m]
      OBVIOUS
    <3>2. QED
      BY <3>1
  <2>2. IsFiniteSet(S \ {m}) /\ Cardinality(S \ {m}) = n - 1
    BY FS_RemoveElement
  <2>3. IsFiniteSet(under[m]) /\ Cardinality(under[m]) <= n - 1
    BY <2>1, <2>2, FS_Subset
  <2>4. Cardinality(under[m]) \in Nat
    BY <2>3, FS_CardinalityType
  <2>5. QED
    BY <1>1, <2>3, <2>4
<1>3. ASSUME NEW a \in S, NEW b \in S, p[a] < p[b] PROVE Cardinality(under[a]) < Cardinality(under[b])
  <2>1. a \in under[b] /\ a \notin under[a]
    BY <1>3
  <2>2. under[a] \in SUBSET (under[b] \ {a})
    <3>1. ASSUME NEW o \in under[a] PROVE o \in under[b]
      <4>1. o \in S /\ p[o] \in Int /\ p[a] \in Int /\ p[b] \in Int /\ p[o] < p[a]
        OBVIOUS
      <4>2. p[o] < p[b]
        BY <1>3, <4>1
      <4>3. QED
        BY <4>1, <4>2
    <3>2. QED
      BY <2>1, <3>1
  <2>3. IsFiniteSet(under[b]) /\ Cardinality(under[b]) \in Int /\ Cardinality(under[a]) \in Int
    BY <1>1, <1>2
  <2>4. IsFiniteSet(under[b] \ {a}) /\ Cardinality(under[b] \ {a}) = Cardinality(under[b]) - 1
    BY <2>1, <2>3, FS_RemoveElement
  <2>5. Cardinality(under[a]) <= Cardinality(under[b] \ {a})
    BY <2>2, <2>4, FS_Subset
  <2>6. QED
    BY <2>3, <2>4, <2>5
<1>4. ASSUME NEW a \in S, NEW b \in S, rank[a] = rank[b] PROVE a = b
  <2>1. p[a] \in Int /\ p[b] \in Int
    OBVIOUS
  <2>2. Cardinality(under[a]) = Cardinality(under[b])
    BY <1>4
  <2>3. Cardinality(under[a]) \in Int /\ Cardinality(under[b]) \in Int
    BY <1>1, <1>2
  <2>4. ~(p[a] < p[b]) /\ ~(p[b] < p[a])
    BY <1>3, <2>2, <2>3
  <2>5. QED
    BY <2>1, <2>4
<1>5. rank \in Injection(S, 0..(n - 1))
  <2>1. rank \in [S -> 0..(n - 1)]
    BY <1>2
  <2> HIDE DEF rank
  <2>2. QED
    BY <1>4, <2>1 DEF Injection, IsInjective
<1>6. IsFiniteSet(0..(n - 1)) /\ Cardinality(0..(n - 1)) = n
  <2> DEFINE last == n - 1
  <2>1. last \in Int /\ 0 \in Int /\ (IF 0 > last THEN 0 ELSE last - 0 + 1) = n
    BY <1>1
  <2> HIDE DEF last
  <2>2. IsFiniteSet(0..last) /\ Cardinality(0..last) = n
    BY <2>1, FS_Interval
  <2>3. QED
    BY <2>2 DEF last
<1> HIDE DEF rank
<1>7. rank \in Surjection(S, 0..(n - 1))
  BY <1>5, <1>6, FS_Injection
<1>8. k - 1 \in 0..(n - 1)
  BY <1>1
<1>9. PICK m \in S : rank[m] = k - 1
  BY <1>7, <1>8 DEF Surjection
<1>10. QED
  BY <1>9 DEF rank
=============================================================================
