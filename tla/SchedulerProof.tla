--------------------------- MODULE SchedulerProof ---------------------------
(***************************************************************************)
(* What is proved of the monitor scheduler, for every number of monitors   *)
(* and callers and every setting: no monitor is scanned by two runs, a     *)
(* monitor backs off and an alarm about its name servers is raised only    *)
(* after as many failures and silences as the settings ask for.            *)
(***************************************************************************)
EXTENDS MonitorScheduler, DataLemmas

(***************************************************************************)
(* The inductive invariant.                                                *)
(***************************************************************************)
\* Nothing is known of a monitor that is not stored.
GoneIsBlank == \A m \in Monitors : ~row[m].stored => row[m] = NoRow

\* Only the caller with the run lock is in a run.
Holding ==
    /\ \A c \in Callers : batch[c] # NoBatch => lock = c
    /\ \A c \in Callers : batch[c].phase = "idle" => batch[c] = NoBatch

\* A monitor waits in a run at most once, and not while it is scanned.
WaitsOnce ==
    \A c \in Callers :
        /\ IsInjective(batch[c].todo)
        /\ \A i \in DOMAIN batch[c].todo : batch[c].stage[batch[c].todo[i]] = "no"

\* The monitors a run still works on.
Uses(b) == {m \in Monitors : b.stage[m] # "no"} \cup Range(b.todo)

\* The counts of a schedule are not above what happened.
Fits(sched, g) ==
    /\ sched.fails <= g.bad
    /\ sched.backoff > 0 => g.bad >= MaxFailures
    /\ sched.silent <= g.quiet

RowsFit == \A m \in Monitors : Fits(row[m].sched, ghost[m])
SnapsFit == \A c \in Callers : \A m \in Uses(batch[c]) : Fits(batch[c].snap[m], ghost[m])

RowInv == row \in [Monitors -> Row] /\ GoneIsBlank

DueInv ==
    /\ due \in Seq(Monitors)
    /\ IsInjective(due)
    /\ Range(due) = {m \in Monitors : row[m].next = 0}

BatchInv ==
    /\ lock \in Callers \cup {None}
    /\ batch \in [Callers -> Batch]
    /\ Holding
    /\ WaitsOnce

DnsInv == dns \in [up : BOOLEAN, cached : {"none", "ok", "down"}, left : 0..Outages]

CountInv == ghost \in [Monitors -> Ghost] /\ RowsFit /\ SnapsFit

SchedInv == RowInv /\ DueInv /\ BatchInv /\ DnsInv /\ CountInv

(***************************************************************************)
(* Constants and the records.                                              *)
(***************************************************************************)
\* The settings are numbers from 1 on.
LEMMA Settings ==
    /\ Limit \in Nat /\ Limit >= 1 /\ Concurrency \in Nat /\ Concurrency >= 1
    /\ Interval \in Nat /\ Interval >= 1 /\ Retry \in Nat /\ Retry >= 1 /\ Retry <= Interval
    /\ BackoffTicks \in Nat /\ BackoffTicks >= 1
    /\ MaxFailures \in Nat /\ MaxFailures >= 1 /\ MaxRetries \in Nat /\ MaxRetries >= 1
    /\ Outages \in Nat
BY SchedulerConstants

\* The values of a row that was never written are of their types.
LEMMA Blanks == NoSched \in Sched /\ NoRow \in Row /\ NoHistory \in Ghost /\ NoBatch \in Batch
<1>1. NoSched \in Sched /\ NoHistory \in Ghost
  BY Settings DEF NoSched, Sched, NoHistory, Ghost
<1>2. NoRow \in Row
  BY <1>1, Settings DEF NoRow, Row, Never
<1>3. NoBatch \in Batch
  BY <1>1 DEF NoBatch, Batch, Stages
<1>4. QED
  BY <1>1, <1>2, <1>3

\* Any set of monitors is finite.
LEMMA MonitorsFinite == ASSUME NEW S \in SUBSET Monitors PROVE IsFiniteSet(S) /\ Cardinality(S) \in Nat
BY SchedulerConstants, FS_Subset, FS_CardinalityType

(***************************************************************************)
(* The order of the rows that are due.                                     *)
(***************************************************************************)
\* A monitor that is due has a position, and no other monitor has it.
LEMMA Placed ==
    ASSUME due \in Seq(Monitors), NEW m \in Range(due)
    PROVE  Position(m) \in 1..Len(due) /\ due[Position(m)] = m
<1>1. PICK i \in DOMAIN due : due[i] = m
  BY DEF Range
<1>2. Position(m) \in DOMAIN due /\ due[Position(m)] = m
  BY <1>1 DEF Position
<1>3. QED
  BY <1>2, LenProperties

\* Sorting rows that are due lists them once each.
LEMMA Ordered ==
    ASSUME due \in Seq(Monitors), NEW S \in SUBSET Range(due)
    PROVE  /\ S \subseteq Monitors
           /\ InOrder(S) \in [1..Cardinality(S) -> S]
           /\ InOrder(S) \in Seq(Monitors)
           /\ Len(InOrder(S)) = Cardinality(S)
           /\ IsInjective(InOrder(S))
           /\ Range(InOrder(S)) \subseteq S
<1> DEFINE p == [m \in S |-> Position(m)]
<1> DEFINE rank(m) == Cardinality({o \in S : Position(o) < Position(m)})
<1> DEFINE n == Cardinality(S)
<1>1. S \in SUBSET Monitors
  BY LenProperties DEF Range
<1>2. IsFiniteSet(S) /\ n \in Nat
  BY <1>1, MonitorsFinite
<1>3. p \in [S -> Int] /\ \A a, b \in S : p[a] = p[b] => a = b
  <2>1. \A m \in S : Position(m) \in Int /\ due[Position(m)] = m
    BY Placed, LenProperties
  <2>2. QED
    BY <2>1
<1>4. ASSUME NEW k \in 1..n PROVE \E m \in S : rank(m) = k - 1
  <2> DEFINE under == [m \in S |-> {o \in S : Position(o) < Position(m)}]
  <2>1. under \in [S -> SUBSET S] /\ \A a, b \in S : a \in under[b] <=> p[a] < p[b]
    OBVIOUS
  <2>2. IsFiniteSet(S) /\ k \in 1..Cardinality(S)
    BY <1>2
  <2>3. \E m \in S : Cardinality(under[m]) = k - 1
    <3> HIDE DEF p, under
    <3>1. QED
      BY <1>3, <2>1, <2>2, RankTaken
  <2>4. QED
    BY <2>3
<1>5. InOrder(S) = [k \in 1..n |-> CHOOSE m \in S : rank(m) = k - 1]
  BY DEF InOrder
<1> HIDE DEF rank, n
<1>6. \A k \in 1..n : InOrder(S)[k] \in S /\ rank(InOrder(S)[k]) = k - 1
  BY <1>4, <1>5
<1>7. InOrder(S) \in [1..n -> S]
  BY <1>5, <1>6
<1>8. IsInjective(InOrder(S))
  <2>1. ASSUME NEW i \in 1..n, NEW j \in 1..n, InOrder(S)[i] = InOrder(S)[j] PROVE i = j
    <3>1. i - 1 = j - 1
      BY <1>6, <2>1
    <3>2. QED
      BY <1>2, <3>1
  <2>2. QED
    BY <1>7, <2>1 DEF IsInjective
<1>9. InOrder(S) \in Seq(Monitors) /\ Len(InOrder(S)) = n
  BY <1>1, <1>2, <1>7
<1>10. Range(InOrder(S)) \subseteq S
  BY <1>7 DEF Range
<1>11. QED
  BY <1>1, <1>7, <1>8, <1>9, <1>10 DEF n

\* The rows a run takes are due, and each is taken once.
LEMMA RunnableOnce ==
    ASSUME due \in Seq(Monitors)
    PROVE  Runnable \in Seq(Monitors) /\ IsInjective(Runnable)
<1> DEFINE listed == InOrder({m \in Range(due) : row[m].enabled})
<1> DEFINE taken == {listed[i] : i \in 1..Capped(Len(listed), Limit)}
<1>1. listed \in Seq(Monitors) /\ Range(listed) \subseteq Range(due)
  <2> DEFINE S == {m \in Range(due) : row[m].enabled}
  <2>1. S \in SUBSET Range(due)
    OBVIOUS
  <2> HIDE DEF S
  <2>2. InOrder(S) \in Seq(Monitors) /\ Range(InOrder(S)) \subseteq S
    BY <2>1, Ordered
  <2>3. QED
    BY <2>1, <2>2 DEF S
<1> HIDE DEF listed
<1>2. taken \subseteq Range(listed)
  <2>1. Len(listed) \in Nat /\ DOMAIN listed = 1..Len(listed)
    BY <1>1, LenProperties
  <2>2. 1..Capped(Len(listed), Limit) \subseteq 1..Len(listed)
    BY <2>1, Settings DEF Capped
  <2>3. QED
    BY <2>1, <2>2 DEF Range
<1> DEFINE run == {m \in taken : ~InBackoff(m)}
<1>3. run \in SUBSET Range(due)
  BY <1>1, <1>2
<1>4. Runnable = InOrder(run)
  BY DEF Runnable, listed
<1> HIDE DEF run
<1>5. QED
  BY <1>3, <1>4, Ordered
(***************************************************************************)
(* The sequence of the rows that are due: taking one away, adding some.    *)
(***************************************************************************)
\* What RemoveAt leaves, element by element.
LEMMA RemovedAt ==
    ASSUME NEW S, NEW s \in Seq(S), NEW i \in 1..Len(s)
    PROVE  /\ RemoveAt(s, i) \in Seq(S)
           /\ Len(RemoveAt(s, i)) = Len(s) - 1
           /\ \A j \in 1..(Len(s) - 1) : RemoveAt(s, i)[j] = IF j < i THEN s[j] ELSE s[j + 1]
<1> DEFINE a == SubSeq(s, 1, i - 1)
<1> DEFINE b == SubSeq(s, i + 1, Len(s))
<1>1. Len(s) \in Nat /\ i \in Int /\ i - 1 \in Int /\ i + 1 \in Int /\ 1 \in Int /\ Len(s) \in Int
  BY LenProperties
<1>2. /\ \A j \in 1..(i - 1) : s[j] \in S
      /\ \A j \in (i + 1)..Len(s) : s[j] \in S
  BY <1>1, LenProperties
<1>3. a \in Seq(S) /\ Len(a) = i - 1 /\ \A j \in 1..(i - 1) : a[j] = s[j]
  <2> DEFINE k == i - 1
  <2>1. k \in Int /\ \A j \in 1..k : s[j] \in S
    BY <1>1, <1>2
  <2> HIDE DEF k
  <2>2. /\ SubSeq(s, 1, k) \in Seq(S)
        /\ Len(SubSeq(s, 1, k)) = IF 1 <= k THEN k - 1 + 1 ELSE 0
        /\ \A j \in 1..(k - 1 + 1) : SubSeq(s, 1, k)[j] = s[1 + j - 1]
    BY <2>1, <1>1, SubSeqProperties
  <2>3. QED
    BY <2>2, <1>1 DEF k
<1>4. b \in Seq(S) /\ Len(b) = Len(s) - i /\ \A j \in 1..(Len(s) - i) : b[j] = s[i + j]
  <2> DEFINE k == i + 1
  <2>1. k \in Int /\ \A j \in k..Len(s) : s[j] \in S
    BY <1>1, <1>2
  <2> HIDE DEF k
  <2>2. /\ SubSeq(s, k, Len(s)) \in Seq(S)
        /\ Len(SubSeq(s, k, Len(s))) = IF k <= Len(s) THEN Len(s) - k + 1 ELSE 0
        /\ \A j \in 1..(Len(s) - k + 1) : SubSeq(s, k, Len(s))[j] = s[k + j - 1]
    BY <2>1, <1>1, SubSeqProperties
  <2>3. QED
    BY <2>2, <1>1 DEF k
<1>5. RemoveAt(s, i) = a \o b
  BY DEF RemoveAt
<1> HIDE DEF a, b
<1>6. /\ a \o b \in Seq(S)
      /\ Len(a \o b) = Len(a) + Len(b)
      /\ \A j \in 1..(Len(a) + Len(b)) : (a \o b)[j] = IF j <= Len(a) THEN a[j] ELSE b[j - Len(a)]
  BY <1>3, <1>4, ConcatProperties
<1>7. ASSUME NEW j \in 1..(Len(s) - 1)
      PROVE  (a \o b)[j] = IF j < i THEN s[j] ELSE s[j + 1]
  <2>1. (a \o b)[j] = IF j <= i - 1 THEN a[j] ELSE b[j - (i - 1)]
    <3>1. Len(a) = i - 1 /\ Len(b) = Len(s) - i
      BY <1>3, <1>4
    <3>2. j \in 1..(Len(a) + Len(b))
      BY <1>1, <3>1
    <3>3. QED
      BY <1>6, <3>1, <3>2
  <2>2. CASE j < i
    BY <1>1, <1>3, <2>1, <2>2
  <2>3. CASE ~(j < i)
    <3> DEFINE k == j - (i - 1)
    <3>1. k \in 1..(Len(s) - i) /\ i + k = j + 1
      BY <1>1, <2>3
    <3>2. b[k] = s[i + k]
      BY <1>4, <3>1
    <3>3. QED
      BY <1>1, <2>1, <2>3, <3>1, <3>2
  <2>4. QED
    BY <2>2, <2>3
<1>8. QED
  BY <1>1, <1>3, <1>4, <1>5, <1>6, <1>7

\* Two lists without a row in common, one behind the other.
LEMMA Joined ==
    ASSUME NEW S, NEW s \in Seq(S), NEW t \in Seq(S), IsInjective(s), IsInjective(t),
           Range(s) \cap Range(t) = {}
    PROVE  s \o t \in Seq(S) /\ IsInjective(s \o t) /\ Range(s \o t) = Range(s) \cup Range(t)
<1> DEFINE n == Len(s)
<1> DEFINE k == Len(t)
<1>1. n \in Nat /\ k \in Nat /\ DOMAIN s = 1..n /\ DOMAIN t = 1..k
  BY LenProperties
<1> HIDE DEF n, k
<1>2. /\ s \o t \in Seq(S) /\ DOMAIN (s \o t) = 1..(n + k)
      /\ \A i \in 1..(n + k) : (s \o t)[i] = IF i <= n THEN s[i] ELSE t[i - n]
  <2>1. s \o t \in Seq(S) /\ Len(s \o t) = n + k
        /\ \A i \in 1..(n + k) : (s \o t)[i] = IF i <= n THEN s[i] ELSE t[i - n]
    BY ConcatProperties DEF n, k
  <2>2. QED
    BY <2>1, LenProperties
<1>3. ASSUME NEW i \in 1..(n + k), NEW j \in 1..(n + k), (s \o t)[i] = (s \o t)[j] PROVE i = j
  <2>1. CASE i <= n /\ j <= n
    BY <1>1, <1>2, <1>3, <2>1 DEF IsInjective
  <2>2. CASE i > n /\ j > n
    <3>1. i - n \in 1..k /\ j - n \in 1..k /\ t[i - n] = t[j - n]
      BY <1>1, <1>2, <1>3, <2>2
    <3>2. i - n = j - n
      BY <1>1, <3>1 DEF IsInjective
    <3>3. QED
      BY <1>1, <3>2
  <2>3. CASE i <= n /\ j > n
    <3>1. i \in DOMAIN s /\ j - n \in DOMAIN t /\ s[i] = t[j - n]
      BY <1>1, <1>2, <1>3, <2>3
    <3>2. QED
      BY <3>1 DEF Range
  <2>4. CASE i > n /\ j <= n
    <3>1. j \in DOMAIN s /\ i - n \in DOMAIN t /\ s[j] = t[i - n]
      BY <1>1, <1>2, <1>3, <2>4
    <3>2. QED
      BY <3>1 DEF Range
  <2>5. QED
    BY <1>1, <2>1, <2>2, <2>3, <2>4
<1>4. Range(s \o t) \subseteq Range(s) \cup Range(t)
  <2>1. ASSUME NEW i \in 1..(n + k) PROVE (s \o t)[i] \in Range(s) \cup Range(t)
    <3>1. CASE i <= n
      BY <1>1, <1>2, <3>1 DEF Range
    <3>2. CASE i > n
      <4>1. i - n \in DOMAIN t /\ (s \o t)[i] = t[i - n]
        BY <1>1, <1>2, <3>2
      <4>2. QED
        BY <4>1 DEF Range
    <3>3. QED
      BY <1>1, <3>1, <3>2
  <2>2. QED
    BY <1>2, <2>1 DEF Range
<1>5. Range(s) \subseteq Range(s \o t)
  BY <1>1, <1>2 DEF Range
<1>6. Range(t) \subseteq Range(s \o t)
  <2>1. ASSUME NEW i \in DOMAIN t PROVE t[i] \in Range(s \o t)
    <3>1. n + i \in 1..(n + k) /\ ~(n + i <= n) /\ (n + i) - n = i
      BY <1>1
    <3>2. (s \o t)[n + i] = t[i]
      BY <1>2, <3>1
    <3>3. QED
      BY <1>2, <3>1, <3>2 DEF Range
  <2>2. QED
    BY <2>1 DEF Range
<1>7. QED
  BY <1>2, <1>3, <1>4, <1>5, <1>6 DEF IsInjective

\* The list without one of its rows.
LEMMA Without ==
    ASSUME due \in Seq(Monitors), IsInjective(due), NEW m \in Monitors
    PROVE  /\ DueWithout(m) \in Seq(Monitors)
           /\ IsInjective(DueWithout(m))
           /\ Range(DueWithout(m)) = Range(due) \ {m}
<1>1. CASE m \notin Range(due)
  BY <1>1 DEF DueWithout
<1>2. CASE m \in Range(due)
  <2> DEFINE i == Position(m)
  <2> DEFINE n == Len(due)
  <2> DEFINE rest == RemoveAt(due, i)
  <2>1. i \in 1..n /\ due[i] = m /\ n \in Nat /\ DOMAIN due = 1..n
    BY <1>2, Placed, LenProperties
  <2> HIDE DEF i, n
  <2>2. /\ rest \in Seq(Monitors) /\ DOMAIN rest = 1..(n - 1)
        /\ \A j \in 1..(n - 1) : rest[j] = IF j < i THEN due[j] ELSE due[j + 1]
    <3>1. rest \in Seq(Monitors) /\ Len(rest) = n - 1
          /\ \A j \in 1..(n - 1) : rest[j] = IF j < i THEN due[j] ELSE due[j + 1]
      BY <2>1, RemovedAt DEF n
    <3>2. QED
      BY <3>1, LenProperties
  <2>3. DueWithout(m) = rest
    BY <1>2 DEF DueWithout, i
  <2> HIDE DEF rest
  <2>4. ASSUME NEW j \in 1..(n - 1) PROVE rest[j] \in Range(due) /\ rest[j] # m
    <3>1. PICK k \in 1..n : k # i /\ rest[j] = due[k]
      <4>1. CASE j < i
        BY <2>1, <2>2, <4>1
      <4>2. CASE ~(j < i)
        <5>1. j + 1 \in 1..n /\ j + 1 # i
          BY <2>1, <4>2
        <5>2. QED
          BY <2>2, <4>2, <5>1
      <4>3. QED
        BY <4>1, <4>2
    <3>2. QED
      BY <2>1, <3>1 DEF Range, IsInjective
  <2>5. ASSUME NEW k \in 1..n, k # i PROVE due[k] \in Range(rest)
    <3>1. CASE k < i
      <4>1. k \in 1..(n - 1) /\ rest[k] = due[k]
        BY <2>1, <2>2, <3>1
      <4>2. QED
        BY <2>2, <4>1 DEF Range
    <3>2. CASE k > i
      <4>1. k - 1 \in 1..(n - 1) /\ ~(k - 1 < i) /\ (k - 1) + 1 = k
        BY <2>1, <3>2
      <4>2. rest[k - 1] = due[k]
        BY <2>2, <4>1
      <4>3. QED
        BY <2>2, <4>1, <4>2 DEF Range
    <3>3. QED
      BY <2>1, <2>5, <3>1, <3>2
  <2>6. ASSUME NEW a \in 1..(n - 1), NEW b \in 1..(n - 1), rest[a] = rest[b] PROVE a = b
    <3> DEFINE from(j) == IF j < i THEN j ELSE j + 1
    <3>1. from(a) \in 1..n /\ from(b) \in 1..n
      BY <2>1
    <3>2. due[from(a)] = due[from(b)]
      BY <2>2, <2>6
    <3>3. from(a) = from(b)
      <4> HIDE DEF from
      <4>1. QED
        BY <2>1, <3>1, <3>2 DEF IsInjective
    <3>4. QED
      BY <2>1, <3>3
  <2>7. Range(rest) = Range(due) \ {m}
    <3>1. Range(rest) \subseteq Range(due) \ {m}
      BY <2>2, <2>4 DEF Range
    <3>2. ASSUME NEW o \in Range(due) \ {m} PROVE o \in Range(rest)
      <4>1. PICK k \in 1..n : due[k] = o
        BY <2>1 DEF Range
      <4>2. QED
        BY <2>1, <2>5, <4>1
    <3>3. QED
      BY <3>1, <3>2
  <2>8. QED
    BY <2>2, <2>3, <2>6, <2>7 DEF IsInjective
<1>3. QED
  BY <1>1, <1>2

\* The list with a row that was not in it.
LEMMA Added ==
    ASSUME NEW s \in Seq(Monitors), IsInjective(s), NEW m \in Monitors, m \notin Range(s)
    PROVE  /\ Append(s, m) \in Seq(Monitors)
           /\ IsInjective(Append(s, m))
           /\ Range(Append(s, m)) = Range(s) \cup {m}
<1> DEFINE one == <<m>>
<1>1. one \in Seq(Monitors) /\ IsInjective(one) /\ Range(one) = {m}
  BY DEF IsInjective, Range
<1>2. Append(s, m) = s \o one
  BY AppendIsConcat
<1> HIDE DEF one
<1>3. Range(s) \cap Range(one) = {}
  BY <1>1
<1>4. QED
  BY <1>1, <1>2, <1>3, Joined

\* A set written down in some order.
LEMMA Listed ==
    ASSUME NEW S \in SUBSET Monitors, NEW f \in SetToSeqs(S)
    PROVE  f \in Seq(Monitors) /\ IsInjective(f) /\ Range(f) = S
<1> DEFINE n == Cardinality(S)
<1>1. IsFiniteSet(S) /\ n \in Nat
  BY MonitorsFinite
<1>2. f \in [1..n -> S] /\ \A i, j \in 1..n : i # j => f[i] # f[j]
  BY DEF SetToSeqs
<1>3. IsFiniteSet(1..n) /\ Cardinality(1..n) = n
  BY <1>1, FS_Interval
<1>4. f \in Injection(1..n, S) /\ IsInjective(f)
  BY <1>2 DEF Injection, IsInjective
<1>5. f \in Surjection(1..n, S)
  BY <1>1, <1>3, <1>4, FS_Injection
<1>6. Range(f) = S
  BY <1>2, <1>5 DEF Surjection, Range
<1>7. QED
  BY <1>1, <1>2, <1>4, <1>6
(***************************************************************************)
(* A write to one row, and a write to the run of one caller.               *)
(***************************************************************************)
\* One row is written and the list of the rows that are due follows it.
LEMMA Written ==
    ASSUME RowInv, DueInv, NEW m \in Monitors, NEW r \in Row, ~r.stored => r = NoRow,
           row' = [row EXCEPT ![m] = r],
           \/ due' = DueWithout(m) /\ r.next # 0
           \/ due' = Append(DueWithout(m), m) /\ r.next = 0
           \/ due' = due /\ (r.next = 0 <=> row[m].next = 0)
    PROVE  RowInv' /\ DueInv'
<1>1. row \in [Monitors -> Row] /\ due \in Seq(Monitors) /\ IsInjective(due)
      /\ Range(due) = {o \in Monitors : row[o].next = 0}
  BY DEF RowInv, DueInv
<1>2. row' \in [Monitors -> Row] /\ \A o \in Monitors : row'[o] = IF o = m THEN r ELSE row[o]
  BY <1>1
<1>3. RowInv'
  BY <1>2 DEF RowInv, GoneIsBlank
<1> DEFINE now == {o \in Monitors : row'[o].next = 0}
<1>4. now = IF r.next = 0 THEN Range(due) \cup {m} ELSE Range(due) \ {m}
  BY <1>1, <1>2
<1> HIDE DEF now
<1>5. /\ DueWithout(m) \in Seq(Monitors) /\ IsInjective(DueWithout(m))
      /\ Range(DueWithout(m)) = Range(due) \ {m}
  BY <1>1, Without
<1>6. due' \in Seq(Monitors) /\ IsInjective(due') /\ Range(due') = now
  <2>1. CASE due' = DueWithout(m) /\ r.next # 0
    BY <1>4, <1>5, <2>1
  <2>2. CASE due' = Append(DueWithout(m), m) /\ r.next = 0
    <3> DEFINE s == DueWithout(m)
    <3>1. s \in Seq(Monitors) /\ IsInjective(s) /\ m \notin Range(s) /\ Range(s) = Range(due) \ {m}
      BY <1>5
    <3> HIDE DEF s
    <3>2. /\ Append(s, m) \in Seq(Monitors) /\ IsInjective(Append(s, m))
          /\ Range(Append(s, m)) = Range(s) \cup {m}
      BY <3>1, Added
    <3>3. due' = Append(s, m)
      BY <2>2 DEF s
    <3>4. QED
      BY <1>4, <2>2, <3>1, <3>2, <3>3
  <2>3. CASE due' = due /\ (r.next = 0 <=> row[m].next = 0)
    BY <1>1, <1>4, <2>3
  <2>4. QED
    BY <2>1, <2>2, <2>3
<1>7. QED
  BY <1>3, <1>6 DEF DueInv, now

\* A caller without a run uses no monitor.
LEMMA NoRunNoUse == Uses(NoBatch) = {} /\ NoBatch.phase = "idle"
BY DEF Uses, NoBatch, Range

\* The caller that has the lock writes its run.
LEMMA RunWritten ==
    ASSUME BatchInv, NEW c \in Callers, NEW b \in Batch, batch' = [batch EXCEPT ![c] = b],
           lock' = c, \A d \in Callers \ {c} : batch[d] = NoBatch,
           b.phase # "idle", IsInjective(b.todo),
           \A i \in DOMAIN b.todo : b.stage[b.todo[i]] = "no"
    PROVE  /\ BatchInv'
           /\ batch'[c] = b /\ \A d \in Callers \ {c} : batch'[d] = NoBatch
<1>1. batch \in [Callers -> Batch]
  BY DEF BatchInv
<1>2. batch' \in [Callers -> Batch] /\ \A d \in Callers : batch'[d] = IF d = c THEN b ELSE NoBatch
  BY <1>1
<1>3. Holding'
  BY <1>2 DEF Holding, NoBatch
<1>4. WaitsOnce'
  <2>1. IsInjective(NoBatch.todo) /\ DOMAIN NoBatch.todo = {}
    BY DEF NoBatch, IsInjective
  <2>2. QED
    BY <1>2, <2>1 DEF WaitsOnce
<1>5. QED
  BY <1>2, <1>3, <1>4 DEF BatchInv

\* A caller that is in a run has the lock and the others are in none.
LEMMA OneRunner ==
    ASSUME BatchInv, NEW c \in Callers, batch[c].phase # "idle"
    PROVE  lock = c /\ \A d \in Callers \ {c} : batch[d] = NoBatch
BY NoRunNoUse DEF BatchInv, Holding

\* The fields of a run.
LEMMA RunOf ==
    ASSUME NEW b \in Batch
    PROVE  /\ b.phase \in {"idle", "probe", "run", "lost"} /\ b.todo \in Seq(Monitors)
           /\ b.stage \in [Monitors -> Stages] /\ b.snap \in [Monitors -> Sched]
           /\ b.raised \in BOOLEAN
BY DEF Batch


\* The scan of m goes on to another stage; when it ends, m is not used.
LEMMA Advances ==
    ASSUME BatchInv, NEW c \in Callers, NEW m \in Monitors, NEW stage \in Stages,
           batch[c].phase = "run", batch[c].stage[m] # "no", Advance(c, m, stage), lock' = lock
    PROVE  /\ BatchInv'
           /\ \A d \in Callers : batch'[d].snap = batch[d].snap /\ Uses(batch'[d]) \subseteq Uses(batch[d])
           /\ stage = "no" => \A d \in Callers : m \notin Uses(batch'[d])
<1> DEFINE was == batch[c]
<1> DEFINE b == [was EXCEPT !.stage = [was.stage EXCEPT ![m] = stage]]
<1>1. was \in Batch /\ lock = c /\ \A d \in Callers \ {c} : batch[d] = NoBatch
  BY OneRunner DEF BatchInv
<1>2. batch' = [batch EXCEPT ![c] = b]
  BY DEF Advance, BatchInv
<1>3. b = [was EXCEPT !.stage = [was.stage EXCEPT ![m] = stage]]
  OBVIOUS
<1>4. IsInjective(was.todo) /\ \A i \in DOMAIN was.todo : was.stage[was.todo[i]] = "no"
  BY DEF BatchInv, WaitsOnce
<1>10. was.phase = "run" /\ was.stage[m] # "no"
  OBVIOUS
<1> HIDE DEF was, b
<1>5. /\ b \in Batch /\ b.phase = was.phase /\ b.todo = was.todo /\ b.snap = was.snap
      /\ \A o \in Monitors : b.stage[o] = IF o = m THEN stage ELSE was.stage[o]
  BY <1>1, <1>3 DEF Batch
<1>6. \A i \in DOMAIN b.todo : b.todo[i] \in Monitors /\ b.todo[i] # m /\ b.stage[b.todo[i]] = "no"
  <2>1. \A i \in DOMAIN b.todo : b.todo[i] \in Monitors
    BY <1>5, RunOf, LenProperties
  <2>2. QED
    BY <1>4, <1>5, <1>10, <2>1
<1>7. BatchInv' /\ batch'[c] = b /\ \A d \in Callers \ {c} : batch'[d] = NoBatch
  <2>1. lock' = c /\ b.phase # "idle" /\ IsInjective(b.todo)
    BY <1>1, <1>4, <1>5, <1>10
  <2>2. \A i \in DOMAIN b.todo : b.stage[b.todo[i]] = "no"
    BY <1>6
  <2>3. QED
    BY <1>1, <1>2, <1>5, <2>1, <2>2, RunWritten
<1>8. Uses(b) \subseteq Uses(was) /\ (stage = "no" => m \notin Uses(b))
  BY <1>5, <1>6, <1>10 DEF Uses, Range
<1>9. ASSUME NEW d \in Callers
      PROVE  /\ batch'[d].snap = batch[d].snap /\ Uses(batch'[d]) \subseteq Uses(batch[d])
             /\ stage = "no" => m \notin Uses(batch'[d])
  <2>1. CASE d = c
    BY <1>5, <1>7, <1>8, <2>1 DEF was
  <2>2. CASE d # c
    BY <1>1, <1>7, <2>2, NoRunNoUse
  <2>3. QED
    BY <2>1, <2>2
<1>11. QED
  BY <1>7, <1>9
\* A scan that raises ends, and the rest of its run may be dropped.
LEMMA Raises ==
    ASSUME BatchInv, NEW c \in Callers, NEW m \in Monitors,
           batch[c].phase = "run", batch[c].stage[m] # "no", Raise(c, m), lock' = lock
    PROVE  /\ BatchInv'
           /\ \A d \in Callers : batch'[d].snap = batch[d].snap /\ Uses(batch'[d]) \subseteq Uses(batch[d])
           /\ \A d \in Callers : m \notin Uses(batch'[d])
<1> DEFINE was == batch[c]
<1> DEFINE left == IF Concurrency = 1 THEN <<>> ELSE was.todo
<1> DEFINE b == [was EXCEPT !.stage = [was.stage EXCEPT ![m] = "no"], !.raised = TRUE, !.todo = left]
<1>1. was \in Batch /\ lock = c /\ \A d \in Callers \ {c} : batch[d] = NoBatch
  BY OneRunner DEF BatchInv
<1>2. batch' = [batch EXCEPT ![c] = b]
  BY DEF Raise, BatchInv
<1>3. b = [was EXCEPT !.stage = [was.stage EXCEPT ![m] = "no"], !.raised = TRUE, !.todo = left]
  OBVIOUS
<1>4. IsInjective(was.todo) /\ \A i \in DOMAIN was.todo : was.stage[was.todo[i]] = "no"
  BY DEF BatchInv, WaitsOnce
<1>5. was.phase = "run" /\ was.stage[m] # "no"
  OBVIOUS
<1>6. left \in Seq(Monitors) /\ (left = was.todo \/ left = <<>>)
  BY <1>1, RunOf
<1> HIDE DEF was, b, left
<1>7. /\ b \in Batch /\ b.phase = was.phase /\ b.todo = left /\ b.snap = was.snap
      /\ \A o \in Monitors : b.stage[o] = IF o = m THEN "no" ELSE was.stage[o]
  BY <1>1, <1>3, <1>6 DEF Batch, Stages
<1>8. /\ IsInjective(b.todo)
      /\ \A i \in DOMAIN b.todo : b.todo[i] \in Monitors /\ b.todo[i] # m /\ b.stage[b.todo[i]] = "no"
      /\ Range(b.todo) \subseteq Range(was.todo)
  <2>1. CASE left = was.todo
    <3>1. \A i \in DOMAIN b.todo : b.todo[i] \in Monitors
      BY <1>7, RunOf, LenProperties
    <3>2. QED
      BY <1>4, <1>5, <1>7, <2>1, <3>1
  <2>2. CASE left = <<>>
    BY <1>7, <2>2 DEF IsInjective, Range
  <2>3. QED
    BY <1>6, <2>1, <2>2
<1>9. BatchInv' /\ batch'[c] = b /\ \A d \in Callers \ {c} : batch'[d] = NoBatch
  <2>1. lock' = c /\ b.phase # "idle" /\ \A i \in DOMAIN b.todo : b.stage[b.todo[i]] = "no"
    BY <1>1, <1>5, <1>7, <1>8
  <2>2. QED
    BY <1>1, <1>2, <1>7, <1>8, <2>1, RunWritten
<1>10. Uses(b) \subseteq Uses(was) /\ m \notin Uses(b)
  BY <1>7, <1>8 DEF Uses, Range
<1>11. ASSUME NEW d \in Callers
       PROVE  /\ batch'[d].snap = batch[d].snap /\ Uses(batch'[d]) \subseteq Uses(batch[d])
              /\ m \notin Uses(batch'[d])
  <2>1. CASE d = c
    BY <1>7, <1>9, <1>10, <2>1 DEF was
  <2>2. CASE d # c
    BY <1>1, <1>9, <2>2, NoRunNoUse
  <2>3. QED
    BY <2>1, <2>2
<1>12. QED
  BY <1>9, <1>11

\* One row and what happened to it are written, and the new counts fit; a
\* run that still works on the monitor keeps counts that fit.
LEMMA Counts ==
    ASSUME RowInv, CountInv, NEW m \in Monitors, NEW r \in Row, NEW g \in Ghost,
           row' = [row EXCEPT ![m] = r], ghost' = [ghost EXCEPT ![m] = g], Fits(r.sched, g),
           \A d \in Callers : batch'[d].snap = batch[d].snap /\ Uses(batch'[d]) \subseteq Uses(batch[d]),
           g = ghost[m] \/ \A d \in Callers : m \notin Uses(batch'[d])
    PROVE  CountInv'
<1>1. row \in [Monitors -> Row] /\ ghost \in [Monitors -> Ghost]
  BY DEF RowInv, CountInv
<1>2. /\ ghost' \in [Monitors -> Ghost]
      /\ \A o \in Monitors : ghost'[o] = (IF o = m THEN g ELSE ghost[o]) /\ row'[o] = IF o = m THEN r ELSE row[o]
  BY <1>1
<1>3. RowsFit'
  BY <1>2 DEF CountInv, RowsFit, Fits
<1>4. ASSUME NEW d \in Callers, NEW o \in Uses(batch'[d]), o \in Monitors
      PROVE  batch'[d].snap = batch[d].snap /\ ghost'[o] = ghost[o] /\ o \in Uses(batch[d])
  BY <1>2, <1>4
<1>5. ASSUME NEW d \in Callers, NEW o \in Uses(batch'[d]), o \in Monitors
      PROVE  Fits(batch'[d].snap[o], ghost'[o])
  BY <1>4, <1>5 DEF CountInv, SnapsFit
<1> QED
  BY <1>2, <1>3, <1>5 DEF CountInv, SnapsFit
(***************************************************************************)
(* The steps of a run.                                                     *)
(***************************************************************************)
\* The runnable monitors as the run of a caller.
LEMMA BeginInv == ASSUME SchedInv, NEW c \in Callers, Begin(c) PROVE SchedInv'
<1> DEFINE list == Runnable
<1> DEFINE snap == [m \in Monitors |-> IF m \in Range(list) THEN row[m].sched ELSE NoSched]
<1> DEFINE phase == IF list = <<>> THEN "run" ELSE "probe"
<1> DEFINE b == [NoBatch EXCEPT !.phase = phase, !.todo = list, !.snap = snap]
<1>1. list \in Seq(Monitors) /\ IsInjective(list)
  BY RunnableOnce DEF SchedInv, DueInv
<1>2. batch' = [batch EXCEPT ![c] = b] /\ lock' = c /\ lock = None
  BY DEF Begin
<1>3. phase \in {"run", "probe"}
  OBVIOUS
<1>4. snap \in [Monitors -> Sched] /\ \A m \in Range(list) \cap Monitors : snap[m] = row[m].sched
  BY Blanks DEF SchedInv, RowInv, Row
<1> HIDE DEF list, snap, phase
<1>5. b.phase = phase /\ b.todo = list /\ b.snap = snap /\ b.stage = [m \in Monitors |-> "no"] /\ b \in Batch
  BY <1>1, <1>3, <1>4 DEF NoBatch, Batch, Stages
<1> HIDE DEF b
<1>6. \A d \in Callers : batch[d] = NoBatch
  BY <1>2, SchedulerConstants DEF SchedInv, BatchInv, Holding
<1>7. Range(list) \subseteq Monitors
  BY <1>1, LenProperties DEF Range
<1>8. \A i \in DOMAIN b.todo : b.stage[b.todo[i]] = "no"
  BY <1>5, <1>7 DEF Range
<1>9. BatchInv' /\ batch'[c] = b /\ \A d \in Callers \ {c} : batch'[d] = NoBatch
  <2>1. BatchInv /\ b.phase # "idle" /\ IsInjective(b.todo) /\ \A d \in Callers \ {c} : batch[d] = NoBatch
    BY <1>1, <1>3, <1>5, <1>6 DEF SchedInv
  <2>2. QED
    BY <1>2, <1>5, <1>8, <2>1, RunWritten
<1>10. Uses(b) = Range(list)
  BY <1>5 DEF Uses
<1>11. SnapsFit'
  <2>1. ASSUME NEW d \in Callers, NEW m \in Uses(batch'[d]) PROVE Fits(batch'[d].snap[m], ghost[m])
    <3>1. d = c /\ m \in Range(list) /\ m \in Monitors
      BY <1>7, <1>9, <1>10, <2>1, NoRunNoUse
    <3>2. batch'[d].snap[m] = row[m].sched
      BY <1>4, <1>5, <1>9, <3>1
    <3>3. QED
      BY <3>1, <3>2 DEF SchedInv, CountInv, RowsFit
  <2>2. ghost' = ghost
    BY DEF Begin
  <2>3. QED
    BY <2>1, <2>2 DEF SnapsFit
<1>12. (RowInv /\ DueInv /\ DnsInv)' /\ (ghost \in [Monitors -> Ghost] /\ RowsFit)'
  BY DEF Begin, SchedInv, RowInv, GoneIsBlank, DueInv, DnsInv, CountInv, RowsFit, Fits
<1>13. QED
  BY <1>9, <1>11, <1>12 DEF SchedInv, CountInv

\* A run that ends before its try keeps the lock and works on no monitor.
LEMMA StrandInv == ASSUME SchedInv, NEW c \in Callers, Strand(c) PROVE SchedInv'
<1> DEFINE b == [NoBatch EXCEPT !.phase = "lost"]
<1>1. batch[c] = NoBatch /\ lock = None /\ \A d \in Callers : batch[d] = NoBatch
  BY SchedulerConstants DEF Strand, SchedInv, BatchInv, Holding
<1>2. batch' = [batch EXCEPT ![c] = b] /\ lock' = c /\ UNCHANGED <<row, due, dns, ghost>>
  BY <1>1 DEF Strand
<1>3. b \in Batch /\ b.phase = "lost" /\ b.todo = <<>> /\ b.stage = [m \in Monitors |-> "no"]
  BY Blanks DEF NoBatch, Batch
<1> HIDE DEF b
<1>4. DOMAIN b.todo = {} /\ IsInjective(b.todo)
  BY <1>3 DEF IsInjective
<1>5. Uses(b) = {}
  BY <1>3, <1>4 DEF Uses, Range
<1>6. BatchInv' /\ batch'[c] = b /\ \A d \in Callers \ {c} : batch'[d] = NoBatch
  <2>1. BatchInv /\ b.phase # "idle" /\ \A d \in Callers \ {c} : batch[d] = NoBatch
    BY <1>1, <1>3 DEF SchedInv
  <2>2. QED
    BY <1>2, <1>3, <1>4, <2>1, RunWritten
<1>7. SnapsFit'
  <2>1. \A d \in Callers : Uses(batch'[d]) = {}
    BY <1>5, <1>6, NoRunNoUse
  <2>2. QED
    BY <2>1 DEF SnapsFit
<1>8. (RowInv /\ DueInv /\ DnsInv)' /\ (ghost \in [Monitors -> Ghost] /\ RowsFit)'
  BY <1>2 DEF SchedInv, RowInv, GoneIsBlank, DueInv, DnsInv, CountInv, RowsFit, Fits
<1>9. QED
  BY <1>6, <1>7, <1>8 DEF SchedInv, CountInv

\* A run that goes on with less to do keeps the counts it read.
LEMMA GoesOn ==
    ASSUME SchedInv, NEW c \in Callers, NEW b \in Batch, batch[c].phase # "idle",
           batch' = [batch EXCEPT ![c] = b], b.phase = "run", b.snap = batch[c].snap,
           Uses(b) \subseteq Uses(batch[c]), IsInjective(b.todo),
           \A i \in DOMAIN b.todo : b.stage[b.todo[i]] = "no",
           UNCHANGED <<row, due, lock, ghost>>, DnsInv'
    PROVE  SchedInv'
<1>1. lock = c /\ \A d \in Callers \ {c} : batch[d] = NoBatch
  BY OneRunner DEF SchedInv
<1>2. BatchInv' /\ batch'[c] = b /\ \A d \in Callers \ {c} : batch'[d] = NoBatch
  BY <1>1, RunWritten DEF SchedInv
<1>3. SnapsFit'
  <2>1. ASSUME NEW d \in Callers, NEW m \in Uses(batch'[d])
        PROVE  batch'[d].snap = batch[d].snap /\ m \in Uses(batch[d])
    <3>1. d = c
      BY <1>2, <2>1, NoRunNoUse
    <3>2. QED
      BY <1>2, <2>1, <3>1
  <2>2. ghost' = ghost
    OBVIOUS
  <2>3. QED
    BY <2>1, <2>2 DEF SchedInv, CountInv, SnapsFit
<1>4. (RowInv /\ DueInv)' /\ (ghost \in [Monitors -> Ghost] /\ RowsFit)'
  BY DEF SchedInv, RowInv, GoneIsBlank, DueInv, CountInv, RowsFit, Fits
<1>5. QED
  BY <1>2, <1>3, <1>4 DEF SchedInv, CountInv

\* The resolver answers and the run goes on, or it does not and the run has
\* nothing left to do.
LEMMA ProbeInv == ASSUME SchedInv, NEW c \in Callers, Probe(c) PROVE SchedInv'
<1> DEFINE was == batch[c]
<1> DEFINE ok == IF dns.cached = "none" THEN dns.up ELSE dns.cached = "ok"
<1> DEFINE left == IF ok THEN was.todo ELSE <<>>
<1> DEFINE b == [was EXCEPT !.phase = "run", !.todo = left]
<1>1. was \in Batch /\ was.phase = "probe" /\ IsInjective(was.todo)
      /\ \A i \in DOMAIN was.todo : was.stage[was.todo[i]] = "no"
  BY DEF Probe, SchedInv, BatchInv, WaitsOnce
<1>2. batch' = [batch EXCEPT ![c] = b]
  BY DEF Probe, SchedInv, BatchInv
<1>3. b = [was EXCEPT !.phase = "run", !.todo = left]
  OBVIOUS
<1>4. left \in Seq(Monitors) /\ (left = was.todo \/ left = <<>>)
  BY <1>1, RunOf
<1>5. DnsInv' /\ UNCHANGED <<row, due, lock, ghost>>
  BY DEF Probe, SchedInv, DnsInv
<1>6. was.phase # "idle"
  BY <1>1
<1> HIDE DEF b, left
<1>7. /\ b \in Batch /\ b.phase = "run" /\ b.todo = left /\ b.snap = was.snap /\ b.stage = was.stage
  <2> HIDE DEF was
  <2>1. QED
    BY <1>1, <1>3, <1>4 DEF Batch
<1>8. /\ IsInjective(b.todo) /\ \A i \in DOMAIN b.todo : b.stage[b.todo[i]] = "no"
      /\ Uses(b) \subseteq Uses(was)
  <2> HIDE DEF was
  <2>1. CASE left = was.todo
    BY <1>1, <1>7, <2>1 DEF Uses
  <2>2. CASE left = <<>>
    BY <1>1, <1>7, <2>2 DEF Uses, IsInjective, Range
  <2>3. QED
    BY <1>4, <2>1, <2>2
<1>9. QED
  BY <1>2, <1>5, <1>6, <1>7, <1>8, GoesOn

\* The pool takes the first monitor of those that wait.
LEMMA TakeInv == ASSUME SchedInv, NEW c \in Callers, Take(c) PROVE SchedInv'
<1> DEFINE was == batch[c]
<1> DEFINE m == Head(was.todo)
<1> DEFINE rest == Tail(was.todo)
<1> DEFINE stage == [was.stage EXCEPT ![m] = "ask"]
<1> DEFINE b == [was EXCEPT !.todo = rest, !.stage = stage]
<1>1. was \in Batch /\ was.phase = "run" /\ was.todo # <<>> /\ IsInjective(was.todo)
      /\ \A i \in DOMAIN was.todo : was.stage[was.todo[i]] = "no"
  BY DEF Take, SchedInv, BatchInv, WaitsOnce
<1>2. batch' = [batch EXCEPT ![c] = b]
  BY DEF Take, SchedInv, BatchInv
<1>3. b = [was EXCEPT !.todo = rest, !.stage = stage]
  OBVIOUS
<1>4. DnsInv' /\ UNCHANGED <<row, due, lock, ghost>>
  BY DEF Take, SchedInv, DnsInv
<1>5. batch[c].phase # "idle"
  BY <1>1
<1>6. /\ m \in Monitors /\ rest \in Seq(Monitors) /\ Len(rest) = Len(was.todo) - 1
      /\ \A i \in 1..Len(rest) : rest[i] = was.todo[i + 1]
      /\ m = was.todo[1] /\ was.todo \in Seq(Monitors)
  <2> DEFINE s == was.todo
  <2>1. s \in Seq(Monitors) /\ s # <<>>
    BY <1>1, RunOf
  <2> HIDE DEF s
  <2>2. /\ Head(s) \in Monitors /\ Tail(s) \in Seq(Monitors) /\ Len(Tail(s)) = Len(s) - 1
        /\ \A i \in 1..Len(Tail(s)) : Tail(s)[i] = s[i + 1]
    BY <2>1, HeadTailProperties
  <2>3. Head(s) = s[1]
    BY <2>1
  <2>4. QED
    BY <2>1, <2>2, <2>3 DEF s
<1>7. stage \in [Monitors -> Stages] /\ \A o \in Monitors : stage[o] = IF o = m THEN "ask" ELSE was.stage[o]
  <2>1. was.stage \in [Monitors -> Stages] /\ "ask" \in Stages
    BY <1>1, RunOf DEF Stages
  <2> HIDE DEF was, m
  <2>2. QED
    BY <1>6, <2>1
<1> HIDE DEF b, rest, stage, m
<1>8. /\ b \in Batch /\ b.phase = "run" /\ b.todo = rest /\ b.snap = was.snap /\ b.stage = stage
  <2> HIDE DEF was
  <2>1. QED
    BY <1>1, <1>3, <1>6, <1>7 DEF Batch
<1>9. /\ IsInjective(b.todo) /\ (\A i \in DOMAIN b.todo : b.stage[b.todo[i]] = "no")
      /\ Uses(b) \subseteq Uses(was)
  <2> HIDE DEF was
  <2> DEFINE s == was.todo
  <2>1. Len(s) \in Nat /\ DOMAIN s = 1..Len(s) /\ DOMAIN rest = 1..(Len(s) - 1) /\ s \in [1..Len(s) -> Monitors]
    BY <1>6, LenProperties
  <2>2. ASSUME NEW i \in DOMAIN rest
        PROVE  i + 1 \in DOMAIN s /\ rest[i] = s[i + 1] /\ s[i + 1] # m /\ s[i + 1] \in Monitors
    <3>1. i + 1 \in DOMAIN s /\ 1 \in DOMAIN s /\ i + 1 # 1 /\ rest[i] = s[i + 1]
      BY <1>6, <2>1
    <3>2. QED
      BY <1>1, <1>6, <2>1, <3>1 DEF IsInjective
  <2>3. IsInjective(rest)
    <3>1. ASSUME NEW i \in DOMAIN rest, NEW j \in DOMAIN rest, rest[i] = rest[j] PROVE i = j
      <4>1. i + 1 = j + 1
        BY <1>1, <2>2, <3>1 DEF IsInjective
      <4>2. QED
        BY <2>1, <4>1
    <3>2. QED
      BY <3>1 DEF IsInjective
  <2>4. \A i \in DOMAIN rest : stage[rest[i]] = "no"
    BY <1>1, <1>7, <2>2
  <2>5. Uses(b) \subseteq Uses(was)
    <3>1. Range(rest) \subseteq Range(s)
      BY <2>2 DEF Range
    <3>2. m \in Range(s)
      BY <1>1, <1>6, <2>1, LenProperties DEF Range
    <3>3. QED
      BY <1>7, <1>8, <3>1, <3>2 DEF Uses
  <2>6. QED
    BY <1>8, <2>3, <2>4, <2>5
<1>10. QED
  BY <1>2, <1>4, <1>5, <1>8, <1>9, GoesOn

\* A run that is over gives the lock back.
LEMMA FinishInv == ASSUME SchedInv, NEW c \in Callers, Finish(c) PROVE SchedInv'
<1>1. batch \in [Callers -> Batch] /\ lock = c /\ \A d \in Callers \ {c} : batch[d] = NoBatch
  BY OneRunner DEF Finish, SchedInv, BatchInv
<1>2. \A d \in Callers : batch'[d] = NoBatch
  BY <1>1 DEF Finish
<1>3. batch' \in [Callers -> Batch] /\ lock' = None
  BY <1>1, Blanks DEF Finish
<1>4. BatchInv'
  <2>1. IsInjective(NoBatch.todo) /\ DOMAIN NoBatch.todo = {}
    BY DEF NoBatch, IsInjective
  <2>2. QED
    BY <1>2, <1>3, <2>1, NoRunNoUse DEF BatchInv, Holding, WaitsOnce
<1>5. SnapsFit'
  BY <1>2, NoRunNoUse DEF SnapsFit
<1>6. (RowInv /\ DueInv /\ DnsInv)' /\ (ghost \in [Monitors -> Ghost] /\ RowsFit)'
  BY DEF Finish, SchedInv, RowInv, GoneIsBlank, DueInv, DnsInv, CountInv, RowsFit, Fits
<1>7. QED
  BY <1>4, <1>5, <1>6 DEF SchedInv, CountInv
(***************************************************************************)
(* The steps of a scan and of the other writers.                           *)
(***************************************************************************)
\* The metadata a scan writes back.
LEMMA SilentOnce ==
    ASSUME NEW s \in Sched, s.silent + 1 < MaxRetries, NEW g \in Ghost, Fits(s, g)
    PROVE  /\ [s EXCEPT !.silent = @ + 1] \in Sched
           /\ [g EXCEPT !.quiet = Capped(@ + 1, MaxRetries)] \in Ghost
           /\ Fits([s EXCEPT !.silent = @ + 1], [g EXCEPT !.quiet = Capped(@ + 1, MaxRetries)])
<1> DEFINE n == s.silent + 1
<1> DEFINE q == Capped(g.quiet + 1, MaxRetries)
<1>1. s.silent \in 0..(MaxRetries - 1) /\ g.quiet \in 0..MaxRetries
  BY DEF Sched, Ghost
<1>2. n \in 0..(MaxRetries - 1) /\ q \in 0..MaxRetries /\ n <= q
  BY <1>1, Settings DEF Capped, Fits
<1> HIDE DEF n, q
<1>3. /\ [s EXCEPT !.silent = n] \in Sched /\ [g EXCEPT !.quiet = q] \in Ghost
      /\ Fits([s EXCEPT !.silent = n], [g EXCEPT !.quiet = q])
  BY <1>2 DEF Sched, Ghost, Fits
<1>4. QED
  BY <1>3 DEF n, q

\* A scan that gives up counts no silence any more.
LEMMA SilentNoMore ==
    ASSUME NEW s \in Sched, NEW g \in Ghost, Fits(s, g)
    PROVE  /\ [s EXCEPT !.silent = 0] \in Sched /\ [g EXCEPT !.quiet = 0] \in Ghost
           /\ Fits([s EXCEPT !.silent = 0], [g EXCEPT !.quiet = 0])
BY Settings DEF Sched, Ghost, Fits

\* A scan that fails counts one failure more, and backs off at the limit.
LEMMA FailedOnce ==
    ASSUME NEW s \in Sched, NEW g \in Ghost, Fits(s, g)
    PROVE  /\ Failed(s) \in Sched /\ [g EXCEPT !.bad = Capped(@ + 1, MaxFailures)] \in Ghost
           /\ Fits(Failed(s), [g EXCEPT !.bad = Capped(@ + 1, MaxFailures)])
<1> DEFINE n == Capped(s.fails + 1, MaxFailures)
<1> DEFINE q == Capped(g.bad + 1, MaxFailures)
<1> DEFINE b == IF n >= MaxFailures THEN BackoffTicks ELSE s.backoff
<1>1. s.fails \in 0..MaxFailures /\ g.bad \in 0..MaxFailures /\ s.backoff \in 0..BackoffTicks
  BY DEF Sched, Ghost
<1>2. /\ n \in 0..MaxFailures /\ q \in 0..MaxFailures /\ n <= q
      /\ b \in 0..BackoffTicks /\ (b > 0 => q >= MaxFailures)
  BY <1>1, Settings DEF Capped, Fits
<1>3. Failed(s) = [s EXCEPT !.fails = n, !.backoff = b]
  BY DEF Failed
<1> HIDE DEF n, q, b
<1>4. /\ [s EXCEPT !.fails = n, !.backoff = b] \in Sched /\ [g EXCEPT !.bad = q] \in Ghost
      /\ Fits([s EXCEPT !.fails = n, !.backoff = b], [g EXCEPT !.bad = q])
  BY <1>2 DEF Sched, Ghost, Fits
<1>5. QED
  BY <1>3, <1>4 DEF q

\* A count of nothing fits whatever happened.
LEMMA NothingCounted == ASSUME NEW g \in Ghost PROVE Fits(NoSched, g)
BY Settings DEF NoSched, Ghost, Fits

\* A step that writes one row and what happened to it, whoever takes it.
LEMMA StepInv ==
    ASSUME SchedInv, NEW m \in Monitors, NEW r \in Row, NEW g \in Ghost, ~r.stored => r = NoRow,
           row' = [row EXCEPT ![m] = r], ghost' = [ghost EXCEPT ![m] = g], Fits(r.sched, g),
           \/ due' = DueWithout(m) /\ r.next # 0
           \/ due' = Append(DueWithout(m), m) /\ r.next = 0
           \/ due' = due /\ (r.next = 0 <=> row[m].next = 0),
           BatchInv',
           \A d \in Callers : batch'[d].snap = batch[d].snap /\ Uses(batch'[d]) \subseteq Uses(batch[d]),
           g = ghost[m] \/ \A d \in Callers : m \notin Uses(batch'[d]),
           DnsInv'
    PROVE  SchedInv'
<1>1. RowInv /\ DueInv /\ CountInv
  BY DEF SchedInv
<1>2. RowInv' /\ DueInv'
  BY <1>1, Written
<1>3. CountInv'
  BY <1>1, Counts
<1>4. QED
  BY <1>2, <1>3 DEF SchedInv

\* What is known of a monitor, its row and the run that scans it.
LEMMA OneScan ==
    ASSUME SchedInv, NEW c \in Callers, NEW m \in Monitors, batch[c].stage[m] # "no"
    PROVE  /\ row[m] \in Row /\ ghost[m] \in Ghost /\ (~row[m].stored => row[m] = NoRow)
           /\ row = [row EXCEPT ![m] = row[m]] /\ ghost = [ghost EXCEPT ![m] = ghost[m]]
           /\ Fits(row[m].sched, ghost[m])
           /\ batch[c].snap[m] \in Sched /\ Fits(batch[c].snap[m], ghost[m])
<1>1. row \in [Monitors -> Row] /\ ghost \in [Monitors -> Ghost] /\ batch \in [Callers -> Batch]
  BY DEF SchedInv, RowInv, CountInv, BatchInv
<1>2. batch[c].snap \in [Monitors -> Sched] /\ m \in Uses(batch[c])
  BY <1>1, RunOf DEF Uses
<1>3. QED
  BY <1>1, <1>2 DEF SchedInv, RowInv, GoneIsBlank, CountInv, RowsFit, SnapsFit

\* The question about a domain, and a resolver that does not answer.
LEMMA AskInv ==
    ASSUME SchedInv, NEW c \in Callers, NEW m \in Monitors, AskDomain(c, m) \/ ResolverDown(c, m)
    PROVE  SchedInv'
<1>1. batch[c].phase = "run" /\ batch[c].stage[m] # "no" /\ UNCHANGED <<row, due, lock, ghost>>
  BY DEF AskDomain, ResolverDown, At
<1>2. PICK stage \in Stages : Advance(c, m, stage)
  BY DEF AskDomain, ResolverDown, Stages
<1>3. DnsInv'
  BY DEF AskDomain, ResolverDown, SchedInv, DnsInv
<1>4. /\ BatchInv'
      /\ \A d \in Callers : batch'[d].snap = batch[d].snap /\ Uses(batch'[d]) \subseteq Uses(batch[d])
  BY <1>1, <1>2, Advances DEF SchedInv
<1> DEFINE r == row[m]
<1> DEFINE g == ghost[m]
<1>5. /\ r \in Row /\ g \in Ghost /\ (~r.stored => r = NoRow) /\ Fits(r.sched, g)
      /\ row' = [row EXCEPT ![m] = r] /\ ghost' = [ghost EXCEPT ![m] = g]
      /\ due' = due /\ (r.next = 0 <=> row[m].next = 0) /\ g = ghost[m]
  BY <1>1, OneScan
<1> HIDE DEF r, g
<1>6. QED
  BY <1>3, <1>4, <1>5, StepInv

\* A domain that is silent is asked again later.
LEMMA PostponeInv ==
    ASSUME SchedInv, NEW c \in Callers, NEW m \in Monitors, Postpone(c, m)
    PROVE  SchedInv'
<1> DEFINE s == batch[c].snap[m]
<1> DEFINE t == [s EXCEPT !.silent = @ + 1]
<1> DEFINE g == [ghost[m] EXCEPT !.quiet = Capped(@ + 1, MaxRetries)]
<1> DEFINE w == row[m]
<1> DEFINE r == IF row[m].stored THEN [w EXCEPT !.next = Retry, !.sched = t] ELSE w
<1>1. /\ batch[c].phase = "run" /\ batch[c].stage[m] # "no" /\ lock' = lock
      /\ s.silent + 1 < MaxRetries /\ Advance(c, m, "no") /\ "no" \in Stages
  BY DEF Postpone, DomainSilent, At, Stages
<1>2. /\ w \in Row /\ ghost[m] \in Ghost /\ (~w.stored => w = NoRow) /\ s \in Sched /\ Fits(s, ghost[m])
      /\ row = [row EXCEPT ![m] = w] /\ row \in [Monitors -> Row] /\ ghost \in [Monitors -> Ghost]
  BY <1>1, OneScan DEF SchedInv, RowInv, CountInv
<1>3. t \in Sched /\ g \in Ghost /\ Fits(t, g)
  <2>1. s \in Sched /\ s.silent + 1 < MaxRetries /\ ghost[m] \in Ghost /\ Fits(s, ghost[m])
    BY <1>1, <1>2
  <2> HIDE DEF s
  <2>2. QED
    BY <2>1, SilentOnce
<1>4. ghost' = [ghost EXCEPT ![m] = g]
  BY DEF Postpone
<1>5. row' = [row EXCEPT ![m] = r] /\ due' = IF row[m].stored THEN DueWithout(m) ELSE due
  BY <1>2 DEF Postpone
<1>6. /\ BatchInv' /\ DnsInv'
      /\ \A d \in Callers : batch'[d].snap = batch[d].snap /\ Uses(batch'[d]) \subseteq Uses(batch[d])
      /\ \A d \in Callers : m \notin Uses(batch'[d])
  <2>1. BatchInv
    BY DEF SchedInv
  <2>2. DnsInv'
    BY DEF Postpone, DomainSilent, SchedInv, DnsInv
  <2>3. QED
    BY <1>1, <2>1, <2>2, Advances
<1>7. Retry \in Never..Interval /\ Retry # 0
  BY Settings DEF Never
<1>8. Fits(NoSched, g)
  <2> HIDE DEF g
  <2>1. QED
    BY <1>3, NothingCounted
<1>9. /\ r \in Row /\ (~r.stored => r = NoRow) /\ Fits(r.sched, g)
      /\ IF w.stored THEN r.next # 0 ELSE r = w
  <2>0. r = IF w.stored THEN [w EXCEPT !.next = Retry, !.sched = t] ELSE w
    OBVIOUS
  <2> HIDE DEF t, w, g, r
  <2>1. CASE w.stored
    <3>1. r = [w EXCEPT !.next = Retry, !.sched = t]
      BY <2>0, <2>1
    <3>2. r \in Row /\ r.stored = w.stored /\ r.next = Retry /\ r.sched = t
      BY <1>2, <1>3, <1>7, <3>1 DEF Row
    <3>3. QED
      BY <1>3, <1>7, <2>1, <3>2
  <2>2. CASE ~w.stored
    <3>1. r = w /\ w.sched = NoSched
      BY <1>2, <2>0, <2>2 DEF NoRow
    <3>2. QED
      BY <1>2, <1>8, <2>2, <3>1
  <2>3. QED
    BY <2>1, <2>2
<1> HIDE DEF r, g, t, s
<1>10. QED
  BY <1>3, <1>4, <1>5, <1>6, <1>9, StepInv
\* A domain that was silent too often goes back to its slots.
LEMMA GiveUpInv ==
    ASSUME SchedInv, NEW c \in Callers, NEW m \in Monitors, GiveUp(c, m)
    PROVE  SchedInv'
<1> DEFINE s == batch[c].snap[m]
<1> DEFINE t == [s EXCEPT !.silent = 0]
<1> DEFINE g == [ghost[m] EXCEPT !.quiet = 0]
<1> DEFINE w == row[m]
<1>1. /\ batch[c].phase = "run" /\ batch[c].stage[m] # "no" /\ lock' = lock
      /\ (IF w.stored THEN Advance(c, m, "no") ELSE Raise(c, m)) /\ "no" \in Stages
  BY DEF GiveUp, DomainSilent, At, Stages
<1>2. /\ w \in Row /\ ghost[m] \in Ghost /\ (~w.stored => w = NoRow) /\ s \in Sched /\ Fits(s, ghost[m])
      /\ row = [row EXCEPT ![m] = w] /\ row \in [Monitors -> Row] /\ ghost \in [Monitors -> Ghost]
  BY <1>1, OneScan DEF SchedInv, RowInv, CountInv
<1>3. t \in Sched /\ g \in Ghost /\ Fits(t, g)
  <2>1. s \in Sched /\ ghost[m] \in Ghost /\ Fits(s, ghost[m])
    BY <1>2
  <2> HIDE DEF s
  <2>2. QED
    BY <2>1, SilentNoMore
<1>4. ghost' = [ghost EXCEPT ![m] = g]
  BY DEF GiveUp
<1>5. /\ BatchInv' /\ DnsInv'
      /\ \A d \in Callers : batch'[d].snap = batch[d].snap /\ Uses(batch'[d]) \subseteq Uses(batch[d])
      /\ \A d \in Callers : m \notin Uses(batch'[d])
  <2>1. BatchInv
    BY DEF SchedInv
  <2>2. DnsInv'
    BY DEF GiveUp, DomainSilent, SchedInv, DnsInv
  <2>3. CASE w.stored
    BY <1>1, <2>1, <2>2, <2>3, Advances
  <2>4. CASE ~w.stored
    BY <1>1, <2>1, <2>2, <2>4, Raises
  <2>5. QED
    BY <2>3, <2>4
<1>6. CASE w.stored
  <2>1. PICK slot \in Slots : row' = [row EXCEPT ![m].next = slot, ![m].sched = t]
    BY <1>6 DEF GiveUp
  <2>2. due' = DueWithout(m)
    BY <1>6 DEF GiveUp
  <2> DEFINE r == [w EXCEPT !.next = slot, !.sched = t]
  <2>3. row' = [row EXCEPT ![m] = r]
    BY <1>2, <2>1
  <2>4. slot \in Never..Interval /\ slot # 0
    BY Settings DEF Slots, Never
  <2>5. r = [w EXCEPT !.next = slot, !.sched = t]
    OBVIOUS
  <2> HIDE DEF r, w, t, g
  <2>6. r \in Row /\ r.stored = w.stored /\ r.next = slot /\ r.sched = t
    BY <1>2, <1>3, <2>4, <2>5 DEF Row
  <2>7. r \in Row /\ (~r.stored => r = NoRow) /\ Fits(r.sched, g) /\ r.next # 0
    BY <1>3, <1>6, <2>4, <2>6
  <2>8. QED
    BY <1>3, <1>4, <1>5, <2>2, <2>3, <2>7, StepInv
<1>7. CASE ~w.stored
  <2>1. row' = [row EXCEPT ![m] = w] /\ due' = due /\ w.next = row[m].next
    BY <1>2, <1>7 DEF GiveUp
  <2> HIDE DEF t, g
  <2>2. Fits(w.sched, g)
    <3>1. w.sched = NoSched
      BY <1>2, <1>7 DEF NoRow
    <3>2. QED
      BY <1>3, <3>1, NothingCounted
  <2>3. (w.next = 0 <=> row[m].next = 0) /\ w \in Row /\ (~w.stored => w = NoRow)
    BY <1>2
  <2> HIDE DEF w
  <2>4. QED
    BY <1>3, <1>4, <1>5, <2>1, <2>2, <2>3, StepInv
<1>8. QED
  BY <1>6, <1>7

\* The next scan is set to a later slot.
LEMMA NextSet ==
    ASSUME NEW m \in Monitors, NEW t \in Slots, SetNext(m, t), row \in [Monitors -> Row]
    PROVE  /\ [row[m] EXCEPT !.next = t] \in Row
           /\ row' = [row EXCEPT ![m] = [row[m] EXCEPT !.next = t]]
           /\ due' = DueWithout(m)
           /\ [row[m] EXCEPT !.next = t].next # 0
           /\ [row[m] EXCEPT !.next = t].stored = row[m].stored
           /\ [row[m] EXCEPT !.next = t].sched = row[m].sched
<1>1. t \in Never..Interval /\ t # 0
  BY Settings DEF Slots, Never
<1>2. due' = DueWithout(m) /\ row' = [row EXCEPT ![m] = [row[m] EXCEPT !.next = t]]
  BY <1>1 DEF SetNext
<1> DEFINE w == row[m]
<1>3. w \in Row
  OBVIOUS
<1> HIDE DEF w
<1>4. /\ [w EXCEPT !.next = t] \in Row /\ [w EXCEPT !.next = t].next # 0
      /\ [w EXCEPT !.next = t].stored = w.stored /\ [w EXCEPT !.next = t].sched = w.sched
  BY <1>1, <1>3 DEF Row
<1>5. QED
  BY <1>2, <1>4 DEF w

\* A scan is stored and the next one planned.
LEMMA MarkInv ==
    ASSUME SchedInv, NEW c \in Callers, NEW m \in Monitors, Mark(c, m)
    PROVE  SchedInv'
<1>1. /\ batch[c].phase = "run" /\ batch[c].stage[m] # "no" /\ lock' = lock /\ ghost' = ghost
      /\ Advance(c, m, "marked") /\ "marked" \in Stages /\ row[m].stored
  BY DEF Mark, At, Stages
<1>2. /\ ghost[m] \in Ghost /\ Fits(row[m].sched, ghost[m])
      /\ ghost = [ghost EXCEPT ![m] = ghost[m]] /\ row \in [Monitors -> Row]
  BY <1>1, OneScan DEF SchedInv, RowInv
<1>3. PICK t \in Slots : SetNext(m, t)
  BY DEF Mark
<1>4. /\ BatchInv' /\ DnsInv'
      /\ \A d \in Callers : batch'[d].snap = batch[d].snap /\ Uses(batch'[d]) \subseteq Uses(batch[d])
  BY <1>1, Advances DEF SchedInv, Mark, DnsInv
<1> DEFINE r == [row[m] EXCEPT !.next = t]
<1> DEFINE g == ghost[m]
<1>5. /\ r \in Row /\ row' = [row EXCEPT ![m] = r] /\ due' = DueWithout(m) /\ r.next # 0
      /\ (~r.stored => r = NoRow) /\ Fits(r.sched, g)
  <2>1. /\ r \in Row /\ row' = [row EXCEPT ![m] = r] /\ due' = DueWithout(m) /\ r.next # 0
        /\ r.stored = row[m].stored /\ r.sched = row[m].sched
    BY <1>2, <1>3, NextSet
  <2> HIDE DEF r
  <2>2. QED
    BY <1>1, <1>2, <2>1
<1>6. g \in Ghost /\ ghost' = [ghost EXCEPT ![m] = g] /\ g = ghost[m]
  BY <1>1, <1>2
<1> HIDE DEF r, g
<1>7. QED
  BY <1>4, <1>5, <1>6, StepInv

\* A scan that went well starts the counts again.
LEMMA SucceedInv ==
    ASSUME SchedInv, NEW c \in Callers, NEW m \in Monitors, Succeed(c, m)
    PROVE  SchedInv'
<1> DEFINE w == row[m]
<1> DEFINE r == IF w.stored THEN [w EXCEPT !.sched = NoSched] ELSE w
<1> DEFINE g == [ghost[m] EXCEPT !.bad = 0, !.quiet = 0]
<1>1. /\ batch[c].phase = "run" /\ batch[c].stage[m] # "no" /\ lock' = lock /\ due' = due
      /\ Advance(c, m, "no") /\ "no" \in Stages
  BY DEF Succeed, At, Stages
<1>2. /\ w \in Row /\ ghost[m] \in Ghost /\ (~w.stored => w = NoRow)
      /\ row = [row EXCEPT ![m] = w] /\ row \in [Monitors -> Row] /\ ghost \in [Monitors -> Ghost]
  BY <1>1, OneScan DEF SchedInv, RowInv, CountInv
<1>3. row' = [row EXCEPT ![m] = r] /\ ghost' = [ghost EXCEPT ![m] = g]
  BY <1>2 DEF Succeed
<1>4. /\ BatchInv' /\ DnsInv'
      /\ \A d \in Callers : batch'[d].snap = batch[d].snap /\ Uses(batch'[d]) \subseteq Uses(batch[d])
      /\ \A d \in Callers : m \notin Uses(batch'[d])
  BY <1>1, Advances DEF SchedInv, Succeed, DnsInv
<1>5. g \in Ghost
  <2> DEFINE h == ghost[m]
  <2>1. h \in Ghost /\ g = [h EXCEPT !.bad = 0, !.quiet = 0]
    BY <1>2
  <2>2. 0 \in 0..MaxFailures /\ 0 \in 0..MaxRetries
    BY Settings
  <2> HIDE DEF h, g
  <2>3. QED
    BY <2>1, <2>2 DEF Ghost
<1>6. r \in Row /\ (~r.stored => r = NoRow) /\ r.sched = NoSched /\ r.next = w.next
  <2>1. r = IF w.stored THEN [w EXCEPT !.sched = NoSched] ELSE w
    OBVIOUS
  <2> HIDE DEF w, r
  <2>2. CASE w.stored
    BY <1>2, <2>1, <2>2, Blanks DEF Row
  <2>3. CASE ~w.stored
    BY <1>2, <2>1, <2>3 DEF NoRow
  <2>4. QED
    BY <2>2, <2>3
<1>7. (r.next = 0 <=> row[m].next = 0)
  BY <1>6
<1> HIDE DEF r, g
<1>8. Fits(r.sched, g)
  BY <1>5, <1>6, NothingCounted
<1>9. QED
  BY <1>1, <1>3, <1>4, <1>5, <1>6, <1>7, <1>8, StepInv

\* A scan that raised is counted, or ends the run when its monitor is gone.
LEMMA FailInv ==
    ASSUME SchedInv, NEW c \in Callers, NEW m \in Monitors, Fail(c, m)
    PROVE  SchedInv'
<1> DEFINE s == batch[c].snap[m]
<1> DEFINE w == row[m]
<1> DEFINE t == Failed(s)
<1> DEFINE r == IF w.stored THEN [w EXCEPT !.sched = t] ELSE w
<1> DEFINE g == [ghost[m] EXCEPT !.bad = Capped(@ + 1, MaxFailures)]
<1>1. /\ batch[c].phase = "run" /\ batch[c].stage[m] # "no" /\ lock' = lock /\ due' = due
      /\ (IF w.stored THEN Advance(c, m, "no") ELSE Raise(c, m)) /\ "no" \in Stages
  BY DEF Fail, At, Stages
<1>2. /\ w \in Row /\ ghost[m] \in Ghost /\ (~w.stored => w = NoRow) /\ s \in Sched /\ Fits(s, ghost[m])
      /\ row = [row EXCEPT ![m] = w] /\ row \in [Monitors -> Row] /\ ghost \in [Monitors -> Ghost]
  BY <1>1, OneScan DEF SchedInv, RowInv, CountInv
<1>3. t \in Sched /\ g \in Ghost /\ Fits(t, g)
  <2> HIDE DEF s
  <2>1. QED
    BY <1>2, FailedOnce
<1>4. row' = [row EXCEPT ![m] = r] /\ ghost' = [ghost EXCEPT ![m] = g]
  BY <1>2 DEF Fail
<1>5. /\ BatchInv' /\ DnsInv'
      /\ \A d \in Callers : batch'[d].snap = batch[d].snap /\ Uses(batch'[d]) \subseteq Uses(batch[d])
      /\ \A d \in Callers : m \notin Uses(batch'[d])
  <2>1. BatchInv
    BY DEF SchedInv
  <2>2. DnsInv'
    BY DEF Fail, SchedInv, DnsInv
  <2>3. CASE w.stored
    BY <1>1, <2>1, <2>2, <2>3, Advances
  <2>4. CASE ~w.stored
    BY <1>1, <2>1, <2>2, <2>4, Raises
  <2>5. QED
    BY <2>3, <2>4
<1>6. r \in Row /\ (~r.stored => r = NoRow) /\ (r.sched = t \/ r.sched = NoSched) /\ r.next = w.next
  <2>1. r = IF w.stored THEN [w EXCEPT !.sched = t] ELSE w
    OBVIOUS
  <2> HIDE DEF w, r, t
  <2>2. CASE w.stored
    BY <1>2, <1>3, <2>1, <2>2 DEF Row
  <2>3. CASE ~w.stored
    BY <1>2, <2>1, <2>3 DEF NoRow
  <2>4. QED
    BY <2>2, <2>3
<1>7. (r.next = 0 <=> row[m].next = 0)
  BY <1>6
<1> HIDE DEF r, g, t
<1>8. Fits(r.sched, g)
  BY <1>3, <1>6, NothingCounted
<1>9. QED
  BY <1>1, <1>3, <1>4, <1>5, <1>6, <1>7, <1>8, StepInv
\* A writer that is no run: one row changes.
LEMMA WriterInv ==
    ASSUME SchedInv, NEW m \in Monitors, NEW r \in Row, ~r.stored => r = NoRow,
           row' = [row EXCEPT ![m] = r], Fits(r.sched, ghost[m]),
           \/ due' = DueWithout(m) /\ r.next # 0
           \/ due' = Append(DueWithout(m), m) /\ r.next = 0
           \/ due' = due /\ (r.next = 0 <=> row[m].next = 0),
           Rows
    PROVE  SchedInv'
<1> DEFINE g == ghost[m]
<1>1. g \in Ghost /\ ghost' = [ghost EXCEPT ![m] = g] /\ Fits(r.sched, g) /\ g = ghost[m]
  BY DEF SchedInv, CountInv, Rows
<1>2. /\ BatchInv' /\ DnsInv'
      /\ \A d \in Callers : batch'[d].snap = batch[d].snap /\ Uses(batch'[d]) \subseteq Uses(batch[d])
  <2>1. lock' = lock /\ batch' = batch /\ dns' = dns
    BY DEF Rows
  <2>2. QED
    BY <2>1 DEF SchedInv, BatchInv, Holding, WaitsOnce, DnsInv
<1> HIDE DEF g
<1>3. QED
  BY <1>1, <1>2, StepInv

\* What is known of the row of a stored monitor.
LEMMA OneStored ==
    ASSUME SchedInv, NEW m \in Monitors
    PROVE  /\ row[m] \in Row /\ row \in [Monitors -> Row]
           /\ ghost[m] \in Ghost /\ Fits(row[m].sched, ghost[m])
BY DEF SchedInv, RowInv, CountInv, RowsFit

\* A new monitor: nothing is known of it and no run works on it.
LEMMA CreateInv == ASSUME SchedInv, NEW m \in Monitors, Create(m) PROVE SchedInv'
<1>1. PICK on \in BOOLEAN, t \in {0} \cup Slots :
          /\ row' = [row EXCEPT ![m] = [NoRow EXCEPT !.stored = TRUE, !.enabled = on,
                                                     !.next = IF on THEN t ELSE Never]]
          /\ due' = IF (IF on THEN t ELSE Never) = 0 THEN Append(due, m) ELSE due
  BY DEF Create
<1> DEFINE next == IF on THEN t ELSE Never
<1> DEFINE r == [NoRow EXCEPT !.stored = TRUE, !.enabled = on, !.next = next]
<1>2. next \in Never..Interval
  BY Settings DEF Slots, Never
<1>3. row' = [row EXCEPT ![m] = r] /\ due' = IF next = 0 THEN Append(due, m) ELSE due
  BY <1>1
<1>4. row[m].next # 0 /\ DueWithout(m) = due
  <2>1. row[m] = NoRow
    BY DEF Create, SchedInv, RowInv, GoneIsBlank
  <2>2. row[m].next # 0
    BY <2>1 DEF NoRow, Never
  <2>3. QED
    BY <2>2 DEF SchedInv, DueInv, DueWithout
<1> HIDE DEF next
<1>5. r \in Row /\ r.stored /\ r.next = next /\ r.sched = NoSched
  BY <1>2, Blanks DEF NoRow, Row
<1>6. \/ due' = DueWithout(m) /\ r.next # 0
      \/ due' = Append(DueWithout(m), m) /\ r.next = 0
      \/ due' = due /\ (r.next = 0 <=> row[m].next = 0)
  BY <1>3, <1>4, <1>5
<1> DEFINE g == NoHistory
<1>7. g \in Ghost /\ Fits(r.sched, g) /\ ghost' = [ghost EXCEPT ![m] = g]
  BY <1>5, Blanks, NothingCounted DEF Create
<1>8. /\ BatchInv' /\ DnsInv'
      /\ \A d \in Callers : batch'[d].snap = batch[d].snap /\ Uses(batch'[d]) \subseteq Uses(batch[d])
      /\ \A d \in Callers : m \notin Uses(batch'[d])
  <2>1. lock' = lock /\ batch' = batch /\ dns' = dns /\ Unused(m)
    BY DEF Create
  <2>2. QED
    BY <2>1 DEF SchedInv, BatchInv, Holding, WaitsOnce, DnsInv, Unused, Uses, Busy
<1> HIDE DEF r, g
<1>9. QED
  BY <1>3, <1>5, <1>6, <1>7, <1>8, StepInv

\* Every other writer leaves the counts alone or sets them to nothing.
LEMMA ApiInv == ASSUME SchedInv, NEW m \in Monitors, ApiStep(m) PROVE SchedInv'
<1> DEFINE w == row[m]
<1>0. w \in Row /\ row \in [Monitors -> Row] /\ ghost[m] \in Ghost /\ Fits(w.sched, ghost[m])
  BY OneStored
<1>1. CASE Create(m)
  BY <1>1, CreateInv
<1>2. CASE Delete(m)
  <2> DEFINE r == NoRow
  <2>1. row' = [row EXCEPT ![m] = r] /\ due' = DueWithout(m) /\ Rows
    BY <1>2 DEF Delete
  <2>2. r \in Row /\ r.next # 0 /\ r = NoRow /\ Fits(r.sched, ghost[m])
    <3>1. r.sched = NoSched /\ r.next # 0
      BY DEF NoRow, Never
    <3>2. QED
      BY <1>0, <3>1, Blanks, NothingCounted
  <2> HIDE DEF r
  <2>3. QED
    BY <2>1, <2>2, WriterInv
<1>3. CASE Pause(m)
  <2> DEFINE r == [w EXCEPT !.enabled = FALSE, !.next = Never]
  <2>1. w.stored /\ row' = [row EXCEPT ![m] = r] /\ due' = DueWithout(m) /\ Rows
    BY <1>0, <1>3 DEF Pause
  <2>2. r = [w EXCEPT !.enabled = FALSE, !.next = Never]
    OBVIOUS
  <2>3. Never \in Never..Interval /\ Never # 0
    BY Settings DEF Never
  <2> HIDE DEF r, w
  <2>4. r \in Row /\ r.stored /\ r.next # 0 /\ Fits(r.sched, ghost[m])
    BY <1>0, <2>1, <2>2, <2>3 DEF Row
  <2>5. QED
    BY <2>1, <2>4, WriterInv
<1>4. CASE Resume(m)
  <2>1. PICK t \in {0} \cup Slots :
            /\ row' = [row EXCEPT ![m].enabled = TRUE, ![m].next = t]
            /\ due' = IF t = 0 THEN Append(DueWithout(m), m) ELSE DueWithout(m)
    BY <1>4 DEF Resume
  <2> DEFINE r == [w EXCEPT !.enabled = TRUE, !.next = t]
  <2>2. w.stored /\ row' = [row EXCEPT ![m] = r] /\ Rows
    BY <1>0, <1>4, <2>1 DEF Resume
  <2>3. r = [w EXCEPT !.enabled = TRUE, !.next = t]
    OBVIOUS
  <2>4. t \in Never..Interval
    BY Settings DEF Never, Slots
  <2> HIDE DEF r, w
  <2>5. r \in Row /\ r.stored /\ r.next = t /\ Fits(r.sched, ghost[m])
    BY <1>0, <2>2, <2>3, <2>4 DEF Row
  <2>6. \/ due' = DueWithout(m) /\ r.next # 0
        \/ due' = Append(DueWithout(m), m) /\ r.next = 0
    BY <2>1, <2>5
  <2>7. QED
    BY <2>2, <2>5, <2>6, WriterInv
<1>5. CASE SetTime(m) \/ ManualScan(m)
  <2>1. PICK t \in Slots : SetNext(m, t)
    BY <1>5 DEF SetTime, ManualScan
  <2> DEFINE r == [w EXCEPT !.next = t]
  <2>2. w.stored /\ Rows
    BY <1>5 DEF SetTime, ManualScan
  <2>3. /\ r \in Row /\ row' = [row EXCEPT ![m] = r] /\ due' = DueWithout(m) /\ r.next # 0
        /\ r.stored = w.stored /\ r.sched = w.sched
    BY <1>0, <2>1, NextSet
  <2> HIDE DEF r
  <2>4. r.stored /\ Fits(r.sched, ghost[m])
    BY <1>0, <2>2, <2>3
  <2>5. QED
    BY <2>2, <2>3, <2>4, WriterInv
<1>6. CASE Switch(m)
  <2> DEFINE on == ~w.enabled
  <2> DEFINE r == [w EXCEPT !.enabled = on]
  <2>1. w.stored /\ row' = [row EXCEPT ![m] = r] /\ due' = due /\ Rows
    BY <1>0, <1>6 DEF Switch
  <2>2. on \in BOOLEAN
    OBVIOUS
  <2>3. r = [w EXCEPT !.enabled = on]
    OBVIOUS
  <2> HIDE DEF r, on
  <2>4. r \in Row /\ r.stored /\ r.next = row[m].next /\ Fits(r.sched, ghost[m])
    <3> HIDE DEF w
    <3>1. r \in Row /\ r.stored /\ r.next = w.next /\ Fits(r.sched, ghost[m])
      BY <1>0, <2>1, <2>2, <2>3 DEF Row
    <3>2. QED
      BY <3>1 DEF w
  <2>5. (r.next = 0 <=> row[m].next = 0)
    BY <2>4
  <2>6. QED
    BY <2>1, <2>4, <2>5, WriterInv
<1>7. CASE Import(m)
  <2>1. PICK on \in BOOLEAN, t \in Slots \cup {row[m].next} :
            /\ row' = [row EXCEPT ![m].enabled = on, ![m].sched = NoSched, ![m].next = t]
            /\ due' = IF t = 0 THEN due ELSE DueWithout(m)
    BY <1>7 DEF Import
  <2> DEFINE r == [w EXCEPT !.enabled = on, !.sched = NoSched, !.next = t]
  <2>2. w.stored /\ row' = [row EXCEPT ![m] = r] /\ Rows
    BY <1>0, <1>7, <2>1 DEF Import
  <2>3. r = [w EXCEPT !.enabled = on, !.sched = NoSched, !.next = t]
    OBVIOUS
  <2>4. t \in Never..Interval /\ (t = 0 => row[m].next = 0)
    <3>1. \A slot \in Slots : slot \in Never..Interval /\ slot # 0
      BY Settings DEF Never, Slots
    <3>2. w.next \in Never..Interval
      <4> HIDE DEF w
      <4>1. QED
        BY <1>0 DEF Row
    <3>3. QED
      BY <2>1, <3>1, <3>2
  <2> HIDE DEF r, w
  <2>5. r \in Row /\ r.stored /\ r.next = t /\ r.sched = NoSched
    BY <1>0, <2>2, <2>3, <2>4, Blanks DEF Row
  <2>6. Fits(r.sched, ghost[m])
    BY <1>0, <2>5, NothingCounted
  <2>7. \/ due' = DueWithout(m) /\ r.next # 0
        \/ due' = due /\ (r.next = 0 <=> row[m].next = 0)
    BY <2>1, <2>4, <2>5
  <2>8. QED
    BY <2>2, <2>5, <2>6, <2>7, WriterInv
<1>8. QED
  BY <1>1, <1>2, <1>3, <1>4, <1>5, <1>6, <1>7 DEF ApiStep

(***************************************************************************)
(* Time.                                                                   *)
(***************************************************************************)
\* A row after one more tick.
Later(w) == [w EXCEPT !.next = IF @ > 0 THEN @ - 1 ELSE @,
                      !.sched.backoff = IF @ > 0 THEN @ - 1 ELSE @]

\* A tick moves a row towards its time and out of its backoff.
LEMMA LaterRow ==
    ASSUME NEW w \in Row
    PROVE  /\ Later(w) \in Row /\ Later(w).stored = w.stored
           /\ Later(w).next = (IF w.next > 0 THEN w.next - 1 ELSE w.next)
           /\ \A g \in Ghost : Fits(w.sched, g) => Fits(Later(w).sched, g)
           /\ w = NoRow => Later(w) = NoRow
<1> DEFINE n == IF w.next > 0 THEN w.next - 1 ELSE w.next
<1> DEFINE s == w.sched
<1> DEFINE b == IF s.backoff > 0 THEN s.backoff - 1 ELSE s.backoff
<1> DEFINE t == [s EXCEPT !.backoff = b]
<1>1. Later(w) = [w EXCEPT !.next = n, !.sched = t]
  BY DEF Later, Row
<1>2. w.next \in Never..Interval /\ s \in Sched
  BY DEF Row
<1>3. n \in Never..Interval
  BY <1>2, Settings DEF Never
<1> HIDE DEF n, s
<1>4. b \in 0..BackoffTicks /\ (b > 0 => s.backoff > 0)
  BY <1>2, Settings DEF Sched
<1>9. s = NoSched => b = 0
  BY DEF NoSched
<1> HIDE DEF b
<1>5. t \in Sched /\ t.fails = s.fails /\ t.silent = s.silent /\ t.backoff = b
  BY <1>2, <1>4 DEF Sched
<1>6. s = NoSched => t = NoSched
  BY <1>9 DEF NoSched
<1> HIDE DEF t
<1>7. /\ Later(w) \in Row /\ Later(w).stored = w.stored
      /\ Later(w).next = n /\ Later(w).sched = t
  BY <1>1, <1>3, <1>5 DEF Row
<1>8. w = NoRow => Later(w) = NoRow
  <2>1. SUFFICES ASSUME w = NoRow PROVE Later(w) = NoRow
    OBVIOUS
  <2>2. s = NoSched /\ n = Never
    BY <2>1 DEF s, n, NoRow, Never
  <2>3. QED
    BY <1>1, <1>6, <2>1, <2>2 DEF NoRow
<1>10. \A g \in Ghost : Fits(s, g) => Fits(t, g)
  BY <1>4, <1>5 DEF Fits
<1>11. QED
  BY <1>7, <1>8, <1>10 DEF n, s

\* Time passes: rows become due, those that were due stay so.
LEMMA TickInv == ASSUME SchedInv, Tick PROVE SchedInv'
<1>1. /\ row \in [Monitors -> Row] /\ ghost \in [Monitors -> Ghost]
      /\ due \in Seq(Monitors) /\ IsInjective(due) /\ Range(due) = {m \in Monitors : row[m].next = 0}
  BY DEF SchedInv, RowInv, DueInv, CountInv
<1>2. row' = [m \in Monitors |-> Later(row[m])] /\ UNCHANGED <<lock, batch, ghost>>
  BY DEF Tick, Later
<1>3. ASSUME NEW m \in Monitors
      PROVE  /\ row'[m] \in Row /\ row'[m].stored = row[m].stored
             /\ row'[m].next = (IF row[m].next > 0 THEN row[m].next - 1 ELSE row[m].next)
             /\ Fits(row'[m].sched, ghost[m])
             /\ (row[m] = NoRow => row'[m] = NoRow)
  <2> DEFINE w == row[m]
  <2>1. w \in Row /\ ghost[m] \in Ghost /\ Fits(w.sched, ghost[m]) /\ row'[m] = Later(w)
    BY <1>1, <1>2 DEF SchedInv, CountInv, RowsFit
  <2> HIDE DEF w
  <2>2. QED
    BY <2>1, LaterRow DEF w
<1>4. RowInv'
  BY <1>2, <1>3 DEF SchedInv, RowInv, GoneIsBlank
<1>5. DueInv'
  <2> DEFINE soon == {m \in Monitors : row[m].next = 1}
  <2>1. PICK fresh \in SetToSeqs(soon) : due' = due \o fresh
    BY DEF Tick
  <2>2. soon \in SUBSET Monitors
    OBVIOUS
  <2> DEFINE now == {m \in Monitors : row'[m].next = 0}
  <2>3. Range(due) \cap soon = {} /\ now = Range(due) \cup soon
    <3>1. Range(due) \cap soon = {}
      BY <1>1
    <3>2. \A m \in Monitors : row[m].next \in Int
      BY <1>1 DEF Row, Never
    <3>3. QED
      BY <1>1, <1>3, <3>1, <3>2
  <2> HIDE DEF soon, now
  <2>4. fresh \in Seq(Monitors) /\ IsInjective(fresh) /\ Range(fresh) = soon
    BY <2>2, Listed
  <2>5. due' \in Seq(Monitors) /\ IsInjective(due') /\ Range(due') = now
    BY <1>1, <2>1, <2>3, <2>4, Joined
  <2>6. QED
    BY <2>5 DEF DueInv, now
<1>6. BatchInv' /\ SnapsFit'
  BY <1>2 DEF SchedInv, BatchInv, Holding, WaitsOnce, CountInv, SnapsFit
<1>7. CountInv'
  BY <1>1, <1>2, <1>3, <1>6 DEF CountInv, RowsFit
<1>8. DnsInv'
  BY DEF Tick, SchedInv, DnsInv
<1>9. QED
  BY <1>4, <1>5, <1>6, <1>7, <1>8 DEF SchedInv

(***************************************************************************)
(* The invariant and the theorems.                                         *)
(***************************************************************************)
\* The invariant holds of an empty table.
LEMMA SchedInitInv == Init => SchedInv
<1>1. SUFFICES ASSUME Init PROVE SchedInv
  OBVIOUS
<1>2. RowInv /\ DnsInv
  BY <1>1, Blanks, Settings DEF Init, RowInv, GoneIsBlank, DnsInv
<1>3. DueInv
  <2>1. \A m \in Monitors : row[m].next # 0
    BY <1>1 DEF Init, NoRow, Never
  <2>2. due \in Seq(Monitors) /\ DOMAIN due = {}
    BY <1>1 DEF Init
  <2>3. QED
    BY <2>1, <2>2 DEF DueInv, IsInjective, Range
<1>4. BatchInv
  <2>1. IsInjective(NoBatch.todo) /\ DOMAIN NoBatch.todo = {}
    BY DEF NoBatch, IsInjective
  <2>2. batch \in [Callers -> Batch] /\ (\A c \in Callers : batch[c] = NoBatch) /\ lock = None
    BY <1>1, Blanks DEF Init
  <2>3. QED
    BY <2>1, <2>2 DEF BatchInv, Holding, WaitsOnce
<1>5. CountInv
  <2>1. ghost \in [Monitors -> Ghost] /\ \A m \in Monitors : row[m].sched = NoSched
    BY <1>1, Blanks DEF Init, NoRow
  <2>2. RowsFit
    BY <2>1, NothingCounted DEF RowsFit
  <2>3. SnapsFit
    BY <1>1, NoRunNoUse DEF Init, SnapsFit
  <2>4. QED
    BY <2>1, <2>2, <2>3 DEF CountInv
<1>6. QED
  BY <1>2, <1>3, <1>4, <1>5 DEF SchedInv

\* Every step keeps the invariant.
LEMMA SchedNextInv == SchedInv /\ [Next]_vars => SchedInv'
<1>1. SUFFICES ASSUME SchedInv, [Next]_vars PROVE SchedInv'
  OBVIOUS
<1>2. ASSUME NEW c \in Callers, RunStep(c) PROVE SchedInv'
  BY <1>1, <1>2, BeginInv, StrandInv, ProbeInv, TakeInv, FinishInv DEF RunStep
<1>3. ASSUME NEW c \in Callers, NEW m \in Monitors, ScanStep(c, m) PROVE SchedInv'
  BY <1>1, <1>3, AskInv, PostponeInv, GiveUpInv, MarkInv, SucceedInv, FailInv DEF ScanStep
<1>4. ASSUME NEW m \in Monitors, ApiStep(m) PROVE SchedInv'
  BY <1>1, <1>4, ApiInv
<1>5. ASSUME Tick PROVE SchedInv'
  BY <1>1, <1>5, TickInv
<1>6. ASSUME (Outage \/ Recover) \/ UNCHANGED vars PROVE SchedInv'
  <2>1. UNCHANGED <<row, due, lock, batch, ghost>>
    BY <1>6 DEF Outage, Recover, vars
  <2>2. DnsInv'
    <3>1. dns \in [up : BOOLEAN, cached : {"none", "ok", "down"}, left : 0..Outages]
      BY <1>1 DEF SchedInv, DnsInv
    <3>2. CASE Outage
      <4>1. dns.left - 1 \in 0..Outages
        BY <3>1, <3>2, Settings DEF Outage
      <4>2. QED
        BY <3>1, <3>2, <4>1 DEF Outage, DnsInv
    <3>3. CASE Recover
      BY <3>1, <3>3 DEF Recover, DnsInv
    <3>4. CASE UNCHANGED vars
      BY <3>1, <3>4 DEF vars, DnsInv
    <3>5. QED
      BY <1>6, <3>2, <3>3, <3>4
  <2>3. QED
    BY <1>1, <2>1, <2>2 DEF SchedInv, RowInv, GoneIsBlank, DueInv, BatchInv, Holding, WaitsOnce,
                            CountInv, RowsFit, SnapsFit, Fits
<1>7. QED
  BY <1>1, <1>2, <1>3, <1>4, <1>5, <1>6 DEF Next

\* Every variable has its type, and the list of the rows that are due has
\* those rows, each once (the rows list_monitors reads).
THEOREM SchedulerTypes == Spec => []TypeOK
<1>1. SchedInv => TypeOK
  BY DEF SchedInv, RowInv, DueInv, BatchInv, DnsInv, CountInv, TypeOK
<1>2. QED
  BY SchedInitInv, SchedNextInv, <1>1, PTL DEF Spec

\* No monitor is scanned by two runs at a time, however many callers there
\* are and however a run ends (the run lock of process_due_monitors).
THEOREM OneRunEach == Spec => []OneRunPerMonitor
<1>1. SchedInv => OneRunPerMonitor
  <2>1. SUFFICES ASSUME SchedInv, NEW c \in Callers, NEW d \in Callers, c # d
                 PROVE  Busy(c) \cap Busy(d) = {}
    BY DEF OneRunPerMonitor
  <2>2. batch[c] = NoBatch \/ batch[d] = NoBatch
    BY <2>1 DEF SchedInv, BatchInv, Holding
  <2>3. \A e \in Callers : batch[e] = NoBatch => Busy(e) = {}
    BY DEF Busy, NoBatch
  <2>4. QED
    BY <2>2, <2>3
<1>2. QED
  BY SchedInitInv, SchedNextInv, <1>1, PTL DEF Spec

\* A monitor that backs off failed as often as the settings say, with no
\* success between, whoever overwrote its counts (_record_failure).
THEOREM BackoffIsEarned == Spec => []BackoffEarned
<1>1. SchedInv => BackoffEarned
  BY DEF SchedInv, CountInv, RowsFit, Fits, BackoffEarned, InBackoff
<1>2. QED
  BY SchedInitInv, SchedNextInv, <1>1, PTL DEF Spec

\* The alarm about silent name servers comes after as many silent scans as
\* the settings say (_postpone_for_dns).
THEOREM AlarmIsEarned == Spec => AlarmEarned
<1> DEFINE Raised(c, m) == GiveUp(c, m) /\ row[m].stored => ghost[m].quiet + 1 >= MaxRetries
<1>1. SchedInv /\ [Next]_vars
          => [\A c \in Callers, m \in Monitors : Raised(c, m)]_vars
  <2>1. SUFFICES ASSUME SchedInv, NEW c \in Callers, NEW m \in Monitors, GiveUp(c, m), row[m].stored
                 PROVE  ghost[m].quiet + 1 >= MaxRetries
    OBVIOUS
  <2>2. batch[c].stage[m] # "no" /\ batch[c].snap[m].silent + 1 >= MaxRetries
    BY <2>1 DEF GiveUp, DomainSilent, At
  <2>3. ghost[m] \in Ghost /\ batch[c].snap[m] \in Sched /\ Fits(batch[c].snap[m], ghost[m])
    BY <2>1, <2>2, OneScan
  <2>4. ghost[m].quiet \in Int /\ batch[c].snap[m].silent \in Int
        /\ batch[c].snap[m].silent <= ghost[m].quiet
    BY <2>3 DEF Ghost, Sched, Fits
  <2>5. QED
    BY <2>2, <2>4, Settings
<1>2. QED
  BY SchedInitInv, SchedNextInv, <1>1, PTL DEF Spec, AlarmEarned
=============================================================================
