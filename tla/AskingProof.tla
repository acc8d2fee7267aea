----------------------------- MODULE AskingProof -----------------------------
(***************************************************************************)
(* Proofs about what the program asks of others: the budget of a service   *)
(* (RateLimits), batches and their pacer (WhoisBatch), the copy of the NVD *)
(* (CveFeed) and the version check (Advisories), for every number of       *)
(* threads, batches, servers, products, records, rules and hosts and every *)
(* budget, window, interval and overlap.                                   *)
(***************************************************************************)
EXTENDS RateLimits, WhoisBatch, CveFeed, Advisories, DataLemmas, FiniteSetTheorems

(***************************************************************************)
(* PART I: RateLimits                                                      *)
(***************************************************************************)

(***************************************************************************)
(* What is forgotten: the calls up to the first young one.                 *)
(***************************************************************************)
\* n is the number of calls that Younger leaves out.
IsGone(ages, limit, n) ==
    /\ n \in 0..Len(ages)
    /\ \A i \in 1..n : ages[i] >= limit
    /\ n < Len(ages) => ages[n + 1] < limit

\* There is such a number: the calls before the first young one, or all.
LEMMA SomeGone ==
    ASSUME NEW ages \in Seq(Nat), NEW limit \in Nat
    PROVE  \E n \in 0..Len(ages) : IsGone(ages, limit, n)
<1> DEFINE Young == {i \in 1..Len(ages) : ages[i] < limit}
<1>1. Len(ages) \in Nat /\ \A i \in 1..Len(ages) : ages[i] \in Nat
  BY LenProperties
<1>2. CASE Young = {}
  <2>1. \A i \in 1..Len(ages) : ages[i] >= limit
    BY <1>1, <1>2
  <2>2. IsGone(ages, limit, Len(ages))
    BY <1>1, <2>1 DEF IsGone
  <2>3. QED
    BY <1>1, <2>2
<1>3. CASE Young # {}
  <2>0. Young \subseteq Nat
    BY <1>1
  <2> HIDE DEF Young
  <2>1. PICK first \in Young : \A k \in Young : first <= k
    BY <1>3, <2>0, LeastNumber
  <2> USE DEF Young
  <2>2. IsGone(ages, limit, first - 1)
    BY <1>1, <2>1 DEF IsGone
  <2>3. QED
    BY <1>1, <2>1, <2>2 DEF IsGone
<1>4. QED
  BY <1>2, <1>3

\* And only one, so Younger is known once a number is.
LEMMA YoungerIs ==
    ASSUME NEW ages \in Seq(Nat), NEW limit \in Nat, NEW n, IsGone(ages, limit, n)
    PROVE  Younger(ages, limit) = SubSeq(ages, n + 1, Len(ages))
<1>1. Len(ages) \in Nat /\ \A i \in 1..Len(ages) : ages[i] \in Nat
  BY LenProperties
<1>2. \A m \in 0..Len(ages) : IsGone(ages, limit, m) => m = n
  <2> SUFFICES ASSUME NEW m \in 0..Len(ages), IsGone(ages, limit, m) PROVE m = n
    OBVIOUS
  <2>1. ~(m < n)
    <3> SUFFICES ASSUME m < n PROVE FALSE
      OBVIOUS
    <3>1. m + 1 \in 1..n /\ m < Len(ages) /\ m + 1 \in 1..Len(ages)
      BY <1>1 DEF IsGone
    <3>2. ages[m + 1] >= limit /\ ages[m + 1] < limit /\ ages[m + 1] \in Nat
      BY <1>1, <3>1 DEF IsGone
    <3>3. QED
      BY <3>2
  <2>2. ~(n < m)
    <3> SUFFICES ASSUME n < m PROVE FALSE
      OBVIOUS
    <3>1. n + 1 \in 1..m /\ n < Len(ages) /\ n + 1 \in 1..Len(ages)
      BY <1>1 DEF IsGone
    <3>2. ages[n + 1] >= limit /\ ages[n + 1] < limit /\ ages[n + 1] \in Nat
      BY <1>1, <3>1 DEF IsGone
    <3>3. QED
      BY <3>2
  <2>3. QED
    BY <1>1, <2>1, <2>2 DEF IsGone
<1>3. n \in 0..Len(ages)
  BY DEF IsGone
<1>4. Gone(ages, limit) = n
  BY <1>2, <1>3 DEF IsGone, Gone
<1>5. QED
  BY <1>4 DEF Younger

\* What is kept: no longer, of the same numbers, and its first is young.
LEMMA YoungerKept ==
    ASSUME NEW ages \in Seq(Nat), NEW limit \in Nat
    PROVE  /\ Younger(ages, limit) \in Seq(Nat)
           /\ Len(Younger(ages, limit)) <= Len(ages)
           /\ Younger(ages, limit) # <<>> => Younger(ages, limit)[1] < limit
<1>1. PICK n \in 0..Len(ages) : IsGone(ages, limit, n)
  BY SomeGone
<1>2. Younger(ages, limit) = SubSeq(ages, n + 1, Len(ages))
  BY <1>1, YoungerIs
<1>3. Len(ages) \in Nat
  BY LenProperties
<1>4. /\ Younger(ages, limit) \in Seq(Nat)
      /\ Len(Younger(ages, limit)) = Len(ages) - n
      /\ \A i \in 1..(Len(ages) - n) : Younger(ages, limit)[i] = ages[n + i]
  BY <1>2, SuffixOf
<1>5. Younger(ages, limit) # <<>> => n < Len(ages)
  BY <1>3, <1>4, EmptySeq
<1>6. QED
  BY <1>1, <1>3, <1>4, <1>5 DEF IsGone

\* A list whose first is young is kept whole.
LEMMA YoungerWhole ==
    ASSUME NEW ages \in Seq(Nat), NEW limit \in Nat, ages # <<>> => ages[1] < limit
    PROVE  Younger(ages, limit) = ages
<1>1. Len(ages) \in Nat /\ (Len(ages) > 0 => ages # <<>>)
  BY LenProperties, EmptySeq
<1>2. IsGone(ages, limit, 0)
  BY <1>1 DEF IsGone
<1>3. Younger(ages, limit) = SubSeq(ages, 0 + 1, Len(ages))
  BY <1>2, YoungerIs
<1>4. QED
  BY <1>3, SubSeqFull

\* Growing older loses nothing that forgetting would not lose: it is the same
\* to forget before and after as only after.
LEMMA OlderTyped ==
    ASSUME NEW ages \in Seq(Nat)
    PROVE  /\ Older(ages) \in Seq(Nat) /\ Len(Older(ages)) = Len(ages)
           /\ \A i \in 1..Len(ages) :
                 Older(ages)[i] = IF ages[i] < Window THEN ages[i] + 1 ELSE Window
<1>1. Len(ages) \in Nat /\ DOMAIN ages = 1..Len(ages) /\ \A i \in 1..Len(ages) : ages[i] \in Nat
  BY LenProperties
<1>2. Older(ages) \in [1..Len(ages) -> Nat]
  BY <1>1, LimitsConstants DEF Older
<1>3. Older(ages) \in Seq(Nat) /\ Len(Older(ages)) = Len(ages)
  BY <1>1, <1>2
<1>4. QED
  BY <1>1, <1>3 DEF Older

LEMMA OlderForgets ==
    ASSUME NEW ages \in Seq(Nat)
    PROVE  Remembered(Older(Remembered(ages))) = Remembered(Older(ages))
<1> DEFINE s == Older(ages)
           kept == Remembered(ages)
           t == Older(kept)
           L == Len(ages)
<1>0. Window \in Nat /\ L \in Nat /\ \A i \in 1..L : ages[i] \in Nat
  BY LimitsConstants, LenProperties
<1>1. PICK n \in 0..L : IsGone(ages, Window, n)
  BY <1>0, SomeGone
<1>2. kept = SubSeq(ages, n + 1, L)
  BY <1>0, <1>1, YoungerIs DEF Remembered
<1>3. kept \in Seq(Nat) /\ Len(kept) = L - n /\ \A i \in 1..(L - n) : kept[i] = ages[n + i]
  BY <1>2, SuffixOf
<1>4. /\ s \in Seq(Nat) /\ Len(s) = L
      /\ \A i \in 1..L : s[i] = IF ages[i] < Window THEN ages[i] + 1 ELSE Window
  BY OlderTyped
<1>5. /\ t \in Seq(Nat) /\ Len(t) = L - n
      /\ \A i \in 1..(L - n) : t[i] = IF kept[i] < Window THEN kept[i] + 1 ELSE Window
  BY <1>3, OlderTyped
<1>6. \A i \in 1..(L - n) : n + i \in 1..L /\ t[i] = s[n + i]
  <2> SUFFICES ASSUME NEW i \in 1..(L - n) PROVE n + i \in 1..L /\ t[i] = s[n + i]
    OBVIOUS
  <2>1. n + i \in 1..L
    BY <1>0
  <2> HIDE DEF s, t, kept, L
  <2>2. QED
    BY <1>3, <1>4, <1>5, <2>1
<1>7. PICK m \in 0..L : IsGone(s, Window, m)
  BY <1>0, <1>4, SomeGone
<1>8. n <= m
  <2> SUFFICES ASSUME m < n PROVE FALSE
    BY <1>0
  <2>1. m + 1 \in 1..n /\ m + 1 \in 1..L /\ m < L
    BY <1>0
  <2>2. s[m + 1] < Window /\ ages[m + 1] >= Window /\ ages[m + 1] \in Nat
    BY <1>0, <1>1, <1>4, <1>7, <2>1 DEF IsGone
  <2>3. s[m + 1] = Window
    BY <1>0, <1>4, <2>1, <2>2
  <2>4. QED
    BY <1>0, <2>2, <2>3
<1> HIDE DEF s, t, kept, L
<1>9. IsGone(t, Window, m - n)
  <2>1. m - n \in 0..Len(t)
    BY <1>0, <1>5, <1>8
  <2>2. ASSUME NEW i \in 1..(m - n) PROVE t[i] >= Window
    <3>1. i \in 1..(L - n) /\ n + i \in 1..m
      BY <1>0, <1>8
    <3>2. QED
      BY <1>6, <1>7, <3>1 DEF IsGone
  <2>3. ASSUME m - n < Len(t) PROVE t[(m - n) + 1] < Window
    <3>1. (m - n) + 1 \in 1..(L - n) /\ n + ((m - n) + 1) = m + 1 /\ m < L
      BY <1>0, <1>5, <1>8, <2>3
    <3>2. QED
      BY <1>4, <1>6, <1>7, <3>1 DEF IsGone
  <2>4. QED
    BY <2>1, <2>2, <2>3 DEF IsGone
<1>10. Remembered(t) = SubSeq(t, (m - n) + 1, L - n)
  BY <1>0, <1>5, <1>9, YoungerIs DEF Remembered
<1>11. Remembered(s) = SubSeq(s, m + 1, L)
  BY <1>0, <1>4, <1>7, YoungerIs DEF Remembered
<1>12. /\ Remembered(t) \in Seq(Nat) /\ Len(Remembered(t)) = L - m
       /\ \A i \in 1..(L - m) : Remembered(t)[i] = t[(m - n) + i]
  <2>1. m - n \in 0..Len(t) /\ (L - n) - (m - n) = L - m
    BY <1>0, <1>5, <1>8
  <2>2. /\ SubSeq(t, (m - n) + 1, Len(t)) \in Seq(Nat)
        /\ Len(SubSeq(t, (m - n) + 1, Len(t))) = Len(t) - (m - n)
        /\ \A i \in 1..(Len(t) - (m - n)) : SubSeq(t, (m - n) + 1, Len(t))[i] = t[(m - n) + i]
    BY <1>5, <2>1, SuffixOf
  <2>3. QED
    BY <1>5, <1>10, <2>1, <2>2
<1>13. /\ Remembered(s) \in Seq(Nat) /\ Len(Remembered(s)) = L - m
       /\ \A i \in 1..(L - m) : Remembered(s)[i] = s[m + i]
  <2>1. /\ SubSeq(s, m + 1, Len(s)) \in Seq(Nat)
        /\ Len(SubSeq(s, m + 1, Len(s))) = Len(s) - m
        /\ \A i \in 1..(Len(s) - m) : SubSeq(s, m + 1, Len(s))[i] = s[m + i]
    BY <1>4, SuffixOf
  <2>2. QED
    BY <1>4, <1>11, <2>1
<1>14. \A i \in 1..(L - m) : Remembered(t)[i] = Remembered(s)[i]
  <2> SUFFICES ASSUME NEW i \in 1..(L - m) PROVE Remembered(t)[i] = Remembered(s)[i]
    OBVIOUS
  <2>1. (m - n) + i \in 1..(L - n) /\ n + ((m - n) + i) = m + i
    BY <1>0, <1>8
  <2>2. QED
    BY <1>6, <1>12, <1>13, <2>1
<1>15. Remembered(t) = Remembered(s)
  BY <1>12, <1>13, <1>14, SeqEqual
<1>16. QED
  BY <1>15 DEF s, t, kept

(***************************************************************************)
(* The ages of calls are kept oldest first.                                *)
(***************************************************************************)
Ordered(ages) == \A i, j \in 1..Len(ages) : i < j => ages[j] <= ages[i]

\* What is remembered is a suffix of the ages: its first is young, so all are.
LEMMA RememberedTyped ==
    ASSUME NEW ages \in Seq(0..Window), Ordered(ages)
    PROVE  /\ Remembered(ages) \in Seq(0..(Window - 1))
           /\ Len(Remembered(ages)) \in 0..Len(ages)
           /\ Ordered(Remembered(ages))
<1>1. Window \in Nat /\ ages \in Seq(Nat) /\ Len(ages) \in Nat /\ \A i \in 1..Len(ages) : ages[i] \in 0..Window
  BY LimitsConstants, SeqMonotonic, LenProperties
<1>2. PICK n \in 0..Len(ages) : IsGone(ages, Window, n)
  BY <1>1, SomeGone
<1>3. Remembered(ages) = SubSeq(ages, n + 1, Len(ages))
  BY <1>1, <1>2, YoungerIs DEF Remembered
<1>4. /\ Remembered(ages) \in Seq(0..Window) /\ Len(Remembered(ages)) = Len(ages) - n
      /\ \A i \in 1..(Len(ages) - n) : Remembered(ages)[i] = ages[n + i]
  BY <1>3, SuffixOf
<1>5. \A i \in 1..(Len(ages) - n) : n + i \in 1..Len(ages)
  BY <1>1
<1>6. Ordered(Remembered(ages))
  <2> SUFFICES ASSUME NEW i \in 1..(Len(ages) - n), NEW j \in 1..(Len(ages) - n), i < j
               PROVE  Remembered(ages)[j] <= Remembered(ages)[i]
    BY <1>4 DEF Ordered
  <2>1. n + i \in 1..Len(ages) /\ n + j \in 1..Len(ages) /\ n + i < n + j
    BY <1>5
  <2>2. QED
    BY <1>4, <2>1 DEF Ordered
<1>7. ASSUME NEW i \in 1..(Len(ages) - n) PROVE Remembered(ages)[i] \in 0..(Window - 1)
  <2>1. n + i \in 1..Len(ages) /\ n + 1 \in 1..Len(ages) /\ n < Len(ages)
    BY <1>1, <1>5
  <2>2. ages[n + 1] < Window /\ (n + 1 < n + i => ages[n + i] <= ages[n + 1])
    BY <1>2, <2>1 DEF IsGone, Ordered
  <2>3. ages[n + i] < Window /\ ages[n + i] \in 0..Window /\ ages[n + 1] \in 0..Window
    BY <1>1, <2>1, <2>2
  <2>4. Remembered(ages)[i] = ages[n + i] /\ Window \in Nat
    BY <1>4, LimitsConstants
  <2>5. QED
    BY <2>3, <2>4
<1>8. Remembered(ages) \in [1..Len(Remembered(ages)) -> 0..Window]
  BY <1>4, LenProperties
<1>9. Remembered(ages) \in Seq(0..(Window - 1))
  <2>1. Remembered(ages) \in [1..Len(Remembered(ages)) -> 0..(Window - 1)]
    BY <1>4, <1>7, <1>8
  <2>2. Len(Remembered(ages)) \in Nat
    BY <1>1, <1>4
  <2>3. QED
    BY <2>1, <2>2, Zenon, SeqDef
<1>10. QED
  BY <1>1, <1>4, <1>6, <1>9

LEMMA RememberedWhole ==
    ASSUME NEW ages \in Seq(0..Window), ages # <<>> => ages[1] < Window
    PROVE  Remembered(ages) = ages
BY LimitsConstants, SeqMonotonic, YoungerWhole DEF Remembered

LEMMA RememberedTwice ==
    ASSUME NEW ages \in Seq(0..(Window - 1))
    PROVE  Remembered(ages) = ages
<1>1. Window \in Nat /\ ages \in Seq(0..Window) /\ (ages # <<>> => Len(ages) \in Nat \ {0})
  BY LimitsConstants, SeqMonotonic, EmptySeq
<1>2. ages # <<>> => ages[1] \in 0..(Window - 1)
  BY <1>1, ElementOfSeq
<1>3. QED
  BY <1>1, <1>2, RememberedWhole

LEMMA OlderInWindow ==
    ASSUME NEW ages \in Seq(0..Window), Ordered(ages)
    PROVE  Older(ages) \in Seq(0..Window) /\ Len(Older(ages)) = Len(ages) /\ Ordered(Older(ages))
<1>1. Window \in Nat /\ Len(ages) \in Nat /\ DOMAIN ages = 1..Len(ages)
      /\ \A i \in 1..Len(ages) : ages[i] \in 0..Window
  BY LimitsConstants, LenProperties
<1>2. Older(ages) \in [1..Len(ages) -> 0..Window]
  BY <1>1 DEF Older
<1>3. Older(ages) \in Seq(0..Window) /\ Len(Older(ages)) = Len(ages)
  BY <1>1, <1>2
<1>4. \A i \in 1..Len(ages) : Older(ages)[i] = IF ages[i] < Window THEN ages[i] + 1 ELSE Window
  BY <1>1 DEF Older
<1>5. Ordered(Older(ages))
  <2> SUFFICES ASSUME NEW i \in 1..Len(ages), NEW j \in 1..Len(ages), i < j
               PROVE  Older(ages)[j] <= Older(ages)[i]
    BY <1>3 DEF Ordered
  <2>1. ages[j] <= ages[i] /\ ages[i] \in 0..Window /\ ages[j] \in 0..Window
    BY <1>1 DEF Ordered
  <2>2. QED
    BY <1>1, <1>4, <2>1
<1>6. QED
  BY <1>3, <1>5

\* The newest call is the youngest.
LEMMA NewestLast ==
    ASSUME NEW ages \in Seq(0..(Window - 1)), Ordered(ages)
    PROVE  /\ Append(ages, 0) \in Seq(0..(Window - 1)) /\ Ordered(Append(ages, 0))
           /\ Len(Append(ages, 0)) = Len(ages) + 1
<1>1. 0 \in 0..(Window - 1) /\ Len(ages) \in Nat /\ \A i \in 1..Len(ages) : ages[i] \in 0..(Window - 1)
  BY LimitsConstants, LenProperties
<1>2. /\ Append(ages, 0) \in Seq(0..(Window - 1)) /\ Len(Append(ages, 0)) = Len(ages) + 1
      /\ \A i \in 1..Len(ages) : Append(ages, 0)[i] = ages[i]
      /\ Append(ages, 0)[Len(ages) + 1] = 0
  BY <1>1, AppendProperties
<1>3. Ordered(Append(ages, 0))
  <2> SUFFICES ASSUME NEW i \in 1..(Len(ages) + 1), NEW j \in 1..(Len(ages) + 1), i < j
               PROVE  Append(ages, 0)[j] <= Append(ages, 0)[i]
    BY <1>2 DEF Ordered
  <2>1. i \in 1..Len(ages) /\ Append(ages, 0)[i] \in Nat
    BY <1>1, <1>2
  <2>2. CASE j \in 1..Len(ages)
    BY <1>2, <2>1, <2>2 DEF Ordered
  <2>3. CASE j = Len(ages) + 1
    BY <1>2, <2>1, <2>3
  <2>4. QED
    BY <1>1, <2>2, <2>3
<1>4. QED
  BY <1>2, <1>3

(***************************************************************************)
(* The inductive invariant: what is remembered is what was given.          *)
(***************************************************************************)
RateInv ==
    /\ TypeOK
    /\ Ordered(calls)
    /\ used = Remembered(calls)

\* The service's side of an action that leaves the calls alone, or forgets.
LEMMA CallsKept ==
    ASSUME RateInv, TypeOK', UNCHANGED <<calls, used>>
    PROVE  RateInv'
BY DEF RateInv, Remembered, Younger, Gone, Ordered

LEMMA EmptyRemembered == Ordered(<<>>) /\ Remembered(<<>>) = <<>> /\ <<>> \in Seq(0..Window) /\ Len(<<>>) = 0
<1>1. <<>> \in Seq(0..Window) /\ Len(<<>>) = 0
  BY EmptySeq
<1>2. Remembered(<<>>) = <<>>
  BY <1>1, RememberedWhole
<1>3. Ordered(<<>>)
  BY <1>1 DEF Ordered
<1>4. QED
  BY <1>1, <1>2, <1>3

LEMMA IdleTyped == Idle \in Thread
BY LimitsConstants DEF Idle, Thread

LEMMA RateInitInv == Init => RateInv
<1> SUFFICES ASSUME Init PROVE RateInv
  OBVIOUS
<1>1. /\ calls \in Seq(0..Window) /\ Len(calls) <= PerMinute /\ used \in Seq(0..(Window - 1))
  BY LimitsConstants, EmptySeq DEF Init
<1>2. /\ count \in 0..PerDay /\ timeOfDay \in 0..(DayLength - 1)
      /\ cooldown \in Nat /\ told \in Nat
  <2>1. PerDay \in Nat /\ DayLength \in Nat /\ DayLength > 0
    BY LimitsConstants
  <2>2. count = 0 /\ timeOfDay = 0 /\ cooldown = 0 /\ told = 0
    BY DEF Init
  <2>3. QED
    BY <2>1, <2>2
<1>3. thread \in [Threads -> Thread]
  BY IdleTyped DEF Init
<1>4. counted \in BOOLEAN
  BY DEF Init
<1>5. TypeOK
  BY <1>1, <1>2, <1>3, <1>4 DEF TypeOK
<1>6. calls = <<>> /\ used = <<>>
  BY DEF Init
<1>7. QED
  BY <1>5, <1>6, EmptyRemembered DEF RateInv

(***************************************************************************)
(* Every step keeps it.                                                    *)
(***************************************************************************)
\* A thread goes on, and its row is of the type.
LEMMA GoesTyped ==
    ASSUME RateInv, NEW c \in Threads, NEW t \in Thread, Goes(c, t)
    PROVE  thread' \in [Threads -> Thread]
BY DEF RateInv, TypeOK, Goes

LEMMA AtTyped ==
    ASSUME NEW t \in Thread
    PROVE  [t EXCEPT !.at = "enter"] \in Thread /\ [t EXCEPT !.at = "ask"] \in Thread
BY DEF Thread

LEMMA LeftTyped ==
    ASSUME NEW t \in Thread, NEW l \in 0..Window
    PROVE  [t EXCEPT !.left = l] \in Thread
BY DEF Thread

\* Forgetting changes nothing that has to be remembered.
LEMMA CallsForgotten ==
    ASSUME RateInv, calls' = Remembered(calls), UNCHANGED <<count, counted, timeOfDay, cooldown, used, told>>,
           thread' \in [Threads -> Thread]
    PROVE  RateInv'
<1>1. /\ Remembered(calls) \in Seq(0..(Window - 1)) /\ Ordered(Remembered(calls))
      /\ Len(Remembered(calls)) <= Len(calls) /\ Len(calls) \in Nat
      /\ Len(Remembered(calls)) \in Nat
  BY RememberedTyped, LenProperties DEF RateInv, TypeOK
<1>2. calls' \in Seq(0..Window) /\ Len(calls') <= PerMinute
  <2>1. Window \in Nat /\ PerMinute \in Nat /\ Len(calls) <= PerMinute
    BY LimitsConstants DEF RateInv, TypeOK
  <2>2. 0..(Window - 1) \subseteq 0..Window
    BY <2>1
  <2>3. calls' \in Seq(0..Window)
    BY <1>1, <2>2, SeqMonotonic
  <2>4. QED
    BY <1>1, <2>1, <2>3
<1>3. Remembered(calls') = Remembered(calls)
  BY <1>1, RememberedTwice
<1>4. TypeOK'
  BY <1>2 DEF RateInv, TypeOK
<1>5. QED
  BY <1>1, <1>3, <1>4 DEF RateInv

\* A slot is given when there is room among those that are remembered.
LEMMA GrantInv ==
    ASSUME RateInv, NEW c \in Threads, Grant(c)
    PROVE  RateInv'
<1>1. /\ Remembered(calls) \in Seq(0..(Window - 1)) /\ Ordered(Remembered(calls))
  BY RememberedTyped DEF RateInv, TypeOK
<1>2. /\ calls' = Append(Remembered(calls), 0) /\ used' = calls'
  BY DEF Grant, RateInv
<1>3. /\ calls' \in Seq(0..(Window - 1)) /\ Ordered(calls')
      /\ Len(calls') = Len(Remembered(calls)) + 1
  BY <1>1, <1>2, NewestLast
<1>4. Remembered(calls') = used'
  BY <1>2, <1>3, RememberedTwice
<1>5. calls' \in Seq(0..Window) /\ Len(calls') <= PerMinute
  <2>1. Window \in Nat /\ 0..(Window - 1) \subseteq 0..Window
    BY LimitsConstants
  <2>2. Len(Remembered(calls)) < PerMinute /\ Len(Remembered(calls)) \in Nat /\ PerMinute \in Nat
    BY <1>1, LimitsConstants, LenProperties DEF Grant, Room
  <2>3. QED
    BY <1>3, <2>1, <2>2, SeqMonotonic
<1>6. count' \in 0..PerDay
  BY LimitsConstants DEF Grant, Open, Today, RateInv, TypeOK
<1>7. thread' \in [Threads -> Thread]
  BY IdleTyped, AtTyped, GoesTyped DEF Grant
<1>8. counted' \in BOOLEAN /\ UNCHANGED <<timeOfDay, cooldown, told>>
  BY DEF Grant
<1>9. TypeOK'
  BY <1>2, <1>3, <1>5, <1>6, <1>7, <1>8 DEF RateInv, TypeOK
<1>10. QED
  BY <1>3, <1>4, <1>9 DEF RateInv

\* The pause before a new try is at most the window.
LEMMA PauseTyped ==
    ASSUME RateInv, ~Room
    PROVE  Pause \in 1..Window
<1>1. Remembered(calls) \in Seq(0..(Window - 1)) /\ Len(Remembered(calls)) \in Nat
  BY RememberedTyped, LenProperties DEF RateInv, TypeOK
<1>2. Len(Remembered(calls)) # 0
  BY <1>1, LimitsConstants DEF Room
<1>3. Remembered(calls) # <<>>
  BY <1>1, <1>2, EmptySeq
<1>4. Head(Remembered(calls)) \in 0..(Window - 1)
  BY <1>1, <1>3, HeadTailProperties
<1>5. QED
  BY <1>4, LimitsConstants DEF Pause

LEMMA TickInv ==
    ASSUME RateInv, Tick
    PROVE  RateInv'
<1>1. calls \in Seq(0..Window) /\ Ordered(calls) /\ used = Remembered(calls)
  BY DEF RateInv, TypeOK
<1>2. calls' \in Seq(0..Window) /\ Len(calls') = Len(calls) /\ Ordered(calls')
  BY <1>1, OlderInWindow DEF Tick
<1>3. used' = Remembered(calls')
  <2>1. calls \in Seq(Nat)
    BY <1>1, LimitsConstants, SeqMonotonic
  <2>2. used' = Remembered(Older(Remembered(calls)))
    BY <1>1 DEF Tick, Remembered
  <2>3. QED
    BY <2>1, <2>2, OlderForgets DEF Tick
<1>4. used' \in Seq(0..(Window - 1))
  BY <1>2, <1>3, RememberedTyped
<1>5. timeOfDay' \in 0..(DayLength - 1) /\ cooldown' \in Nat /\ told' \in Nat
  <2>1. DayLength \in Nat /\ DayLength > 0 /\ timeOfDay \in 0..(DayLength - 1)
    BY LimitsConstants DEF RateInv, TypeOK
  <2>2. timeOfDay' = IF timeOfDay + 1 = DayLength THEN 0 ELSE timeOfDay + 1
    BY DEF Tick, Midnight
  <2>3. timeOfDay' \in 0..(DayLength - 1)
    BY <2>1, <2>2
  <2>4. cooldown' = Less(cooldown) /\ told' = Less(told) /\ cooldown \in Nat /\ told \in Nat
    BY DEF Tick, RateInv, TypeOK
  <2>5. QED
    BY <2>3, <2>4 DEF Less
<1>6. counted' \in BOOLEAN
  BY DEF Tick
<1>7. thread' \in [Threads -> Thread]
  <2>1. ASSUME NEW c \in Threads PROVE [thread[c] EXCEPT !.left = Less(@)] \in Thread
    <3>1. thread[c] \in Thread /\ thread[c].left \in 0..Window
      BY DEF RateInv, TypeOK, Thread
    <3>2. Less(thread[c].left) \in 0..Window
      BY <3>1, LimitsConstants DEF Less
    <3>3. QED
      BY <3>1, <3>2, LeftTyped
  <2>2. QED
    BY <2>1 DEF Tick
<1>8. Len(calls') <= PerMinute /\ count' \in 0..PerDay
  BY <1>2 DEF RateInv, TypeOK, Tick
<1>9. TypeOK'
  BY <1>2, <1>4, <1>5, <1>6, <1>7, <1>8 DEF TypeOK
<1>10. QED
  BY <1>2, <1>3, <1>9 DEF RateInv

LEMMA RateNextInv ==
    ASSUME RateInv, [Next]_vars
    PROVE  RateInv'
<1>0. TypeOK /\ \A c \in Threads : thread[c] \in Thread
  BY DEF RateInv, TypeOK
<1>1. ASSUME NEW c \in Threads, Call(c) PROVE RateInv'
  <2>1. [Idle EXCEPT !.at = "enter"] \in Thread
    BY IdleTyped, AtTyped
  <2>2. thread' \in [Threads -> Thread]
    BY <1>1, <2>1, GoesTyped DEF Call
  <2>3. QED
    BY <1>0, <1>1, <2>2, CallsKept DEF Call, TypeOK
<1>2. ASSUME NEW c \in Threads, Grant(c) PROVE RateInv'
  BY <1>2, GrantInv
<1>3. ASSUME NEW c \in Threads, Closed(c) PROVE RateInv'
  <2>1. thread' \in [Threads -> Thread]
    BY <1>3, IdleTyped, GoesTyped DEF Closed
  <2>2. QED
    BY <1>0, <1>3, <2>1, CallsKept DEF Closed, TypeOK
<1>4. ASSUME NEW c \in Threads, GiveUp(c) PROVE RateInv'
  <2>1. thread' \in [Threads -> Thread]
    BY <1>4, IdleTyped, GoesTyped DEF GiveUp
  <2>2. QED
    BY <1>4, <2>1, CallsForgotten DEF GiveUp
<1>5. ASSUME NEW c \in Threads, Sleep(c) PROVE RateInv'
  <2>1. Pause \in 1..Window /\ thread[c].waited \in Nat /\ thread[c].waited + Pause <= MaxWait
    BY <1>0, <1>5, PauseTyped DEF Sleep, Thread
  <2>2. [at |-> "sleep", waited |-> thread[c].waited + Pause, left |-> Pause] \in Thread
    BY <2>1, LimitsConstants DEF Thread
  <2>3. thread' \in [Threads -> Thread]
    BY <1>5, <2>2, GoesTyped DEF Sleep
  <2>4. QED
    BY <1>5, <2>3, CallsForgotten DEF Sleep
<1>6. ASSUME NEW c \in Threads, Wake(c) PROVE RateInv'
  <2>1. [thread[c] EXCEPT !.at = "enter"] \in Thread
    BY <1>0, AtTyped
  <2>2. thread' \in [Threads -> Thread]
    BY <1>6, <2>1, GoesTyped DEF Wake
  <2>3. QED
    BY <1>0, <1>6, <2>2, CallsKept DEF Wake, TypeOK
<1>7. ASSUME NEW c \in Threads, Answered(c) PROVE RateInv'
  <2>1. thread' \in [Threads -> Thread]
    BY <1>7, IdleTyped, GoesTyped DEF Answered
  <2>2. QED
    BY <1>0, <1>7, <2>1, CallsKept DEF Answered, TypeOK
<1>8. ASSUME NEW c \in Threads, NEW header \in RetryAfter \cup {None}, SlowDown(c, header)
      PROVE  RateInv'
  <2>1. thread' \in [Threads -> Thread]
    BY <1>8, IdleTyped, GoesTyped DEF SlowDown
  <2>2. cooldown' \in Nat /\ told' \in Nat
    <3>1. CASE header = None
      BY <1>0, <1>8, <3>1, LimitsConstants DEF SlowDown, Seconds, Larger, TypeOK
    <3>2. CASE header # None
      <4>1. header \in Nat /\ DayLength \in Nat /\ told \in Nat
        BY <1>0, <1>8, <3>2, LimitsConstants DEF TypeOK
      <4>2. QED
        BY <1>8, <3>2, <4>1 DEF SlowDown, Seconds, Larger, Smaller
    <3>3. QED
      BY <3>1, <3>2
  <2>3. QED
    BY <1>0, <1>8, <2>1, <2>2, CallsKept DEF SlowDown, TypeOK
<1>9. ASSUME Tick PROVE RateInv'
  BY <1>9, TickInv
<1>10. ASSUME Restart PROVE RateInv'
  <2>1. thread' \in [Threads -> Thread]
    BY <1>10, IdleTyped DEF Restart
  <2>2. count' \in 0..PerDay /\ cooldown' \in Nat /\ told' \in Nat /\ timeOfDay' \in 0..(DayLength - 1)
    BY <1>0, <1>10, LimitsConstants DEF Restart, TypeOK
  <2>3. counted' \in BOOLEAN
    BY <1>10 DEF Restart
  <2>4. calls' = <<>> /\ used' = <<>>
    BY <1>10 DEF Restart
  <2>5. calls' \in Seq(0..Window) /\ Len(calls') <= PerMinute /\ used' \in Seq(0..(Window - 1))
    BY <2>4, LimitsConstants, EmptySeq
  <2>6. TypeOK'
    BY <2>1, <2>2, <2>3, <2>5 DEF TypeOK
  <2>7. QED
    BY <2>4, <2>6, EmptyRemembered DEF RateInv
<1>11. ASSUME UNCHANGED vars PROVE RateInv'
  BY <1>0, <1>11, CallsKept DEF vars, TypeOK
<1>12. QED
  BY <1>1, <1>2, <1>3, <1>4, <1>5, <1>6, <1>7, <1>8, <1>9, <1>10, <1>11 DEF Next, Step

\* Every variable of the budget has its type, for every number of threads.
THEOREM RateTypes == Spec => []TypeOK
<1>1. RateInv => TypeOK
  BY DEF RateInv
<1>2. QED
  BY RateInitInv, RateNextInv, <1>1, PTL DEF Spec

\* Whoever sleeps for a slot and whoever overtakes the sleepers: no minute has
\* more slots than the service allows (rate_limits.acquire).
THEOREM MinuteKept == Spec => []WithinMinute
<1>1. RateInv => WithinMinute
  <2> SUFFICES ASSUME RateInv PROVE WithinMinute
    OBVIOUS
  <2>1. Len(Remembered(calls)) \in 0..Len(calls) /\ Len(calls) \in Nat
    BY RememberedTyped, LenProperties DEF RateInv, TypeOK
  <2>2. QED
    BY <2>1, LimitsConstants DEF RateInv, TypeOK, WithinMinute
<1>2. QED
  BY RateInitInv, RateNextInv, <1>1, PTL DEF Spec

(***************************************************************************)
(* PART II: WhoisBatch                                                     *)
(***************************************************************************)
Rows == 0..Cardinality(Names)
\* A thread that is at a domain of its list.
AtName == {"reserved", "asking", "looked"}

LooseRow == [status : Statuses, work : Work, rows : Rows, try : Nat,
             server : Servers, at : Nat, early : BOOLEAN, caught : BOOLEAN]

BatchTyped ==
    /\ second \in Nat
    /\ nextAt \in [Servers -> Nat]
    /\ told429 \in [Servers -> Nat]
    /\ batch \in [Batches -> LooseRow]

\* The pacer is never behind a hold it was given, nor behind a slot it gave; and
\* a slot that is waited for is after every hold but those that caught it.
Held == \A s \in Servers : told429[s] <= nextAt[s]
SlotFollows(r) ==
    r.work = "reserved" =>
        /\ r.at + Interval <= nextAt[r.server]
        /\ ~r.caught => told429[r.server] <= r.at

\* A thread at a domain has a row to add; one that leaves its loop without
\* being cancelled has added them all.
RowWorks(r) ==
    /\ ~r.early
    /\ r.work \in AtName => r.rows < Cardinality(Names)
    /\ r.work = "ended" \/ r.status = "done" => r.rows = Cardinality(Names)
    /\ r.status \in {"new", "done"} => r.work = "none"

BatchInv ==
    /\ BatchTyped
    /\ Held
    /\ \A b \in Batches : SlotFollows(batch[b]) /\ RowWorks(batch[b])

LEMMA NamesCounted == Cardinality(Names) \in Nat
BY FS_CardinalityType, BatchConstants

LEMMA BatchInitInv == BatchInit => BatchInv
<1> SUFFICES ASSUME BatchInit PROVE BatchInv
  OBVIOUS
<1> USE BatchConstants, NamesCounted DEF BatchInit
<1>1. WhoisServer \in Servers
  BY DEF Servers
<1>2. BatchTyped
  BY <1>1 DEF BatchTyped, LooseRow, Rows, Statuses, Work
<1>3. Held
  BY DEF Held
<1>4. \A b \in Batches : SlotFollows(batch[b]) /\ RowWorks(batch[b])
  BY DEF SlotFollows, RowWorks, AtName
<1>5. QED
  BY <1>2, <1>3, <1>4 DEF BatchInv

\* Rows stay rows when their fields take values of theirs.
LEMMA NextRow ==
    ASSUME NEW r \in LooseRow, NEW n \in Rows
    PROVE  [r EXCEPT !.work = "next", !.rows = n, !.try = 0, !.at = 0] \in LooseRow
BY DEF LooseRow, Work

LEMMA ReservedRow ==
    ASSUME NEW r \in LooseRow, NEW s \in Servers, NEW a \in Nat, NEW t \in Nat, NEW e \in BOOLEAN
    PROVE  [r EXCEPT !.work = "reserved", !.server = s, !.at = a, !.try = t, !.early = e,
                     !.caught = FALSE] \in LooseRow
BY DEF LooseRow, Work

\* The row after a domain is done.
LEMMA NameDoneRow ==
    ASSUME NEW b \in Batches, batch[b] \in LooseRow, RowWorks(batch[b]), batch[b].work = "asking"
    PROVE  /\ NameDone(b) \in LooseRow /\ SlotFollows(NameDone(b)) /\ RowWorks(NameDone(b))
           /\ NameDone(b).work = "next" /\ NameDone(b).status = batch[b].status
           /\ ~NameDone(b).early
<1>1. batch[b].rows + 1 \in Rows
  BY NamesCounted DEF LooseRow, Rows, RowWorks, AtName
<1>2. NameDone(b) \in LooseRow
  BY <1>1, NextRow DEF NameDone
<1>3. /\ NameDone(b).work = "next" /\ NameDone(b).status = batch[b].status
      /\ NameDone(b).early = batch[b].early
  BY DEF NameDone, LooseRow
<1>4. QED
  BY <1>2, <1>3 DEF SlotFollows, RowWorks, AtName

\* Only one row changes and the pacer stays: it is enough to look at that row.
LEMMA RowChanged ==
    ASSUME BatchInv, NEW b \in Batches, NEW r \in LooseRow, Set(b, r),
           UNCHANGED <<second, nextAt, told429>>,
           SlotFollows(r), RowWorks(r)
    PROVE  BatchInv'
<1>1. BatchTyped'
  BY DEF BatchInv, BatchTyped, Set
<1>2. Held'
  BY DEF BatchInv, Held
<1>3. \A c \in Batches : batch'[c] = IF c = b THEN r ELSE batch[c]
  BY DEF BatchInv, BatchTyped, Set
<1>4. ASSUME NEW c \in Batches PROVE SlotFollows(batch[c])' /\ RowWorks(batch[c])'
  BY <1>3, <1>4 DEF BatchInv, SlotFollows, RowWorks
<1>5. QED
  BY <1>1, <1>2, <1>4 DEF BatchInv

\* A slot is at or after what the pacer has for the server, which is at or
\* after every slot it gave and every hold.
LEMMA ReserveInv ==
    ASSUME BatchInv, NEW b \in Batches, NEW s \in Servers, Reserve(b, s),
           batch[b].rows < Cardinality(Names), batch[b].status \notin {"new", "done"}
    PROVE  BatchInv'
<1> USE BatchConstants, NamesCounted
<1> DEFINE r == batch'[b]
<1>1. batch[b] \in LooseRow /\ nextAt \in [Servers -> Nat] /\ second \in Nat /\ Interval \in Nat
  BY DEF BatchInv, BatchTyped
<1>2. Slot(s) \in Nat /\ Slot(s) >= nextAt[s]
  BY <1>1 DEF Slot, Later
<1>3. \A c \in Batches \ {b} : batch'[c] = batch[c]
  BY DEF BatchInv, BatchTyped, Reserve, Set
<1>4. /\ r.work = "reserved" /\ r.server = s /\ r.at = Slot(s)
      /\ r.early = (batch[b].early \/ TooEarly(b, s))
      /\ r.status = batch[b].status /\ r.rows = batch[b].rows
  BY <1>1 DEF BatchInv, BatchTyped, Reserve, Set, LooseRow
<1>5. ~TooEarly(b, s)
  <2>1. ASSUME NEW c \in Batches \ {b}, batch[c].work = "reserved", batch[c].server = s
        PROVE  ~(Slot(s) < batch[c].at + Interval)
    BY <1>1, <1>2, <2>1 DEF BatchInv, BatchTyped, LooseRow, SlotFollows
  <2>2. QED
    BY <2>1 DEF TooEarly
<1>6. nextAt' \in [Servers -> Nat] /\ nextAt'[s] = Slot(s) + Interval
      /\ \A t \in Servers \ {s} : nextAt'[t] = nextAt[t]
  BY <1>1, <1>2 DEF Reserve
<1>7. r \in LooseRow
  <2> DEFINE t == IF s = batch[b].server /\ batch[b].try > 0 THEN batch[b].try + 1 ELSE 1
             e == batch[b].early \/ TooEarly(b, s)
  <2>1. t \in Nat /\ e \in BOOLEAN
    BY <1>1, <1>5 DEF LooseRow, TooEarly
  <2>2. batch'[b] = [batch[b] EXCEPT !.work = "reserved", !.server = s, !.at = Slot(s), !.try = t,
                                     !.early = e, !.caught = FALSE]
    BY DEF BatchInv, BatchTyped, Reserve, Set
  <2> HIDE DEF t, e
  <2>3. [batch[b] EXCEPT !.work = "reserved", !.server = s, !.at = Slot(s), !.try = t,
                         !.early = e, !.caught = FALSE] \in LooseRow
    BY <1>1, <1>2, <2>1, ReservedRow
  <2>4. QED
    BY <2>2, <2>3
<1>8. BatchTyped'
  BY <1>6, <1>7 DEF BatchInv, BatchTyped, Reserve, Set
<1>9. Held'
  BY <1>1, <1>2, <1>6 DEF BatchInv, BatchTyped, Held, Reserve
<1>10. SlotFollows(batch[b])' /\ RowWorks(batch[b])'
  <2>1. told429' = told429 /\ told429[s] <= nextAt[s] /\ told429[s] \in Nat
    BY DEF BatchInv, BatchTyped, Held, Reserve
  <2>2. told429'[s] <= Slot(s) /\ Slot(s) + Interval <= nextAt'[s]
    BY <1>1, <1>2, <1>6, <2>1
  <2>3. SlotFollows(batch[b])'
    BY <1>4, <2>2 DEF SlotFollows
  <2>4. ~batch[b].early
    BY DEF BatchInv, RowWorks
  <2>5. RowWorks(batch[b])'
    BY <1>4, <1>5, <2>4 DEF RowWorks, AtName
  <2>6. QED
    BY <2>3, <2>5
<1>11. ASSUME NEW c \in Batches \ {b} PROVE SlotFollows(batch[c])' /\ RowWorks(batch[c])'
  <2>1. batch[c] \in LooseRow /\ SlotFollows(batch[c]) /\ RowWorks(batch[c])
    BY DEF BatchInv, BatchTyped
  <2>2. nextAt[batch[c].server] <= nextAt'[batch[c].server]
    <3>1. batch[c].server \in Servers /\ nextAt[s] <= Slot(s) + Interval
      BY <2>1, <1>1, <1>2 DEF LooseRow
    <3>2. CASE batch[c].server = s
      BY <1>6, <3>1, <3>2
    <3>3. CASE batch[c].server # s
      BY <1>1, <1>6, <3>1, <3>3
    <3>4. QED
      BY <3>2, <3>3
  <2>3. batch'[c] = batch[c]
    BY <1>3
  <2>4. RowWorks(batch[c])'
    BY <2>1, <2>3 DEF RowWorks
  <2>5. SlotFollows(batch[c])'
    <3> SUFFICES ASSUME batch[c].work = "reserved" PROVE batch[c].at + Interval <= nextAt'[batch[c].server]
      BY <2>1, <2>3 DEF SlotFollows, Reserve
    <3>1. batch[c].at + Interval <= nextAt[batch[c].server]
      BY <2>1 DEF SlotFollows
    <3>2. batch[c].at \in Nat /\ batch[c].server \in Servers
      BY <2>1 DEF LooseRow
    <3>3. nextAt \in [Servers -> Nat] /\ nextAt' \in [Servers -> Nat] /\ Interval \in Nat
      BY <1>1, <1>6 DEF BatchInv, BatchTyped
    <3>4. QED
      BY <2>2, <3>1, <3>2, <3>3
  <2>6. QED
    BY <2>4, <2>5
<1>12. QED
  BY <1>8, <1>9, <1>10, <1>11 DEF BatchInv

\* A 429 moves the pacer and the hold to the same time, or leaves them later.
LEMMA HoldInv ==
    ASSUME BatchInv, NEW b \in Batches, SlowDownAnswer(b)
    PROVE  BatchInv'
<1> USE BatchConstants, NamesCounted
<1> DEFINE s == batch[b].server
           r == IF batch[b].try < 2 THEN [batch[b] EXCEPT !.work = "looked"] ELSE NameDone(b)
<1>1. batch[b] \in LooseRow /\ s \in Servers /\ RowWorks(batch[b]) /\ batch[b].work = "asking"
  BY DEF BatchInv, BatchTyped, LooseRow, SlowDownAnswer
<1>2. PICK wait \in RetryAfters \ {0} :
         /\ nextAt' = [nextAt EXCEPT ![s] = Later(@, second + wait)]
         /\ told429' = [told429 EXCEPT ![s] = Later(@, second + wait)]
  BY DEF SlowDownAnswer
<1>3. second + wait \in Nat /\ nextAt \in [Servers -> Nat] /\ told429 \in [Servers -> Nat]
  BY DEF BatchInv, BatchTyped
<1>4. /\ nextAt' \in [Servers -> Nat] /\ told429' \in [Servers -> Nat]
      /\ \A t \in Servers : nextAt[t] <= nextAt'[t]
      /\ Held'
  BY <1>1, <1>2, <1>3 DEF BatchInv, Held, Later
<1>5. r \in LooseRow /\ r.work \in {"looked", "next"} /\ RowWorks(r)
  <2>1. CASE batch[b].try < 2
    BY <1>1, <2>1 DEF LooseRow, Work, RowWorks, AtName
  <2>2. CASE ~(batch[b].try < 2)
    BY <1>1, <2>2, NameDoneRow
  <2>3. QED
    BY <2>1, <2>2
<1>6. /\ batch' = [c \in Batches |->
                    IF c = b THEN r ELSE [batch[c] EXCEPT !.caught = @ \/ Catches(b, c)]]
      /\ UNCHANGED <<second, table>>
  BY DEF SlowDownAnswer
<1>7. ASSUME NEW c \in Batches \ {b}
      PROVE  /\ batch'[c] \in LooseRow
             /\ \A f \in {"status", "work", "rows", "try", "server", "at", "early"} :
                    batch'[c][f] = batch[c][f]
             /\ batch'[c].caught = (batch[c].caught \/ Catches(b, c))
  <2>1. batch[c] \in LooseRow
    BY DEF BatchInv, BatchTyped
  <2>2. batch[c].caught \/ Catches(b, c) \in BOOLEAN
    BY <2>1 DEF LooseRow, Catches
  <2>3. QED
    BY <1>6, <2>1, <2>2 DEF LooseRow
<1>8. BatchTyped'
  BY <1>4, <1>5, <1>6, <1>7 DEF BatchInv, BatchTyped
<1>9. ASSUME NEW c \in Batches PROVE SlotFollows(batch[c])' /\ RowWorks(batch[c])'
  <2>1. CASE c = b
    BY <2>1, <1>5, <1>6 DEF SlotFollows, RowWorks
  <2>2. CASE c # b
    <3>1. batch[c] \in LooseRow /\ SlotFollows(batch[c]) /\ RowWorks(batch[c])
      BY DEF BatchInv, BatchTyped
    <3>2. nextAt[batch[c].server] <= nextAt'[batch[c].server]
      BY <3>1, <1>4 DEF LooseRow
    <3>3. /\ batch'[c].work = batch[c].work /\ batch'[c].server = batch[c].server
          /\ batch'[c].at = batch[c].at /\ batch'[c].early = batch[c].early
          /\ batch'[c].rows = batch[c].rows /\ batch'[c].status = batch[c].status
      BY <1>7, <2>2
    <3>4. RowWorks(batch[c])'
      BY <3>1, <3>3 DEF RowWorks
    <3>5. SlotFollows(batch[c])'
      <4> SUFFICES ASSUME batch[c].work = "reserved"
                   PROVE  /\ batch[c].at + Interval <= nextAt'[batch[c].server]
                          /\ ~batch'[c].caught => told429'[batch[c].server] <= batch[c].at
        BY <3>3 DEF SlotFollows
      <4>1. batch[c].at + Interval <= nextAt[batch[c].server]
        BY <3>1 DEF SlotFollows
      <4>2. batch[c].at \in Nat /\ batch[c].server \in Servers
        BY <3>1 DEF LooseRow
      <4>3. nextAt \in [Servers -> Nat] /\ nextAt' \in [Servers -> Nat] /\ Interval \in Nat
        BY <1>3, <1>4 DEF BatchInv, BatchTyped
      <4>4. batch[c].at + Interval <= nextAt'[batch[c].server]
        BY <3>2, <4>1, <4>2, <4>3
      <4>5. ASSUME ~batch'[c].caught PROVE told429'[batch[c].server] <= batch[c].at
        <5>1. ~batch[c].caught /\ batch[c].server # s
          BY <1>7, <2>2, <4>5 DEF Catches
        <5>2. told429'[batch[c].server] = told429[batch[c].server]
          BY <1>2, <1>3, <4>2, <5>1
        <5>3. QED
          BY <3>1, <5>1, <5>2 DEF SlotFollows
      <4>6. QED
        BY <4>4, <4>5
    <3>6. QED
      BY <3>4, <3>5
  <2>3. QED
    BY <2>1, <2>2
<1>10. QED
  BY <1>4, <1>8, <1>9 DEF BatchInv

LEMMA BatchNextInv ==
    ASSUME BatchInv, [BatchNext]_batchVars
    PROVE  BatchInv'
<1> USE BatchConstants, NamesCounted
<1>1. ASSUME NEW b \in Batches
      PROVE  batch[b] \in LooseRow /\ SlotFollows(batch[b]) /\ RowWorks(batch[b])
  BY DEF BatchInv, BatchTyped
<1>2. ASSUME NEW b \in Batches, StartBatch(b) PROVE BatchInv'
  <2> DEFINE r == [batch[b] EXCEPT !.status = "running", !.work = "next"]
  <2>1. r \in LooseRow /\ SlotFollows(r) /\ RowWorks(r)
    BY <1>1, <1>2 DEF LooseRow, Statuses, Work, SlotFollows, RowWorks, AtName, StartBatch
  <2>2. Set(b, r) /\ UNCHANGED <<second, nextAt, told429>>
    BY <1>2 DEF StartBatch
  <2>3. QED
    BY <2>1, <2>2, RowChanged
<1>3. ASSUME NEW b \in Batches, CancelBatch(b) PROVE BatchInv'
  <2> DEFINE r == [batch[b] EXCEPT !.status = "cancelled"]
  <2>1. r \in LooseRow /\ SlotFollows(r) /\ RowWorks(r)
    BY <1>1, <1>3 DEF LooseRow, Statuses, SlotFollows, RowWorks, AtName, CancelBatch
  <2>2. Set(b, r) /\ UNCHANGED <<second, nextAt, told429>>
    BY <1>3 DEF CancelBatch
  <2>3. QED
    BY <2>1, <2>2, RowChanged
<1>4. ASSUME NEW b \in Batches, NextName(b) PROVE BatchInv'
  <2>1. /\ Reserve(b, RdapServer[batch[b].rows + 1]) /\ batch[b].rows < Cardinality(Names)
        /\ batch[b].status \notin {"new", "done"}
    BY <1>1, <1>4 DEF NextName, RowWorks
  <2>2. batch[b].rows + 1 \in Names
    BY <1>1, <2>1 DEF LooseRow, Rows
  <2>3. RdapServer[batch[b].rows + 1] \in Servers
    BY <2>2 DEF Servers
  <2>4. QED
    BY <2>1, <2>3, ReserveInv
<1>5. ASSUME NEW b \in Batches, WakeUp(b) PROVE BatchInv'
  <2> DEFINE onHold == second < told429[batch[b].server]
             r == [batch[b] EXCEPT !.work = "asking", !.early = @ \/ (onHold /\ ~batch[b].caught)]
  <2>1. ~(onHold /\ ~batch[b].caught)
    <3>1. /\ batch[b].work = "reserved" /\ second >= batch[b].at /\ batch[b].at \in Nat
          /\ batch[b].server \in Servers
      BY <1>1, <1>5 DEF LooseRow, WakeUp
    <3>2. second \in Nat /\ told429[batch[b].server] \in Nat
      BY <3>1 DEF BatchInv, BatchTyped
    <3>3. QED
      BY <1>1, <3>1, <3>2 DEF SlotFollows
  <2>2. r \in LooseRow /\ SlotFollows(r) /\ RowWorks(r)
    BY <1>1, <1>5, <2>1 DEF LooseRow, Work, SlotFollows, RowWorks, AtName, WakeUp
  <2>3. Set(b, r) /\ UNCHANGED <<second, nextAt, told429>>
    BY <1>5 DEF WakeUp
  <2>4. QED
    BY <2>2, <2>3, RowChanged
<1>6. ASSUME NEW b \in Batches, NameAnswered(b) PROVE BatchInv'
  <2>1. NameDone(b) \in LooseRow /\ SlotFollows(NameDone(b)) /\ RowWorks(NameDone(b))
    BY <1>1, <1>6, NameDoneRow DEF NameAnswered
  <2>2. Set(b, NameDone(b)) /\ UNCHANGED <<second, nextAt, told429>>
    BY <1>6 DEF NameAnswered
  <2>3. QED
    BY <2>1, <2>2, RowChanged
<1>7. ASSUME NEW b \in Batches, SlowDownAnswer(b) PROVE BatchInv'
  BY <1>7, HoldInv
<1>8. ASSUME NEW b \in Batches, TryAgain(b) PROVE BatchInv'
  <2>1. Reserve(b, batch[b].server) /\ batch[b].server \in Servers
        /\ batch[b].rows < Cardinality(Names) /\ batch[b].status \notin {"new", "done"}
    BY <1>1, <1>8 DEF TryAgain, RowWorks, AtName, LooseRow
  <2>2. QED
    BY <2>1, ReserveInv
<1>9. ASSUME NEW b \in Batches, FallBack(b) PROVE BatchInv'
  <2>1. Reserve(b, WhoisServer) /\ WhoisServer \in Servers
        /\ batch[b].rows < Cardinality(Names) /\ batch[b].status \notin {"new", "done"}
    BY <1>1, <1>9 DEF FallBack, RowWorks, AtName, Servers
  <2>2. QED
    BY <2>1, ReserveInv
<1>10. ASSUME NEW b \in Batches, LoopEnds(b) PROVE BatchInv'
  <2> DEFINE r == [batch[b] EXCEPT !.work = IF batch[b].status = "running" THEN "ended" ELSE "none",
                                   !.server = WhoisServer]
  <2>1. r \in LooseRow /\ SlotFollows(r) /\ RowWorks(r)
    BY <1>1, <1>10 DEF LooseRow, Work, Servers, SlotFollows, RowWorks, AtName, LoopEnds
  <2>2. Set(b, r) /\ UNCHANGED <<second, nextAt, told429>>
    BY <1>10 DEF LoopEnds
  <2>3. QED
    BY <2>1, <2>2, RowChanged
<1>11. ASSUME NEW b \in Batches, WriteDone(b) PROVE BatchInv'
  <2> DEFINE r == [batch[b] EXCEPT !.work = "none", !.status = "done"]
  <2>1. r \in LooseRow /\ SlotFollows(r) /\ RowWorks(r)
    BY <1>1, <1>11 DEF LooseRow, Work, Statuses, SlotFollows, RowWorks, AtName, WriteDone
  <2>2. Set(b, r) /\ UNCHANGED <<second, nextAt, told429>>
    BY <1>11 DEF WriteDone
  <2>3. QED
    BY <2>1, <2>2, RowChanged
<1>12. ASSUME SecondPasses PROVE BatchInv'
  BY <1>12 DEF SecondPasses, BatchInv, BatchTyped, Held, SlotFollows, RowWorks
<1>13. ASSUME UNCHANGED batchVars PROVE BatchInv'
  BY <1>13 DEF batchVars, BatchInv, BatchTyped, Held, SlotFollows, RowWorks
<1>14. QED
  BY <1>2, <1>3, <1>4, <1>5, <1>6, <1>7, <1>8, <1>9, <1>10, <1>11, <1>12, <1>13 DEF BatchNext

\* Batches that share a registry get slots an interval apart and ask nothing
\* while it asked to be left alone, but for those that had their slot when it
\* said so (whois_batch.py:77-91); and one that says done has done it all.
THEOREM BatchPaced == BatchSpec => []PacedAndComplete
<1>1. BatchInv => PacedAndComplete
  BY DEF BatchInv, RowWorks, PacedAndComplete
<1>2. QED
  BY BatchInitInv, BatchNextInv, <1>1, PTL DEF BatchSpec

(***************************************************************************)
(* PART III: CveFeed                                                       *)
(***************************************************************************)
\* The largest of a few numbers is one of them.
LEMMA MaxOfTwo ==
    ASSUME NEW a \in Int, NEW b \in Int
    PROVE  Max({a, b}) = IF a >= b THEN a ELSE b
BY DEF Max

LEMMA MaxOfOne ==
    ASSUME NEW S, NEW n \in Int, n \in S, \A m \in S : m = n
    PROVE  Max(S) = n
<1>1. \E x \in S : \A y \in S : x >= y
  BY DEF Max
<1>2. Max(S) \in S
  BY <1>1 DEF Max
<1>3. QED
  BY <1>2

(***************************************************************************)
(* The fetch before, after and between products.                           *)
(***************************************************************************)
LEMMA FetchOf ==
    ASSUME NEW f \in Fetch, NEW q \in Products \cup {"none"}, NEW since \in Times, NEW start \in Nat,
           NEW moved \in BOOLEAN, NEW got \in SUBSET (Records \X (0..MaxRevision))
    PROVE  [f EXCEPT !.product = q, !.since = since, !.start = start, !.moved = moved, !.got = got] \in Fetch
BY DEF Fetch

LEMMA DoneTyped ==
    ASSUME fetch \in Fetch
    PROVE  /\ ProductDone \in Fetch /\ ProductDone.product = "none"
           /\ ProductDone.on = fetch.on /\ ProductDone.at = fetch.at
<1>1. "none" \in Products \cup {"none"} /\ Never \in Times /\ 0 \in Nat /\ FALSE \in BOOLEAN
      /\ {} \in SUBSET (Records \X (0..MaxRevision))
  BY FeedConstants DEF Times, Never
<1>2. ProductDone \in Fetch
  BY <1>1, FetchOf, Zenon DEF ProductDone
<1>3. QED
  BY <1>2 DEF ProductDone, Fetch

LEMMA NoFetchTyped == NoFetch \in Fetch /\ NoFetch.product = "none" /\ ~NoFetch.on
BY FeedConstants DEF NoFetch, Fetch, Times, Never

LEMMA StartOf ==
    ASSUME NEW f \in Fetch, NEW now \in 0..MaxClock
    PROVE  /\ [f EXCEPT !.on = TRUE, !.at = now, !.left = Products] \in Fetch
           /\ [f EXCEPT !.on = TRUE, !.at = now, !.left = Products].product = f.product
           /\ [f EXCEPT !.on = TRUE, !.at = now, !.left = Products].at = now
BY DEF Fetch

LEMMA StartTyped ==
    ASSUME NEW now \in 0..MaxClock
    PROVE  /\ [NoFetch EXCEPT !.on = TRUE, !.at = now, !.left = Products] \in Fetch
           /\ [NoFetch EXCEPT !.on = TRUE, !.at = now, !.left = Products].product = "none"
           /\ [NoFetch EXCEPT !.on = TRUE, !.at = now, !.left = Products].at = now
BY NoFetchTyped, StartOf

(***************************************************************************)
(* The inductive invariant                                                 *)
(***************************************************************************)
\* Nothing is dated in the future, and the records that were never there are
\* not held.
Dated ==
    /\ fetch.on => fetch.at <= clock
    /\ \A p \in Products : feed[p].synced <= clock
    /\ \A p \in Products, r \in Records : nvd[p][r].revision = 0 => held[p][r] = 0

\* An increment starts at or before the fetch it continues.
Continues ==
    fetch.product # "none" =>
        /\ fetch.on
        /\ fetch.product \in Products
        /\ fetch.since # Never =>
              feed[fetch.product].synced # Never /\ fetch.since <= feed[fetch.product].synced

\* The records before one in the answer.
Ahead(p, r) == {s \in Answer(p) : s < r}

\* While the product does not change, what was read are its first records.
ReadSoFar ==
    fetch.product # "none" =>
        /\ \A r \in Records, n \in 0..MaxRevision :
              <<r, n>> \in fetch.got => nvd[fetch.product][r].revision # 0
        /\ ~fetch.moved =>
              \A r \in Records, n \in 0..MaxRevision :
                  <<r, n>> \in fetch.got <=>
                      /\ r \in Answer(fetch.product)
                      /\ Cardinality(Ahead(fetch.product, r)) < fetch.start
                      /\ n = Carried(nvd[fetch.product][r])

FeedInv ==
    /\ FeedTypeOK
    /\ Dated
    /\ Continues
    /\ ReadSoFar
    /\ FeedComplete

LEMMA AnswerFinite ==
    ASSUME NEW p
    PROVE  Answer(p) \subseteq Records /\ IsFiniteSet(Answer(p)) /\ Cardinality(Answer(p)) \in Nat
<1>1. Answer(p) \subseteq Records
  BY DEF Answer
<1>2. QED
  BY <1>1, FeedConstants, FS_Subset, FS_CardinalityType

LEMMA AheadCounted ==
    ASSUME NEW p, NEW r \in Records
    PROVE  Cardinality(Ahead(p, r)) \in Nat
<1>1. Ahead(p, r) \subseteq Answer(p)
  BY DEF Ahead
<1>2. QED
  BY <1>1, AnswerFinite, FS_Subset, FS_CardinalityType

\* Fewer records are ahead of an earlier one.
LEMMA AheadGrows ==
    ASSUME NEW p, NEW r \in Answer(p), NEW s \in Answer(p), r < s
    PROVE  Cardinality(Ahead(p, r)) < Cardinality(Ahead(p, s))
<1>0. r \in Nat /\ s \in Nat /\ Answer(p) \subseteq Nat
  BY AnswerFinite, FeedConstants
<1>1. Ahead(p, r) \subseteq Ahead(p, s) /\ r \in Ahead(p, s) /\ r \notin Ahead(p, r)
  BY <1>0 DEF Ahead
<1>2. Ahead(p, s) \subseteq Answer(p)
  BY DEF Ahead
<1>3. IsFiniteSet(Ahead(p, s))
  BY <1>2, AnswerFinite, FS_Subset
<1>4. IsFiniteSet(Ahead(p, r)) /\ Ahead(p, r) # Ahead(p, s)
  BY <1>1, <1>3, FS_Subset
<1>5. Cardinality(Ahead(p, r)) \in Nat /\ Cardinality(Ahead(p, s)) \in Nat
  BY <1>3, <1>4, FS_CardinalityType
<1>6. Cardinality(Ahead(p, r)) <= Cardinality(Ahead(p, s))
      /\ Cardinality(Ahead(p, r)) # Cardinality(Ahead(p, s))
  BY <1>1, <1>3, <1>4, FS_Subset
<1>7. QED
  BY <1>5, <1>6

LEMMA AheadFewer ==
    ASSUME NEW p, NEW r \in Answer(p)
    PROVE  Cardinality(Ahead(p, r)) < Cardinality(Answer(p))
<1>0. r \in Nat /\ Answer(p) \subseteq Nat
  BY AnswerFinite, FeedConstants
<1>1. Ahead(p, r) \subseteq Answer(p) /\ r \notin Ahead(p, r)
  BY <1>0 DEF Ahead
<1>2. Cardinality(Ahead(p, r)) <= Cardinality(Answer(p)) /\ Cardinality(Ahead(p, r)) # Cardinality(Answer(p))
  BY <1>1, AnswerFinite, FS_Subset
<1>3. Cardinality(Ahead(p, r)) \in Nat /\ Cardinality(Answer(p)) \in Nat
  BY AnswerFinite, AheadCounted
<1>4. QED
  BY <1>2, <1>3

LEMMA FeedInitInv == FeedInit => FeedInv
<1> SUFFICES ASSUME FeedInit PROVE FeedInv
  OBVIOUS
<1> USE FeedConstants
<1>1. FeedTypeOK
  BY DEF FeedInit, FeedTypeOK, NvdRow, FeedRow, Times, Never, Fetch, NoFetch
<1>2. Dated
  BY DEF FeedInit, Dated, Never, NoFetch
<1>3. Continues /\ ReadSoFar
  BY DEF FeedInit, Continues, ReadSoFar, NoFetch
<1>4. FeedComplete
  BY DEF FeedInit, FeedComplete
<1>5. QED
  BY <1>1, <1>2, <1>3, <1>4 DEF FeedInv

\* The start of an increment, when it is one.
LEMMA SinceTyped ==
    ASSUME FeedTypeOK, NEW p \in Products
    PROVE  /\ Since(p) \in Times
           /\ Since(p) # Never => feed[p].synced # Never /\ Since(p) <= feed[p].synced
<1>1. feed[p].synced \in Times /\ fetch.at \in 0..MaxClock /\ MaxClock \in Nat
      /\ Overlap \in Nat /\ MaxIncrement \in Nat
  BY FeedConstants DEF FeedTypeOK, FeedRow, Fetch
<1>2. CASE feed[p].synced # Never /\ fetch.at - feed[p].synced < MaxIncrement
  <2>1. Since(p) = Max({feed[p].synced - Overlap, 0})
    BY <1>2 DEF Since
  <2>2. feed[p].synced \in 0..MaxClock
    BY <1>1, <1>2 DEF Times, Never
  <2>3. feed[p].synced - Overlap \in Int
    BY <1>1, <2>2
  <2>4. Since(p) = IF feed[p].synced - Overlap >= 0 THEN feed[p].synced - Overlap ELSE 0
    BY <2>1, <2>3, MaxOfTwo
  <2>5. QED
    BY <1>1, <1>2, <2>2, <2>4 DEF Times, Never
<1>3. CASE ~(feed[p].synced # Never /\ fetch.at - feed[p].synced < MaxIncrement)
  BY <1>1, <1>3 DEF Since, Times, Never
<1>4. QED
  BY <1>2, <1>3

\* The answer depends on the product's records and on what is asked.
LEMMA AnswerSame ==
    ASSUME NEW p \in Products, nvd'[p] = nvd[p], fetch'.since = fetch.since, fetch'.at = fetch.at
    PROVE  Answer(p)' = Answer(p) /\ \A r \in Records : Ahead(p, r)' = Ahead(p, r)
<1>1. Answer(p)' = Answer(p)
  BY DEF Answer
<1>2. QED
  BY <1>1 DEF Ahead

\* Steps after which no product is being read and nothing was stored.
LEMMA NothingRead ==
    ASSUME FeedInv, UNCHANGED <<clock, nvd, held, feed, slipped>>, FeedTypeOK',
           fetch'.product = "none", fetch'.on => fetch'.at <= clock
    PROVE  FeedInv'
<1>1. Dated'
  BY DEF FeedInv, Dated
<1>2. Continues' /\ ReadSoFar'
  BY DEF Continues, ReadSoFar
<1>3. FeedComplete'
  BY DEF FeedInv, FeedComplete, Carried
<1>4. QED
  BY <1>1, <1>2, <1>3 DEF FeedInv

\* Steps that leave the records, the copy and the fetch alone.
LEMMA OnlyAround ==
    ASSUME FeedInv, UNCHANGED <<nvd, held, feed, fetch, slipped>>, FeedTypeOK', clock <= clock'
    PROVE  FeedInv'
<1>1. Dated'
  <2>1. clock \in Int /\ clock' \in Int /\ fetch.at \in Int /\ \A p \in Products : feed[p].synced \in Int
    BY FeedConstants DEF FeedInv, FeedTypeOK, Fetch, FeedRow, Times, Never
  <2>2. QED
    BY <2>1 DEF FeedInv, Dated
<1>2. Continues'
  BY DEF FeedInv, Continues
<1>3. ReadSoFar'
  BY DEF FeedInv, ReadSoFar, Ahead, Answer, Carried
<1>4. FeedComplete'
  BY DEF FeedInv, FeedComplete, Carried
<1>5. QED
  BY <1>1, <1>2, <1>3, <1>4 DEF FeedInv

\* A record changes: it is dated now, which no sync has covered yet, and a
\* product that is being read has moved.
LEMMA ReviseInv ==
    ASSUME FeedInv, NEW p \in Products, NEW r \in Records, Revise(p, r)
    PROVE  FeedInv'
<1> USE FeedConstants
<1>1. PICK rejected \in BOOLEAN :
         nvd' = [nvd EXCEPT ![p][r] = [revision |-> @.revision + 1, rejected |-> rejected, modified |-> clock]]
  BY DEF Revise
<1>2. /\ nvd \in [Products -> [Records -> NvdRow]] /\ clock \in 0..MaxClock
      /\ fetch \in Fetch /\ held \in [Products -> [Records -> 0..MaxRevision]]
      /\ feed \in [Products -> FeedRow]
  BY DEF FeedInv, FeedTypeOK
<1>3. nvd[p][r].revision + 1 \in 1..MaxRevision
  BY <1>2 DEF Revise, NvdRow
<1>4. /\ nvd'[p][r].revision = nvd[p][r].revision + 1 /\ nvd'[p][r].modified = clock
      /\ \A q \in Products, s \in Records : (q # p \/ s # r) => nvd'[q][s] = nvd[q][s]
      /\ \A q \in Products : q # p => nvd'[q] = nvd[q]
  BY <1>1, <1>2
<1>5. nvd' \in [Products -> [Records -> NvdRow]]
  <2>1. [revision |-> nvd[p][r].revision + 1, rejected |-> rejected, modified |-> clock] \in NvdRow
    BY <1>2, <1>3 DEF NvdRow
  <2>2. QED
    BY <1>1, <1>2, <2>1
<1>6. /\ fetch' \in Fetch /\ fetch'.on = fetch.on /\ fetch'.at = fetch.at /\ fetch'.product = fetch.product
      /\ fetch'.since = fetch.since /\ fetch'.start = fetch.start /\ fetch'.got = fetch.got
      /\ fetch'.moved = (fetch.moved \/ fetch.product = p)
  BY <1>2 DEF Revise, Fetch
<1>7. UNCHANGED <<clock, held, feed, caller, slipped>>
  BY DEF Revise
<1>8. FeedTypeOK'
  BY <1>5, <1>6, <1>7 DEF FeedInv, FeedTypeOK
<1>9. Dated'
  BY <1>2, <1>3, <1>4, <1>6, <1>7 DEF FeedInv, Dated
<1>10. Continues'
  BY <1>6, <1>7 DEF FeedInv, Continues
<1>11. ReadSoFar'
  <2> SUFFICES ASSUME fetch.product # "none" PROVE ReadSoFar'
    BY <1>6 DEF ReadSoFar
  <2>0. fetch.product \in Products
    BY DEF FeedInv, Continues
  <2>1. \A s \in Records, n \in 0..MaxRevision :
            <<s, n>> \in fetch'.got => nvd'[fetch'.product][s].revision # 0
    BY <1>3, <1>4, <1>6, <2>0 DEF FeedInv, ReadSoFar
  <2>2. CASE fetch.product = p
    BY <1>6, <2>1, <2>2 DEF ReadSoFar
  <2>3. CASE fetch.product # p
    <3>1. nvd'[fetch.product] = nvd[fetch.product]
      BY <1>4, <2>0, <2>3
    <3>2. Answer(fetch.product)' = Answer(fetch.product)
          /\ \A s \in Records : Ahead(fetch.product, s)' = Ahead(fetch.product, s)
      BY <1>6, <2>0, <3>1 DEF Answer, Ahead
    <3>3. ASSUME ~fetch'.moved, NEW s \in Records, NEW n \in 0..MaxRevision
          PROVE  <<s, n>> \in fetch'.got <=>
                     /\ s \in Answer(fetch.product)'
                     /\ Cardinality(Ahead(fetch.product, s)') < fetch'.start
                     /\ n = Carried(nvd'[fetch.product][s])
      <4>1. <<s, n>> \in fetch.got <=>
                 /\ s \in Answer(fetch.product)
                 /\ Cardinality(Ahead(fetch.product, s)) < fetch.start
                 /\ n = Carried(nvd[fetch.product][s])
        BY <1>6, <3>3 DEF FeedInv, ReadSoFar
      <4>2. Carried(nvd'[fetch.product][s]) = Carried(nvd[fetch.product][s])
        BY <3>1
      <4>3. QED
        BY <1>6, <3>2, <4>1, <4>2
    <3>4. QED
      BY <1>6, <2>1, <3>3 DEF ReadSoFar
  <2>4. QED
    BY <2>2, <2>3
<1>12. FeedComplete'
  <2> SUFFICES ASSUME NEW q \in Products \ slipped, NEW s \in Records,
                      feed[q].synced # Never, nvd'[q][s].modified < feed[q].synced
               PROVE  held[q][s] = Carried(nvd'[q][s])
    BY <1>7 DEF FeedComplete, Carried
  <2>1. CASE q = p /\ s = r
    BY <1>2, <1>4, <2>1 DEF FeedInv, Dated, FeedRow, Times, Never
  <2>2. CASE q # p \/ s # r
    BY <1>4, <2>2 DEF FeedInv, FeedComplete
  <2>3. QED
    BY <2>1, <2>2
<1>13. QED
  BY <1>8, <1>9, <1>10, <1>11, <1>12 DEF FeedInv

\* A product is asked for, from where its last fetch began or from nothing.
LEMMA BeginInv ==
    ASSUME FeedInv, NEW p \in Products, BeginProduct(p)
    PROVE  FeedInv'
<1> USE FeedConstants
<1>1. /\ fetch \in Fetch /\ feed \in [Products -> FeedRow] /\ Since(p) \in Times /\ fetch.on
  BY SinceTyped DEF FeedInv, FeedTypeOK, BeginProduct
<1>2. /\ fetch' \in Fetch /\ fetch'.on = fetch.on /\ fetch'.at = fetch.at /\ fetch'.product = p
      /\ fetch'.since = Since(p) /\ fetch'.start = 0 /\ fetch'.got = {}
  BY <1>1 DEF BeginProduct, Fetch
<1>3. /\ feed' \in [Products -> FeedRow] /\ \A q \in Products : feed'[q].synced = feed[q].synced
  <2>1. fetch.at \in Times
    BY <1>1 DEF Fetch, Times, Never
  <2>2. QED
    BY <1>1, <2>1 DEF BeginProduct, FeedRow
<1>4. UNCHANGED <<clock, nvd, held, caller, slipped>>
  BY DEF BeginProduct
<1>5. FeedTypeOK'
  BY <1>2, <1>3, <1>4 DEF FeedInv, FeedTypeOK
<1>6. Dated'
  BY <1>2, <1>3, <1>4 DEF FeedInv, Dated
<1>7. Continues'
  BY <1>1, <1>2, <1>3, SinceTyped DEF FeedInv, Continues
<1>8. ReadSoFar'
  <2>1. ASSUME NEW r \in Records PROVE Cardinality(Ahead(fetch.product, r))' \in Nat
    <3>1. Ahead(fetch.product, r)' \subseteq Records
      BY DEF Ahead, Answer
    <3>2. IsFiniteSet(Ahead(fetch.product, r)')
      BY <3>1, FS_Subset
    <3>3. QED
      BY <3>2, FS_CardinalityType
  <2>2. ASSUME NEW r \in Records PROVE ~(Cardinality(Ahead(fetch.product, r))' < fetch'.start)
    BY <1>2, <2>1
  <2>3. QED
    BY <1>2, <2>2 DEF ReadSoFar
<1>9. FeedComplete'
  BY <1>3, <1>4 DEF FeedInv, FeedComplete, Carried
<1>10. QED
  BY <1>5, <1>6, <1>7, <1>8, <1>9 DEF FeedInv

\* The next record is read: the only one with that many ahead of it.
LEMMA PageInv ==
    ASSUME FeedInv, FetchPage
    PROVE  FeedInv'
<1> USE FeedConstants
<1> DEFINE P == fetch.product
<1>1. PICK r \in Answer(P) :
         /\ Cardinality(Ahead(P, r)) = fetch.start
         /\ fetch' = [fetch EXCEPT !.start = @ + 1, !.got = @ \cup {<<r, Carried(nvd[P][r])>>}]
  BY DEF FetchPage, Ahead
<1>2. /\ fetch \in Fetch /\ nvd \in [Products -> [Records -> NvdRow]] /\ P \in Products
      /\ r \in Records /\ P # "none"
  BY AnswerFinite DEF FeedInv, FeedTypeOK, FetchPage, Continues
<1>3. nvd[P][r].revision # 0 /\ Carried(nvd[P][r]) \in 0..MaxRevision
  BY <1>1, <1>2 DEF Answer, Carried, NvdRow
<1>4. /\ fetch'.on = fetch.on /\ fetch'.at = fetch.at /\ fetch'.product = P
      /\ fetch'.since = fetch.since /\ fetch'.start = fetch.start + 1 /\ fetch'.moved = fetch.moved
      /\ fetch'.got = fetch.got \cup {<<r, Carried(nvd[P][r])>>}
  BY <1>1, <1>2 DEF Fetch
<1>5. fetch' \in Fetch
  <2>1. fetch.start + 1 \in Nat
    BY <1>2 DEF Fetch
  <2>2. fetch.got \cup {<<r, Carried(nvd[P][r])>>} \in SUBSET (Records \X (0..MaxRevision))
    BY <1>2, <1>3 DEF Fetch
  <2> DEFINE n == fetch.start + 1
             g == fetch.got \cup {<<r, Carried(nvd[P][r])>>}
  <2>3. fetch' = [fetch EXCEPT !.start = n, !.got = g]
    BY <1>1
  <2>4. n \in Nat /\ g \in SUBSET (Records \X (0..MaxRevision))
    BY <2>1, <2>2
  <2> HIDE DEF n, g
  <2>5. QED
    BY <1>2, <2>3, <2>4 DEF Fetch
<1>6. UNCHANGED <<clock, nvd, held, feed, caller, slipped>>
  BY DEF FetchPage
<1>7. FeedTypeOK'
  BY <1>5, <1>6 DEF FeedInv, FeedTypeOK
<1>8. Dated'
  BY <1>4, <1>6 DEF FeedInv, Dated
<1>9. Continues'
  BY <1>4, <1>6 DEF FeedInv, Continues
<1>10. ReadSoFar'
  <2>1. Answer(P)' = Answer(P) /\ \A s \in Records : Ahead(P, s)' = Ahead(P, s)
    BY <1>4, <1>6 DEF Answer, Ahead
  <2>2. \A s \in Records, n \in 0..MaxRevision :
            <<s, n>> \in fetch'.got => nvd[P][s].revision # 0
    BY <1>2, <1>3, <1>4 DEF FeedInv, ReadSoFar
  <2>3. ASSUME ~fetch.moved, NEW s \in Records, NEW n \in 0..MaxRevision
        PROVE  <<s, n>> \in fetch'.got <=>
                   /\ s \in Answer(P)
                   /\ Cardinality(Ahead(P, s)) < fetch.start + 1
                   /\ n = Carried(nvd[P][s])
    <3>1. <<s, n>> \in fetch.got <=>
              /\ s \in Answer(P)
              /\ Cardinality(Ahead(P, s)) < fetch.start
              /\ n = Carried(nvd[P][s])
      BY <1>2, <2>3 DEF FeedInv, ReadSoFar
    <3>2. <<s, n>> \in fetch'.got <=> <<s, n>> \in fetch.got \/ (s = r /\ n = Carried(nvd[P][r]))
      BY <1>4
    <3>3. s \in Answer(P) /\ Cardinality(Ahead(P, s)) = fetch.start => s = r
      <4> SUFFICES ASSUME s \in Answer(P), Cardinality(Ahead(P, s)) = fetch.start, s # r
                   PROVE  FALSE
        OBVIOUS
      <4>1. s \in Nat /\ r \in Nat /\ fetch.start \in Nat
        BY <1>2 DEF Fetch
      <4>2. s < r \/ r < s
        BY <4>1
      <4>3. Cardinality(Ahead(P, s)) < Cardinality(Ahead(P, r)) \/ Cardinality(Ahead(P, r)) < Cardinality(Ahead(P, s))
        BY <4>2, AheadGrows
      <4>4. QED
        BY <1>1, <4>1, <4>3
    <3>4. Cardinality(Ahead(P, s)) \in Nat /\ fetch.start \in Nat
      BY <1>2, AheadCounted DEF Fetch
    <3>5. QED
      BY <1>1, <3>1, <3>2, <3>3, <3>4
  <2>4. ASSUME ~fetch'.moved, NEW s \in Records, NEW n \in 0..MaxRevision
        PROVE  <<s, n>> \in fetch'.got <=>
                   /\ s \in Answer(P)'
                   /\ Cardinality(Ahead(P, s)') < fetch'.start
                   /\ n = Carried(nvd[P][s])'
    BY <1>4, <1>6, <2>1, <2>3, <2>4
  <2>5. QED
    BY <1>4, <1>6, <2>2, <2>4 DEF ReadSoFar
<1>11. FeedComplete'
  BY <1>6 DEF FeedInv, FeedComplete, Carried
<1>12. QED
  BY <1>7, <1>8, <1>9, <1>10, <1>11 DEF FeedInv

\* What is stored of a record, when nothing of the product moved meanwhile: as
\* the NVD has it, if its change is older than the fetch.
LEMMA StoredIs ==
    ASSUME FeedInv, fetch.on, fetch.product # "none", ~fetch.moved,
           Cardinality(Answer(fetch.product)) <= fetch.start,
           fetch.since # Never => fetch.product \notin slipped,
           NEW r \in Records, nvd[fetch.product][r].modified < fetch.at
    PROVE  StoredAs(fetch.product, r) = Carried(nvd[fetch.product][r])
<1> USE FeedConstants
<1> DEFINE P == fetch.product
           v == Carried(nvd[P][r])
           Read == {n \in 0..MaxRevision : <<r, n>> \in fetch.got}
<1>1. /\ fetch \in Fetch /\ P \in Products /\ nvd[P][r] \in NvdRow /\ feed[P] \in FeedRow
  BY DEF FeedInv, FeedTypeOK, Continues
<1>2. v \in 0..MaxRevision /\ MaxRevision \in Nat
  BY <1>1 DEF Carried, NvdRow
<1>3. CASE r \in Answer(P)
  <2>1. Cardinality(Ahead(P, r)) < fetch.start
    <3>1. /\ Cardinality(Ahead(P, r)) < Cardinality(Answer(P)) /\ Cardinality(Ahead(P, r)) \in Nat
          /\ Cardinality(Answer(P)) \in Nat /\ fetch.start \in Nat
      BY <1>1, <1>3, AheadFewer, AheadCounted, AnswerFinite DEF Fetch
    <3>2. QED
      BY <3>1
  <2>2. \A n \in 0..MaxRevision : <<r, n>> \in fetch.got <=> n = v
    BY <1>3, <2>1 DEF FeedInv, ReadSoFar
  <2>3. v \in Read /\ \A n \in Read : n = v
    BY <1>2, <2>2
  <2> HIDE DEF Read
  <2>4. Max(Read) = v
    BY <1>2, <2>3, MaxOfOne
  <2>5. QED
    BY <1>2, <2>2, <2>4 DEF StoredAs, Read
<1>4. CASE r \notin Answer(P)
  <2>1. \A n \in 0..MaxRevision : <<r, n>> \notin fetch.got
    BY <1>4 DEF FeedInv, ReadSoFar
  <2>2. StoredAs(P, r) = IF fetch.since = Never THEN 0 ELSE held[P][r]
    BY <2>1 DEF StoredAs
  <2>3. CASE fetch.since = Never
    BY <1>1, <1>4, <2>2, <2>3 DEF Answer, Carried, NvdRow
  <2>4. CASE fetch.since # Never /\ nvd[P][r].revision = 0
    BY <1>1, <2>2, <2>4 DEF FeedInv, Dated, Carried
  <2>5. CASE fetch.since # Never /\ nvd[P][r].revision # 0
    <3>1. nvd[P][r].modified \notin fetch.since..fetch.at
      BY <1>1, <1>4, <2>5 DEF Answer, NvdRow
    <3>2. nvd[P][r].modified < fetch.since
      BY <1>1, <3>1 DEF Fetch, NvdRow, Times, Never
    <3>3. feed[P].synced # Never /\ fetch.since <= feed[P].synced
      BY <2>5 DEF FeedInv, Continues
    <3>4. nvd[P][r].modified < feed[P].synced
      BY <1>1, <3>2, <3>3 DEF Fetch, FeedRow, NvdRow, Times, Never
    <3>5. QED
      BY <1>1, <2>2, <2>5, <3>3, <3>4 DEF FeedInv, FeedComplete
  <2>6. QED
    BY <2>3, <2>4, <2>5
<1>5. QED
  BY <1>3, <1>4

\* A record that was never there is stored as nothing.
LEMMA StoredNothing ==
    ASSUME FeedInv, fetch.product # "none", NEW r \in Records, nvd[fetch.product][r].revision = 0
    PROVE  StoredAs(fetch.product, r) = 0
<1>1. \A n \in 0..MaxRevision : <<r, n>> \notin fetch.got
  BY DEF FeedInv, ReadSoFar
<1>2. held[fetch.product][r] = 0
  BY DEF FeedInv, Dated, Continues
<1>3. QED
  BY <1>1, <1>2 DEF StoredAs

LEMMA StoredTyped ==
    ASSUME FeedInv, fetch.product # "none", NEW r \in Records
    PROVE  StoredAs(fetch.product, r) \in 0..MaxRevision
<1> DEFINE Read == {n \in 0..MaxRevision : <<r, n>> \in fetch.got}
<1>1. held[fetch.product][r] \in 0..MaxRevision /\ MaxRevision \in Nat
  BY FeedConstants DEF FeedInv, FeedTypeOK, Continues
<1>2. CASE Read = {}
  <2>1. \A n \in 0..MaxRevision : <<r, n>> \notin fetch.got
    BY <1>2
  <2>2. StoredAs(fetch.product, r) = IF fetch.since = Never THEN 0 ELSE held[fetch.product][r]
    BY <2>1 DEF StoredAs
  <2>3. QED
    BY <1>1, <2>2
<1>3. CASE Read # {}
  <2>1. Read \subseteq 0..MaxRevision
    OBVIOUS
  <2>2. StoredAs(fetch.product, r) = Max(Read)
    BY <1>3 DEF StoredAs
  <2> HIDE DEF Read
  <2>3. \E m \in Read : \A n \in Read : m >= n
    <3>1. 0 \in Int /\ MaxRevision \in Int
      BY <1>1
    <3>2. QED
      BY <1>3, <2>1, <3>1, GreatestNumber, Zenon
  <2>4. Max(Read) \in Read
    BY <2>3 DEF Max
  <2>5. QED
    BY <2>1, <2>2, <2>4
<1>4. QED
  BY <1>2, <1>3

LEMMA StoreInv ==
    ASSUME FeedInv, StoreProduct
    PROVE  FeedInv'
<1> USE FeedConstants
<1> DEFINE P == fetch.product
<1>1. /\ fetch \in Fetch /\ P \in Products /\ P # "none" /\ fetch.on
      /\ feed \in [Products -> FeedRow] /\ held \in [Products -> [Records -> 0..MaxRevision]]
      /\ nvd \in [Products -> [Records -> NvdRow]] /\ clock \in 0..MaxClock
      /\ fetch.at <= clock /\ fetch.at \in 0..MaxClock
  BY DEF FeedInv, FeedTypeOK, StoreProduct, Continues, Dated, Fetch
<1>2. /\ held' = [held EXCEPT ![P] = [r \in Records |-> StoredAs(P, r)]]
      /\ feed' = [feed EXCEPT ![P].synced = fetch.at]
      /\ slipped' = IF fetch.moved THEN slipped \cup {P}
                    ELSE IF fetch.since = Never THEN slipped \ {P} ELSE slipped
      /\ fetch' = ProductDone
      /\ UNCHANGED <<clock, nvd, caller>>
      /\ Cardinality(Answer(P)) <= fetch.start
  BY DEF StoreProduct
<1>3. fetch' \in Fetch /\ fetch'.product = "none" /\ fetch'.on = fetch.on /\ fetch'.at = fetch.at
  BY <1>1, <1>2, DoneTyped
<1>4. held' \in [Products -> [Records -> 0..MaxRevision]]
      /\ \A r \in Records : held'[P][r] = StoredAs(P, r)
      /\ \A q \in Products \ {P} : held'[q] = held[q]
  BY <1>1, <1>2, StoredTyped
<1>5. feed' \in [Products -> FeedRow] /\ feed'[P].synced = fetch.at
      /\ \A q \in Products \ {P} : feed'[q] = feed[q]
  <2>1. fetch.at \in Times
    BY <1>1 DEF Times, Never
  <2>2. QED
    BY <1>1, <1>2, <2>1 DEF FeedRow
<1>6. FeedTypeOK'
  <2>1. slipped' \subseteq Products
    BY <1>1, <1>2 DEF FeedInv, FeedTypeOK
  <2>2. QED
    BY <1>2, <1>3, <1>4, <1>5, <2>1 DEF FeedInv, FeedTypeOK
<1>7. Dated'
  <2>1. fetch'.on => fetch'.at <= clock'
    BY <1>1, <1>2, <1>3
  <2>2. \A q \in Products : feed'[q].synced <= clock'
    BY <1>1, <1>2, <1>5 DEF FeedInv, Dated
  <2>3. ASSUME NEW q \in Products, NEW r \in Records, nvd[q][r].revision = 0
        PROVE  held'[q][r] = 0
    <3>1. CASE q = P
      BY <1>1, <1>4, <2>3, <3>1, StoredNothing
    <3>2. CASE q # P
      BY <1>4, <2>3, <3>2 DEF FeedInv, Dated
    <3>3. QED
      BY <3>1, <3>2
  <2>4. QED
    BY <1>2, <2>1, <2>2, <2>3 DEF Dated
<1>8. Continues' /\ ReadSoFar'
  BY <1>3 DEF Continues, ReadSoFar
<1>9. FeedComplete'
  <2> SUFFICES ASSUME NEW q \in Products, q \notin slipped', NEW r \in Records,
                      feed'[q].synced # Never, nvd[q][r].modified < feed'[q].synced
               PROVE  held'[q][r] = Carried(nvd[q][r])
    BY <1>2 DEF FeedComplete, Carried
  <2>1. CASE q = P
    <3>1. ~fetch.moved /\ (fetch.since # Never => P \notin slipped)
      BY <1>2, <2>1
    <3>2. nvd[P][r].modified < fetch.at
      BY <1>5, <2>1
    <3>3. StoredAs(P, r) = Carried(nvd[P][r])
      BY <1>1, <1>2, <3>1, <3>2, StoredIs
    <3>4. QED
      BY <1>4, <2>1, <3>3
  <2>2. CASE q # P
    <3>1. q \notin slipped
      BY <1>2, <2>2
    <3>2. QED
      BY <1>4, <1>5, <2>2, <3>1 DEF FeedInv, FeedComplete
  <2>3. QED
    BY <2>1, <2>2
<1>10. QED
  BY <1>6, <1>7, <1>8, <1>9 DEF FeedInv

LEMMA FeedNextInv ==
    ASSUME FeedInv, [FeedNext]_feedVars
    PROVE  FeedInv'
<1> USE FeedConstants
<1>0. FeedTypeOK
  BY DEF FeedInv
<1>1. ASSUME FeedTick PROVE FeedInv'
  <2>1. clock' \in 0..MaxClock /\ clock <= clock'
    BY <1>0, <1>1 DEF FeedTick, FeedTypeOK
  <2>2. FeedTypeOK'
    BY <1>0, <1>1, <2>1 DEF FeedTick, FeedTypeOK
  <2>3. QED
    BY <1>1, <2>1, <2>2, OnlyAround DEF FeedTick
<1>2. ASSUME FetchPage PROVE FeedInv'
  BY <1>2, PageInv
<1>3. ASSUME StoreProduct PROVE FeedInv'
  BY <1>3, StoreInv
<1>4. ASSUME FailProduct PROVE FeedInv'
  <2>1. fetch' \in Fetch /\ fetch'.product = "none" /\ fetch'.on = fetch.on /\ fetch'.at = fetch.at
    BY <1>0, <1>4, DoneTyped DEF FailProduct, FeedTypeOK
  <2>2. FeedTypeOK'
    BY <1>0, <1>4, <2>1 DEF FailProduct, FeedTypeOK
  <2>3. QED
    BY <1>4, <2>1, <2>2, NothingRead DEF FailProduct, FeedInv, Dated
<1>5. ASSUME NEW c \in Callers, EndSync(c) PROVE FeedInv'
  <2>1. fetch' \in Fetch /\ fetch'.product = "none" /\ ~fetch'.on
    BY <1>5, NoFetchTyped DEF EndSync
  <2>2. FeedTypeOK'
    BY <1>0, <1>5, <2>1 DEF EndSync, FeedTypeOK
  <2>3. QED
    BY <1>5, <2>1, <2>2, NothingRead DEF EndSync
<1>6. ASSUME RestartFeed PROVE FeedInv'
  <2>1. fetch' \in Fetch /\ fetch'.product = "none" /\ ~fetch'.on
    BY <1>6, NoFetchTyped DEF RestartFeed
  <2>2. FeedTypeOK'
    BY <1>0, <1>6, <2>1 DEF RestartFeed, FeedTypeOK
  <2>3. QED
    BY <1>6, <2>1, <2>2, NothingRead DEF RestartFeed
<1>7. ASSUME NEW p \in Products, BeginProduct(p) PROVE FeedInv'
  BY <1>7, BeginInv
<1>8. ASSUME NEW p \in Products, NEW r \in Records, Revise(p, r) PROVE FeedInv'
  BY <1>8, ReviseInv
<1>9. ASSUME NEW c \in Callers, Ask(c) \/ TurnAway(c) PROVE FeedInv'
  <2>1. FeedTypeOK' /\ clock <= clock'
    BY <1>0, <1>9 DEF Ask, TurnAway, FeedTypeOK
  <2>2. QED
    BY <1>9, <2>1, OnlyAround DEF Ask, TurnAway
<1>10. ASSUME NEW c \in Callers, Start(c) PROVE FeedInv'
  <2>1. fetch' \in Fetch /\ fetch'.product = "none" /\ fetch'.at = clock
    BY <1>0, <1>10, StartTyped DEF Start, FeedTypeOK
  <2>2. FeedTypeOK' /\ clock \in Int
    BY <1>0, <1>10, <2>1 DEF Start, FeedTypeOK
  <2>3. QED
    BY <1>10, <2>1, <2>2, NothingRead DEF Start
<1>11. ASSUME UNCHANGED feedVars PROVE FeedInv'
  <2>1. FeedTypeOK' /\ clock <= clock'
    BY <1>0, <1>11 DEF feedVars, FeedTypeOK
  <2>2. QED
    BY <1>11, <2>1, OnlyAround DEF feedVars
<1>12. QED
  BY <1>1, <1>2, <1>3, <1>4, <1>5, <1>6, <1>7, <1>8, <1>9, <1>10, <1>11 DEF FeedNext

\* Through failed fetches, restarts and increments, whatever the NVD had when a
\* product was last synced is held (cve_feed.sync, _store).
THEOREM FeedHasAll == FeedSpec => []FeedComplete
<1>1. FeedInv => FeedComplete
  BY DEF FeedInv
<1>2. QED
  BY FeedInitInv, FeedNextInv, <1>1, PTL DEF FeedSpec

\* The variables of the copy have their types.
THEOREM FeedTypes == FeedSpec => []FeedTypeOK
<1>1. FeedInv => FeedTypeOK
  BY DEF FeedInv
<1>2. QED
  BY FeedInitInv, FeedNextInv, <1>1, PTL DEF FeedSpec

\* The last attempt is the latest of those of the products.
LEMMA AttemptTyped ==
    ASSUME FeedTypeOK
    PROVE  LastAttempt \in Times
<1> DEFINE Attempts == {feed[p].attempted : p \in Products}
<1>1. Attempts \subseteq (-1)..MaxClock /\ Attempts # {} /\ MaxClock \in Int
  BY FeedConstants DEF FeedTypeOK, FeedRow, Times, Never
<1> HIDE DEF Attempts
<1>2. \E m \in Attempts : \A n \in Attempts : m >= n
  <2>1. -1 \in Int
    OBVIOUS
  <2>2. QED
    BY <1>1, <2>1, GreatestNumber, Zenon
<1>3. Max(Attempts) \in Attempts
  BY <1>2 DEF Max
<1>4. QED
  BY <1>1, <1>3 DEF LastAttempt, Attempts, Times, Never

\* The NVD is not asked again within MIN_INTERVAL of the last attempt, whoever
\* asks and whatever happened since (cve_feed.sync).
THEOREM FeedAsksSparingly == FeedSpec => AskedSparingly
<1>1. ASSUME FeedTypeOK, NEW c \in Callers, Start(c), LastAttempt # Never
      PROVE  clock - LastAttempt >= MinInterval
  <2>1. ~(clock - LastAttempt < MinInterval)
    BY <1>1 DEF Start, Refused, Within
  <2>2. LastAttempt \in Int /\ clock \in Int /\ MinInterval \in Int
    BY <1>1, AttemptTyped, FeedConstants DEF FeedTypeOK, Times, Never
  <2>3. QED
    BY <2>1, <2>2
<1>2. FeedTypeOK /\ [FeedNext]_feedVars =>
          [\A c \in Callers : (Start(c) /\ LastAttempt # Never) => clock - LastAttempt >= MinInterval]_feedVars
  BY <1>1
<1>3. QED
  BY <1>2, FeedTypes, PTL DEF FeedSpec, AskedSparingly
(***************************************************************************)
(* PART IV: Advisories                                                     *)
(***************************************************************************)

(***************************************************************************)
(* The engine, for every rule and every version.                           *)
(***************************************************************************)
Versions == [branch : Nat, patch : Nat, patch_known : BOOLEAN, vendor : BOOLEAN]

\* What is shown of a version is true, though not the whole of it.
TrueOf(v, build) ==
    v \in Versions /\ v.branch = build.branch /\ (v.patch_known => v.patch = build.patch)

LEMMA FixIn ==
    ASSUME NEW rule \in RawRule, NEW f \in rule.fixes
    PROVE  FixOf(rule, f.branch) \in rule.fixes /\ FixOf(rule, f.branch).branch = f.branch
BY DEF FixOf

\* A verdict is never of comfort for what may have the flaw.
LEMMA VerdictSilent ==
    ASSUME NEW rule \in RawRule, NEW build \in Build, NEW v, TrueOf(v, build),
           MayHaveFlaw(rule, build)
    PROVE  Verdict(rule, v) \in {"vulnerable", "cannot_tell"}
<1>1. /\ v.branch = build.branch /\ v.branch \in Nat /\ v.patch \in Nat /\ build.patch \in Nat
      /\ v.patch_known => v.patch = build.patch
      /\ \A f \in rule.fixes : f.branch \in Nat /\ f.patch \in Nat
      /\ \A r \in rule.introduced : r.branch \in Nat /\ r.patch \in Nat
  <2>1. rule.fixes \subseteq Release /\ rule.introduced \subseteq Release
    BY DEF RawRule
  <2>2. QED
    BY <2>1 DEF TrueOf, Versions, Build, Release
<1>2. ~Predates(rule, v)
  BY <1>1 DEF Predates, Precedes, MayHaveFlaw
<1>3. CASE \E f \in rule.fixes : f.branch = v.branch
  <2>1. PICK f \in rule.fixes : f.branch = v.branch
    BY <1>3
  <2> DEFINE fix == FixOf(rule, v.branch)
  <2>2. fix \in rule.fixes /\ fix.branch = v.branch
    BY <2>1, FixIn
  <2>3. Precedes(build, fix)
    BY <1>1, <2>2 DEF MayHaveFlaw
  <2> HIDE DEF fix
  <2>4. v.patch_known => Precedes(v, fix)
    BY <1>1, <2>2, <2>3 DEF Precedes
  <2>5. KnownBranch(rule, v) \in {"vulnerable", "cannot_tell"}
    BY <2>4 DEF KnownBranch, fix
  <2>6. QED
    BY <1>2, <1>3, <2>5 DEF Verdict
<1>4. CASE ~\E f \in rule.fixes : f.branch = v.branch
  <2>1. ~\A f \in rule.fixes : v.branch > f.branch
    BY <1>1 DEF MayHaveFlaw
  <2>2. \/ \E f \in rule.fixes : v.branch > f.branch
        \/ rule.older # "not_affected"
    BY <1>1, <1>4 DEF MayHaveFlaw
  <2>3. OtherBranch(rule, v) \in {"vulnerable", "cannot_tell"}
    BY <2>1, <2>2 DEF OtherBranch
  <2>4. QED
    BY <1>2, <1>4, <2>3 DEF Verdict
<1>5. QED
  BY <1>3, <1>4

LEMMA VerdictTyped ==
    ASSUME NEW rule, NEW v
    PROVE  Verdict(rule, v) \in Outcomes
<1>1. KnownBranch(rule, v) \in Outcomes
  BY DEF KnownBranch, Outcomes
<1>2. OtherBranch(rule, v) \in Outcomes
  BY DEF OtherBranch, Outcomes
<1>3. QED
  BY <1>1, <1>2 DEF Verdict, Outcomes

(***************************************************************************)
(* What is read of a side is true of one of its servers.                   *)
(***************************************************************************)
Sides == [hops : Seq(Hosts), page : BOOLEAN]
TrueOfSide(v, side) ==
    v = NoVersion \/ \E i \in 1..Len(side.hops) : TrueOf(v, runs[side.hops[i]])

LEMMA BuildOf ==
    ASSUME runs \in [Hosts -> Builds], NEW h \in Hosts
    PROVE  runs[h] \in Build
BY AdvisoryConstants

LEMMA ShownTrue ==
    ASSUME runs \in [Hosts -> Builds], NEW h \in Hosts, NEW kind
    PROVE  TrueOf(Shown(h, kind), runs[h])
<1> DEFINE b == runs[h]
<1>1. b \in Build
  BY BuildOf
<1>2. b.branch \in Nat /\ b.patch \in Nat /\ b.vendor \in BOOLEAN
  BY <1>1 DEF Build
<1> DEFINE p == kind = "release"
           n == IF kind = "release" THEN b.patch ELSE 0
<1>3. p \in BOOLEAN /\ n \in Nat /\ (p => n = b.patch)
  BY <1>2
<1> DEFINE v == [branch |-> b.branch, patch |-> n, patch_known |-> p, vendor |-> b.vendor]
<1>4. Shown(h, kind) = v
  BY DEF Shown
<1> HIDE DEF b, p, n
<1>5. v \in Versions /\ v.branch = b.branch /\ v.patch_known = p /\ v.patch = n
  BY <1>2, <1>3 DEF Versions
<1> HIDE DEF v
<1>6. TrueOf(v, b)
  BY <1>3, <1>5 DEF TrueOf
<1>7. QED
  BY <1>4, <1>6 DEF b

\* Of places in order, the first.
LEMMA FirstOf ==
    ASSUME NEW n \in Nat, NEW T, T \subseteq 1..n, T # {}
    PROVE  First(T) \in T
<1>1. T \subseteq Nat
  OBVIOUS
<1>2. \E i \in T : \A j \in T : i <= j
  BY <1>1, LeastNumber
<1>3. QED
  BY <1>2 DEF First

LEMMA HeadersTrue ==
    ASSUME runs \in [Hosts -> Builds], NEW side \in Sides
    PROVE  TrueOfSide(InHeaders(side), side)
<1> DEFINE with == {i \in 1..Len(side.hops) : runs[side.hops[i]].header \in Numbered}
           first == First(with)
           h == side.hops[first]
<1>1. side.hops \in Seq(Hosts) /\ Len(side.hops) \in Nat
  BY LenProperties DEF Sides
<1>2. CASE with = {}
  BY <1>2 DEF InHeaders, TrueOfSide
<1>3. CASE with # {}
  <2>1. first \in with
    BY <1>1, <1>3, FirstOf
  <2>2. first \in 1..Len(side.hops)
    BY <2>1
  <2>3. h \in Hosts
    BY <1>1, <2>2, ElementOfSeq
  <2>4. InHeaders(side) = Shown(h, runs[h].header)
    BY <1>3 DEF InHeaders
  <2> HIDE DEF first
  <2>5. TrueOf(Shown(h, runs[h].header), runs[h])
    BY <2>3, ShownTrue
  <2>6. QED
    BY <2>2, <2>4, <2>5 DEF TrueOfSide
<1>4. QED
  BY <1>2, <1>3

LEMMA FinalHopIs ==
    ASSUME NEW side \in Sides, side.hops # << >>
    PROVE  FinalHop(side.hops) \in Hosts /\ Len(side.hops) \in 1..Len(side.hops)
<1>1. side.hops \in Seq(Hosts)
  BY DEF Sides
<1>2. Len(side.hops) \in Nat /\ Len(side.hops) > 0
  BY <1>1, EmptySeq, LenProperties
<1>3. QED
  BY <1>1, <1>2, ElementOfSeq DEF FinalHop

LEMMA GeneratorTrue ==
    ASSUME runs \in [Hosts -> Builds], NEW side \in Sides, side.hops # << >>
    PROVE  TrueOfSide(InGenerator(side), side)
<1> DEFINE h == FinalHop(side.hops)
<1>1. h \in Hosts /\ Len(side.hops) \in 1..Len(side.hops) /\ h = side.hops[Len(side.hops)]
  BY FinalHopIs DEF FinalHop
<1>2. TrueOf(Shown(h, runs[h].generator), runs[h])
  BY <1>1, ShownTrue
<1>3. InGenerator(side) \in {NoVersion, Shown(h, runs[h].generator)}
  BY DEF InGenerator
<1> HIDE DEF h
<1>4. QED
  BY <1>1, <1>2, <1>3 DEF TrueOfSide

LEMMA FilesTrue ==
    ASSUME runs \in [Hosts -> Builds], NEW side \in Sides, side.hops # << >>
    PROVE  TrueOfSide(InFiles(side), side)
<1> DEFINE h == FinalHop(side.hops)
           was == Shown(h, "release")
           v == [was EXCEPT !.vendor = FALSE]
<1>1. h \in Hosts /\ Len(side.hops) \in 1..Len(side.hops) /\ h = side.hops[Len(side.hops)]
  BY FinalHopIs DEF FinalHop
<1>2. TrueOf(was, runs[h])
  BY <1>1, ShownTrue
<1>3. InFiles(side) \in {NoVersion, v}
  BY DEF InFiles
<1> HIDE DEF h, was
<1>4. TrueOf(v, runs[h])
  BY <1>2 DEF TrueOf, Versions
<1> HIDE DEF v
<1>5. QED
  BY <1>1, <1>3, <1>4 DEF TrueOfSide

LEMMA ReadTrue ==
    ASSUME runs \in [Hosts -> Builds], NEW side \in Sides, side.hops # << >>, NEW rule \in RawRule
    PROVE  TrueOfSide(ReadVersion(rule, side), side)
<1>1. \A place : TrueOfSide(InPlace(place, side), side)
  BY HeadersTrue, GeneratorTrue DEF InPlace
<1>2. TrueOfSide(InFiles(side), side)
  BY FilesTrue
<1>3. QED
  BY <1>1, <1>2, Zenon DEF ReadVersion
(***************************************************************************)
(* The domain's own answers.                                               *)
(***************************************************************************)
LEMMA OwnCountIs ==
    ASSUME NEW hops \in Seq(Hosts), hops # << >>
    PROVE  OwnCount(hops) \in 1..Len(hops)
<1> DEFINE n == Len(hops)
           T == {k \in 1..n : \A i \in 2..k : Site[hops[i]] = Site[hops[1]]}
<1>1. n \in Nat /\ n > 0
  BY EmptySeq, LenProperties
<1>2. 1 \in T /\ T \subseteq 1..n
  BY <1>1
<1> HIDE DEF n
<1>3. PICK m \in T : \A k \in T : m >= k
  <2> HIDE DEF T
  <2>1. T # {} /\ 1 \in Int /\ n \in Int
    BY <1>1, <1>2
  <2>2. QED
    BY <1>2, <2>1, GreatestNumber
<1>4. ASSUME m < n, Site[hops[m + 1]] = Site[hops[1]] PROVE FALSE
  <2>1. m \in 1..n /\ m + 1 \in 1..n
    BY <1>1, <1>3, <1>4
  <2>2. \A i \in 2..(m + 1) : i \in 2..m \/ i = m + 1
    BY <2>1
  <2>3. m + 1 \in T
    BY <1>3, <1>4, <2>1, <2>2
  <2>4. QED
    BY <1>3, <2>1, <2>3
<1>5. \E k \in 1..n : /\ \A i \in 2..k : Site[hops[i]] = Site[hops[1]]
                      /\ k < n => Site[hops[k + 1]] # Site[hops[1]]
  BY <1>3, <1>4
<1>6. QED
  BY <1>5 DEF OwnCount, n

LEMMA OwnSideTyped ==
    ASSUME NEW hops \in Seq(Hosts), hops # << >>, NEW rules
    PROVE  /\ OwnSide(rules, hops) \in Sides
           /\ OwnSide(rules, hops).hops # << >>
<1> DEFINE n == OwnCount(hops)
           own == SubSeq(hops, 1, n)
           page == PageRead(rules) /\ ~Redirected(hops)
<1>1. n \in 1..Len(hops) /\ Len(hops) \in Nat
  BY OwnCountIs, LenProperties
<1> HIDE DEF n
<1>2. \A i \in 1..n : hops[i] \in Hosts
  BY <1>1, ElementOfSeq
<1>3. own \in Seq(Hosts) /\ Len(own) = n
  BY <1>1, <1>2, SubSeqProperties
<1>4. own # << >>
  BY <1>1, <1>3, EmptySeq
<1>5. page \in BOOLEAN
  BY DEF PageRead
<1>6. OwnSide(rules, hops) = [hops |-> own, page |-> page]
  BY DEF OwnSide, n
<1> HIDE DEF own, page
<1>7. QED
  BY <1>3, <1>4, <1>5, <1>6 DEF Sides

LEMMA MatchesTyped ==
    ASSUME NEW rules, rules \subseteq RawRule, NEW side
    PROVE  Matches(rules, side) \in Matched
<1>1. \A r \in rules : [rule |-> r, verdict |-> Verdict(r, ReadVersion(r, side))]
                          \in [rule : RawRule, verdict : Outcomes]
  BY VerdictTyped
<1>2. QED
  BY <1>1 DEF Matches, Matched

LEMMA ResultTyped ==
    ASSUME NEW rules, rules \subseteq RawRule, NEW hops
    PROVE  ResultOf(rules, hops) \in [own : Matched, target : Matched]
<1>1. {} \in Matched
  BY DEF Matched
<1>2. QED
  BY <1>1, MatchesTyped DEF ResultOf

\* What may have the flaw and shows itself is reported.
LEMMA ResultSilent ==
    ASSUME runs \in [Hosts -> Builds], NEW rules, rules \subseteq RawRule,
           NEW hops \in Seq(Hosts), hops # << >>, NEW r \in rules,
           Seen(r, OwnSide(rules, hops)),
           \A i \in 1..Len(OwnSide(rules, hops).hops) :
               MayHaveFlaw(r, runs[OwnSide(rules, hops).hops[i]])
    PROVE  [side |-> "own", rule |-> r] \in Findings(ResultOf(rules, hops))
<1> DEFINE side == OwnSide(rules, hops)
           v == ReadVersion(r, side)
           e == [rule |-> r, verdict |-> Verdict(r, v)]
<1>1. side \in Sides /\ side.hops # << >> /\ r \in RawRule
  BY OwnSideTyped
<1>2. TrueOfSide(v, side)
  BY <1>1, ReadTrue
<1>3. e \in ResultOf(rules, hops).own
  BY DEF ResultOf, Matches
<1> HIDE DEF side, v
<1>4. Verdict(r, v) \in {"vulnerable", "cannot_tell"}
  <2>1. CASE v = NoVersion
    BY <2>1 DEF Verdict
  <2>2. CASE v # NoVersion
    <3>1. PICK i \in 1..Len(side.hops) : TrueOf(v, runs[side.hops[i]])
      BY <1>2, <2>2 DEF TrueOfSide
    <3>2. side.hops[i] \in Hosts
      BY <1>1, ElementOfSeq DEF Sides
    <3>3. runs[side.hops[i]] \in Build
      BY <3>2, BuildOf
    <3>4. MayHaveFlaw(r, runs[side.hops[i]])
      BY DEF side
    <3>5. QED
      BY <1>1, <3>1, <3>3, <3>4, VerdictSilent
  <2>3. QED
    BY <2>1, <2>2
<1>5. QED
  BY <1>3, <1>4 DEF Findings

(***************************************************************************)
(* The check, step by step.                                                *)
(***************************************************************************)
CheckInv ==
    /\ AdvisoryTypeOK
    /\ check.at = "measured" =>
           /\ check.hops # << >>
           /\ \A rules, hops : rules = check.rules /\ hops = check.hops
                                 => check.result = ResultOf(rules, hops)

LEMMA NoCheckTyped == NoCheck \in Checks /\ NoCheck.at = "idle"
<1>1. Candidates \in Seq(Hosts) /\ Len(Candidates) \in Nat /\ Len(Candidates) > 0
  BY AdvisoryConstants, LenProperties
<1>2. 1 \in 1..Len(Candidates) /\ Candidates[1] \in Hosts
  BY <1>1, ElementOfSeq
<1>3. << >> \in Seq(Hosts)
  BY EmptySeq
<1>4. [own |-> {}, target |-> {}] \in [own : Matched, target : Matched]
  BY DEF Matched
<1>5. [h \in Hosts |-> "unasked"] \in [Hosts -> Addresses \cup {"unasked"}]
  OBVIOUS
<1>6. QED
  BY <1>2, <1>3, <1>4, <1>5 DEF NoCheck, Checks

LEMMA AdvisoryInitInv == AdvisoryInit => CheckInv
<1> SUFFICES ASSUME AdvisoryInit PROVE CheckInv
  OBVIOUS
<1>1. check \in Checks /\ check.at = "idle"
  BY NoCheckTyped DEF AdvisoryInit
<1>2. changes \in Seq([ids : SUBSET RuleIds, gone : BOOLEAN])
  BY EmptySeq DEF AdvisoryInit
<1>3. admin \in [Admins -> Requests]
  <2>1. (CHOOSE i \in RuleIds : TRUE) \in RuleIds
    BY AdvisoryConstants
  <2>2. QED
    BY <2>1 DEF AdvisoryInit, Requests
<1>4. QED
  BY <1>1, <1>2, <1>3 DEF AdvisoryInit, CheckInv, AdvisoryTypeOK

LEMMA NextCandidateTyped ==
    ASSUME NEW c \in Checks
    PROVE  /\ NextCandidate(c) \in Checks
           /\ NextCandidate(c).at # "measured"
<1> DEFINE n == c.n + 1
           u == [c EXCEPT !.at = "candidate", !.n = n]
           e == Ending(c)
           w == [c EXCEPT !.at = e]
<1>1. c.n \in 1..Len(Candidates) /\ Len(Candidates) \in Nat
  BY AdvisoryConstants, LenProperties DEF Checks
<1>2. e \in Ended /\ e # "measured"
  BY DEF Ending, Ended
<1>3. NextCandidate(c) = IF c.n < Len(Candidates) THEN u ELSE w
  BY DEF NextCandidate
<1>4. (c.n < Len(Candidates)) => n \in 1..Len(Candidates)
  BY <1>1
<1> HIDE DEF n, e
<1>5. (c.n < Len(Candidates)) => (u \in Checks /\ u.at = "candidate")
  BY <1>4 DEF Checks
<1>6. w \in Checks /\ w.at = e
  BY <1>2 DEF Checks
<1> HIDE DEF u, w
<1>7. QED
  BY <1>2, <1>3, <1>5, <1>6
\* What a side shows depends on what runs, which no step changes.
LEMMA ResultSame ==
    ASSUME runs' = runs
    PROVE  \A rules, hops : ResultOf(rules, hops)' = ResultOf(rules, hops)
<1>1. \A h, kind : Shown(h, kind)' = Shown(h, kind)
  BY DEF Shown
<1>2. \A side : InHeaders(side)' = InHeaders(side)
  <2> TAKE side
  <2> DEFINE with == {i \in 1..Len(side.hops) : runs[side.hops[i]].header \in Numbered}
  <2>1. with' = with
    OBVIOUS
  <2>2. QED
    BY <1>1, <2>1, Zenon DEF InHeaders
<1>3. \A side : InGenerator(side)' = InGenerator(side)
  BY <1>1, Zenon DEF InGenerator
<1>4. \A place, side : InPlace(place, side)' = InPlace(place, side)
  BY <1>2, <1>3, Zenon DEF InPlace
<1>5. \A side : InFiles(side)' = InFiles(side)
  BY <1>1, Zenon DEF InFiles
<1>6. \A rule, side : ReadVersion(rule, side)' = ReadVersion(rule, side)
  <2> TAKE rule, side
  <2> DEFINE with == {i \in 1..Len(rule.sources) : InPlace(rule.sources[i], side) # NoVersion}
  <2>1. with' = with
    BY <1>4, Zenon
  <2>2. QED
    BY <1>4, <1>5, <2>1, Zenon DEF ReadVersion
<1>7. \A rule, side : Seen(rule, side)' <=> Seen(rule, side)
  BY Zenon DEF Seen
<1>8. \A rules, side : Matches(rules, side)' = Matches(rules, side)
  BY <1>6, <1>7, Zenon DEF Matches
<1>9. QED
  BY <1>8, Zenon DEF ResultOf
Entries == [ids : SUBSET RuleIds, gone : BOOLEAN]
Row == RuleRows \cup {NoRule}

\* A step of the check leaves the rules alone, a request what is checked.
LEMMA CheckKept ==
    ASSUME CheckInv, UNCHANGED <<runs, check>>
    PROVE  /\ runs' \in [Hosts -> Builds] /\ check' \in Checks
           /\ check'.at = "measured" =>
                  /\ check'.hops # << >>
                  /\ \A rules, hops : rules = check'.rules /\ hops = check'.hops
                                        => check'.result = ResultOf(rules, hops)'
<1>1. \A rules, hops : ResultOf(rules, hops)' = ResultOf(rules, hops)
  BY ResultSame
<1>2. QED
  BY <1>1 DEF CheckInv, AdvisoryTypeOK

LEMMA CommitsTyped ==
    ASSUME CheckInv, NEW a \in Admins, NEW next \in {"reread", "record"}, NEW id \in RuleIds,
           NEW ids \in SUBSET RuleIds, NEW new \in [RuleIds -> Row], NEW gone \in BOOLEAN,
           Commits(a, next, id, ids, new, gone)
    PROVE  CheckInv'
<1> USE DEF Commits
<1> DEFINE e == [ids |-> ids, gone |-> gone]
           r == [at |-> next, id |-> id, change |-> Len(changes) + 1]
<1>1. changes \in Seq(Entries)
  BY DEF CheckInv, AdvisoryTypeOK, Entries
<1>2. e \in Entries /\ r \in Requests
  <2>1. Len(changes) + 1 \in Nat
    BY <1>1, LenProperties
  <2>2. QED
    BY <2>1 DEF Entries, Requests
<1>3. changes' = Append(changes, e) /\ admin' = [admin EXCEPT ![a] = r] /\ rows' = new
  OBVIOUS
<1> HIDE DEF e, r
<1>4. changes' \in Seq(Entries)
  BY <1>1, <1>2, <1>3, AppendProperties
<1>5. admin' \in [Admins -> Requests]
  BY <1>2, <1>3 DEF CheckInv, AdvisoryTypeOK
<1>6. rows' \in [RuleIds -> RuleRows \cup {NoRule}]
  BY <1>3 DEF Row
<1>7. QED
  BY <1>4, <1>5, <1>6, CheckKept DEF CheckInv, AdvisoryTypeOK, Entries

LEMMA FileTyped ==
    ASSUME NEW file \in Files
    PROVE  /\ DOMAIN file \subseteq RuleIds /\ DOMAIN file # {}
           /\ \A i \in DOMAIN file : file[i] \in RuleRows
<1>1. PICK ids \in (SUBSET RuleIds) \ {{}} : file \in [ids -> [rule : RawRules, enabled : BOOLEAN]]
  BY DEF Files
<1>2. RawRules \subseteq RawRule
  BY AdvisoryConstants
<1>3. QED
  BY <1>1, <1>2 DEF RuleRows

\* What a change may be: a rule that goes is what the change is about, and a rule
\* that is read again is there.
Proper(next, id, ids, new, gone) ==
    /\ next \in {"reread", "record"} /\ id \in RuleIds /\ ids \in SUBSET RuleIds
    /\ new \in [RuleIds -> Row] /\ gone \in BOOLEAN
    /\ \A i \in RuleIds : new[i] = NoRule => (rows[i] = NoRule \/ (gone /\ ids = {i}))
    /\ next = "reread" => (ids = {id} /\ new[id] # NoRule)
Committed(a) ==
    \E next, id, ids, new, gone :
        Proper(next, id, ids, new, gone) /\ Commits(a, next, id, ids, new, gone)

LEMMA HandlerIs ==
    ASSUME CheckInv, NEW a \in Admins, Handler(a)
    PROVE  Committed(a) \/ Reread(a) \/ Record(a) \/ DatabaseFails(a)
<1>1. /\ rows \in [RuleIds -> Row] /\ changes \in Seq(Entries) /\ logged \subseteq Nat /\ cut \subseteq Nat
      /\ unwritten \subseteq Nat
      /\ admin \in [Admins -> Requests]
  BY DEF CheckInv, AdvisoryTypeOK, Row, Entries
<1>2. RawRules \subseteq RawRule /\ NoRule \notin RuleRows
  BY AdvisoryConstants DEF RuleRows
<1>3. ASSUME NEW id \in RuleIds, NEW raw \in RawRules, Create(a, id, raw) PROVE Committed(a)
  <2> DEFINE row == [rule |-> raw, enabled |-> TRUE]
             new == [rows EXCEPT ![id] = row]
  <2>1. row \in RuleRows
    BY <1>2 DEF RuleRows
  <2>2. Commits(a, "reread", id, {id}, new, FALSE)
    BY <1>3 DEF Create
  <2> HIDE DEF row
  <2>3. row # NoRule
    BY <1>2, <2>1
  <2>4. Proper("reread", id, {id}, new, FALSE)
    BY <1>1, <2>1, <2>3 DEF Proper, Row
  <2> HIDE DEF new
  <2>5. QED
    BY <2>2, <2>4 DEF Committed
<1>4. ASSUME NEW id \in RuleIds, NEW raw \in RawRules, Replace(a, id, raw) PROVE Committed(a)
  <2> DEFINE was == rows[id]
             row == [was EXCEPT !.rule = raw]
             new == [rows EXCEPT ![id] = row]
  <2>1. was \in RuleRows
    BY <1>1, <1>4 DEF Replace, StoredIds, Row
  <2>2. [rows EXCEPT ![id].rule = raw] = new
    OBVIOUS
  <2>3. Commits(a, "reread", id, {id}, new, FALSE)
    BY <1>4, <2>2 DEF Replace
  <2> HIDE DEF was
  <2>4. row \in RuleRows
    BY <1>2, <2>1 DEF RuleRows
  <2> HIDE DEF row
  <2>5. row # NoRule
    BY <1>2, <2>4
  <2>6. Proper("reread", id, {id}, new, FALSE)
    BY <1>1, <2>4, <2>5 DEF Proper, Row
  <2> HIDE DEF new
  <2>7. QED
    BY <2>3, <2>6 DEF Committed
<1>5. ASSUME NEW id \in RuleIds, NEW on \in BOOLEAN, SetEnabled(a, id, on) PROVE Committed(a)
  <2> DEFINE was == rows[id]
             row == [was EXCEPT !.enabled = on]
             new == [rows EXCEPT ![id] = row]
  <2>1. was \in RuleRows
    BY <1>1, <1>5 DEF SetEnabled, StoredIds, Row
  <2>2. [rows EXCEPT ![id].enabled = on] = new
    OBVIOUS
  <2>3. Commits(a, "reread", id, {id}, new, FALSE)
    BY <1>5, <2>2 DEF SetEnabled
  <2> HIDE DEF was
  <2>4. row \in RuleRows
    BY <2>1 DEF RuleRows
  <2> HIDE DEF row
  <2>5. row # NoRule
    BY <1>2, <2>4
  <2>6. Proper("reread", id, {id}, new, FALSE)
    BY <1>1, <2>4, <2>5 DEF Proper, Row
  <2> HIDE DEF new
  <2>7. QED
    BY <2>3, <2>6 DEF Committed
<1>6. ASSUME NEW id \in RuleIds, Delete(a, id) PROVE Committed(a)
  <2> DEFINE new == [rows EXCEPT ![id] = NoRule]
  <2>1. Proper("record", id, {id}, new, TRUE)
    BY <1>1 DEF Proper, Row
  <2>2. Commits(a, "record", id, {id}, new, TRUE)
    BY <1>6 DEF Delete
  <2> HIDE DEF new
  <2>3. QED
    BY <2>1, <2>2 DEF Committed
<1>7. ASSUME NEW file \in Files, NEW replace \in BOOLEAN, Import(a, file, replace) PROVE Committed(a)
  <2> DEFINE ids == DOMAIN file
             written == IF replace THEN ids ELSE ids \ StoredIds
             new == [i \in RuleIds |-> IF i \in written THEN file[i] ELSE rows[i]]
             some == CHOOSE i \in ids : TRUE
  <2>1. written \in SUBSET RuleIds /\ some \in RuleIds /\ \A i \in written : file[i] \in RuleRows
    BY FileTyped
  <2>2. Commits(a, "record", some, written, new, FALSE)
    BY <1>7 DEF Import
  <2> HIDE DEF written, some
  <2>3. \A i \in written : file[i] # NoRule
    BY <1>2, <2>1
  <2>4. Proper("record", some, written, new, FALSE)
    BY <1>1, <2>1, <2>3 DEF Proper, Row
  <2> HIDE DEF new
  <2>5. QED
    BY <2>2, <2>4 DEF Committed
<1>8. QED
  BY <1>3, <1>4, <1>5, <1>6, <1>7, Zenon DEF Handler

LEMMA HandlerTyped ==
    ASSUME CheckInv, NEW a \in Admins, Handler(a)
    PROVE  CheckInv'
<1>1. /\ rows \in [RuleIds -> Row] /\ changes \in Seq(Entries) /\ logged \subseteq Nat /\ cut \subseteq Nat
      /\ unwritten \subseteq Nat
      /\ admin \in [Admins -> Requests]
  BY DEF CheckInv, AdvisoryTypeOK, Row, Entries
<1>2. CASE Committed(a)
  BY <1>2, CommitsTyped DEF Committed, Proper
<1>3. CASE Reread(a) \/ Record(a) \/ DatabaseFails(a)
  <2> DEFINE was == admin[a]
  <2>1. was \in Requests
    BY <1>1
  <2>2. \A s \in {"idle", "reread", "record"} : [was EXCEPT !.at = s] \in Requests
    <3> HIDE DEF was
    <3>1. QED
      BY <2>1 DEF Requests
  <2>3. PICK s \in {"idle", "record"} : admin' = [admin EXCEPT ![a] = [was EXCEPT !.at = s]]
    <3>1. CASE Reread(a)
      BY <3>1 DEF Reread
    <3>2. CASE Record(a)
      BY <3>2 DEF Record
    <3>3. CASE DatabaseFails(a)
      BY <3>3 DEF DatabaseFails
    <3>4. QED
      BY <1>3, <3>1, <3>2, <3>3
  <2> DEFINE row == [was EXCEPT !.at = s]
  <2>4. row \in Requests
    BY <2>2
  <2>5. was.change \in Nat
    <3> HIDE DEF was
    <3>1. QED
      BY <2>1 DEF Requests
  <2>6. /\ logged' \subseteq Nat /\ unwritten' \subseteq Nat
        /\ UNCHANGED <<rows, changes, cut, runs, check>>
    BY <1>1, <1>3, <2>5 DEF Reread, Record, DatabaseFails
  <2> HIDE DEF row
  <2>7. admin' \in [Admins -> Requests]
    BY <1>1, <2>3, <2>4 DEF row
  <2>8. QED
    BY <1>1, <2>6, <2>7, CheckKept DEF CheckInv, AdvisoryTypeOK, Row, Entries
<1>4. QED
  BY <1>2, <1>3, HandlerIs

LEMMA CheckStepTyped ==
    ASSUME CheckInv, CheckStep
    PROVE  CheckInv'
<1>1. /\ rows \in [RuleIds -> Row] /\ changes \in Seq(Entries) /\ logged \subseteq Nat /\ cut \subseteq Nat
      /\ unwritten \subseteq Nat
      /\ admin \in [Admins -> Requests] /\ runs \in [Hosts -> Builds] /\ check \in Checks
  BY DEF CheckInv, AdvisoryTypeOK, Row, Entries
<1>2. /\ check.n \in 1..Len(Candidates) /\ check.here \in Hosts /\ check.hops \in Seq(Hosts)
      /\ check.rules \subseteq RawRule /\ Candidates \in Seq(Hosts)
  BY <1>1, AdvisoryConstants DEF Checks
<1>3. UNCHANGED <<rows, changes, logged, cut, unwritten, admin, runs>>
  BY DEF CheckStep, StartCheck, GetFails, LastAnswer, LookUp, Follow, ruleVars
<1>4. ASSUME check' \in Checks, check'.at # "measured" PROVE CheckInv'
  BY <1>1, <1>3, <1>4 DEF CheckInv, AdvisoryTypeOK, Row, Entries
<1>5. CASE StartCheck
  <2> DEFINE in == RulesInForce
             c == [NoCheck EXCEPT !.at = "candidate", !.rules = in]
  <2>1. in \subseteq RawRule
    <3>1. \A i \in StoredIds : rows[i].rule \in RawRule
      BY <1>1 DEF StoredIds, Row, RuleRows
    <3>2. QED
      BY <3>1, AdvisoryConstants DEF RulesInForce
  <2>2. check' = c
    BY <1>5 DEF StartCheck
  <2> HIDE DEF in
  <2>3. c \in Checks /\ c.at = "candidate"
    BY <2>1, NoCheckTyped DEF Checks
  <2> HIDE DEF c
  <2>4. QED
    BY <1>4, <2>2, <2>3
<1>6. CASE GetFails
  <2> DEFINE c == [check EXCEPT !.errors = TRUE]
  <2>1. c \in Checks
    BY <1>1 DEF Checks
  <2>2. check' = NextCandidate(c)
    BY <1>6 DEF GetFails
  <2> HIDE DEF c
  <2>3. QED
    BY <1>4, <2>1, <2>2, NextCandidateTyped
<1>7. ASSUME NEW answer \in Addresses, LookUp(answer) PROVE CheckInv'
  <2> DEFINE host == Candidates[check.n]
             found == IF check.known[host] = "unasked" THEN answer ELSE check.known[host]
             known == [check.known EXCEPT ![host] = found]
             c == [check EXCEPT !.known = known]
             empty == << >>
             g == [c EXCEPT !.at = "get", !.here = host, !.hops = empty]
  <2>1. host \in Hosts
    BY <1>2, ElementOfSeq
  <2>2. check.known \in [Hosts -> Addresses \cup {"unasked"}]
    BY <1>1 DEF Checks
  <2>3. found \in Addresses
    BY <2>1, <2>2
  <2>4. check' = IF found = "public" THEN g ELSE NextCandidate(c)
    BY <1>7 DEF LookUp
  <2>5. empty \in Seq(Hosts)
    BY EmptySeq
  <2> HIDE DEF host, found, empty
  <2>6. known \in [Hosts -> Addresses \cup {"unasked"}]
    BY <2>1, <2>2, <2>3
  <2> HIDE DEF known
  <2>7. c \in Checks
    BY <1>1, <2>6 DEF Checks
  <2> HIDE DEF c
  <2>8. g \in Checks /\ g.at = "get"
    BY <2>1, <2>5, <2>7 DEF Checks
  <2> HIDE DEF g
  <2>9. QED
    BY <1>4, <2>4, <2>7, <2>8, NextCandidateTyped
<1>8. ASSUME NEW next \in Hosts, Follow(next) PROVE CheckInv'
  <2> DEFINE hops == Append(check.hops, check.here)
             c == [check EXCEPT !.hops = hops, !.here = next]
  <2>1. hops \in Seq(Hosts)
    BY <1>2, AppendProperties
  <2>2. check' = c /\ check.at = "get"
    BY <1>8 DEF Follow
  <2> HIDE DEF hops
  <2>3. c \in Checks /\ c.at = check.at
    BY <1>1, <2>1 DEF Checks
  <2> HIDE DEF c
  <2>4. QED
    BY <1>4, <2>2, <2>3
<1>9. CASE LastAnswer
  <2> DEFINE hops == Append(check.hops, check.here)
             rules == check.rules
             result == ResultOf(rules, hops)
             c == [check EXCEPT !.at = "measured", !.hops = hops, !.result = result]
  <2>1. hops \in Seq(Hosts) /\ hops # << >>
    BY <1>2, AppendProperties, EmptySeq
  <2>2. result \in [own : Matched, target : Matched]
    BY <1>2, ResultTyped
  <2>3. check' = c
    BY <1>9 DEF LastAnswer
  <2>4. \A r, h : ResultOf(r, h)' = ResultOf(r, h)
    BY <1>3, ResultSame
  <2>5. \A r, h : (r = rules /\ h = hops) => (ResultOf(r, h) = result)
    OBVIOUS
  <2> HIDE DEF hops, result, rules
  <2>6. c \in Checks /\ c.hops = hops /\ c.result = result /\ c.rules = rules
    BY <1>1, <2>1, <2>2 DEF Checks, Ended, rules
  <2> HIDE DEF c
  <2>7. \A r, h : (r = check'.rules /\ h = check'.hops) => (check'.result = ResultOf(r, h)')
    BY <2>3, <2>4, <2>5, <2>6
  <2>8. QED
    BY <1>1, <1>3, <2>1, <2>3, <2>6, <2>7 DEF CheckInv, AdvisoryTypeOK, Row, Entries
<1>10. QED
  BY <1>5, <1>6, <1>7, <1>8, <1>9 DEF CheckStep

LEMMA RestartTyped ==
    ASSUME CheckInv, RestartAdvisories
    PROVE  CheckInv'
<1>1. admin \in [Admins -> Requests] /\ cut \subseteq Nat
  BY DEF CheckInv, AdvisoryTypeOK
<1>2. \A a \in Admins : admin[a].change \in Nat /\ [admin[a] EXCEPT !.at = "idle"] \in Requests
  BY <1>1 DEF Requests
<1>3. admin' \in [Admins -> Requests] /\ cut' \subseteq Nat
  BY <1>1, <1>2 DEF RestartAdvisories
<1>4. check' \in Checks /\ check'.at = "idle" /\ UNCHANGED <<rows, changes, logged, unwritten, runs>>
  BY NoCheckTyped DEF RestartAdvisories
<1>5. QED
  BY <1>3, <1>4 DEF CheckInv, AdvisoryTypeOK

LEMMA AdvisoryNextInv == CheckInv /\ [AdvisoryNext]_advisoryVars => CheckInv'
<1> SUFFICES ASSUME CheckInv, [AdvisoryNext]_advisoryVars PROVE CheckInv'
  OBVIOUS
<1>1. CASE AdvisoryNext
  BY <1>1, HandlerTyped, CheckStepTyped, RestartTyped DEF AdvisoryNext
<1>2. CASE UNCHANGED advisoryVars
  BY <1>2, CheckKept DEF CheckInv, AdvisoryTypeOK, advisoryVars
<1>3. QED
  BY <1>1, <1>2

LEMMA CheckInvSilent == CheckInv => SilentIsClean
<1> SUFFICES ASSUME CheckInv, check.at = "measured"
             PROVE  SilentIsClean
  BY DEF SilentIsClean
<1> DEFINE side == OwnSide(check.rules, check.hops)
<1>1. /\ runs \in [Hosts -> Builds] /\ check.rules \subseteq RawRule /\ check.hops \in Seq(Hosts)
      /\ check.hops # << >> /\ check.result = ResultOf(check.rules, check.hops)
  BY DEF CheckInv, AdvisoryTypeOK, Checks
<1>2. ASSUME NEW r \in check.rules, Seen(r, side),
             \A i \in 1..Len(side.hops) : MayHaveFlaw(r, runs[side.hops[i]])
      PROVE  [side |-> "own", rule |-> r] \in Findings(check.result)
  BY <1>1, <1>2, ResultSilent
<1>3. QED
  BY <1>2 DEF SilentIsClean

\* The rows, the record of changes, the requests and the check keep their types:
\* whatever is imported, edited and removed, by any number of administrators.
THEOREM AdvisoryTypes == AdvisorySpec => []AdvisoryTypeOK
<1>1. CheckInv => AdvisoryTypeOK
  BY DEF CheckInv
<1>2. QED
  BY <1>1, AdvisoryInitInv, AdvisoryNextInv, PTL DEF AdvisorySpec

\* A flawed server that shows its product is never silent, for every rule that
\* compile_rule may let through, every release and every way to show it.
THEOREM NeverSilent == AdvisorySpec => []SilentIsClean
BY CheckInvSilent, AdvisoryInitInv, AdvisoryNextInv, PTL DEF AdvisorySpec
(***************************************************************************)
(* The audit log.                                                          *)
(***************************************************************************)
\* A rule a change was about has been removed since.
RemovedSince(n) == \E m \in (n + 1)..Len(changes) : changes[m].gone /\ changes[m].ids = changes[n].ids

LogInv ==
    /\ ChangesAreLogged
    /\ \A a \in Admins : admin[a].at # "idle" => admin[a].change \in Changes
    /\ \A a \in Admins : \A n, i :
           (admin[a].at = "reread" /\ n = admin[a].change /\ i = admin[a].id)
               => (changes[n].ids = {i} /\ (rows[i] # NoRule \/ RemovedSince(n)))

LEMMA AppendedChange ==
    ASSUME NEW a \in Admins, NEW next, NEW id, NEW ids, NEW new, NEW gone, CheckInv,
           Proper(next, id, ids, new, gone), Commits(a, next, id, ids, new, gone)
    PROVE  /\ Len(changes) \in Nat /\ Len(changes') = Len(changes) + 1
           /\ \A n \in Changes : changes'[n] = changes[n]
           /\ changes'[Len(changes) + 1].ids = ids /\ changes'[Len(changes) + 1].gone = gone
<1> DEFINE e == [ids |-> ids, gone |-> gone]
<1>1. changes \in Seq(Entries) /\ e \in Entries
  BY DEF CheckInv, AdvisoryTypeOK, Entries, Proper
<1>2. changes' = Append(changes, e) /\ e.ids = ids /\ e.gone = gone
  BY DEF Commits
<1> HIDE DEF e
<1>3. QED
  BY <1>1, <1>2, AppendProperties, LenProperties DEF Changes

LEMMA CommittedLogged ==
    ASSUME CheckInv, LogInv, NEW a \in Admins, Committed(a)
    PROVE  LogInv'
<1>1. PICK next, id, ids, new, gone :
          Proper(next, id, ids, new, gone) /\ Commits(a, next, id, ids, new, gone)
  BY DEF Committed
<1> DEFINE k == Len(changes) + 1
           r == [at |-> next, id |-> id, change |-> k]
<1>2. /\ Len(changes) \in Nat /\ Len(changes') = k
      /\ \A n \in Changes : changes'[n] = changes[n]
      /\ changes'[k].ids = ids /\ changes'[k].gone = gone
  BY <1>1, AppendedChange
<1>3. /\ admin' = [admin EXCEPT ![a] = r] /\ admin[a].at = "idle" /\ rows' = new
      /\ UNCHANGED <<logged, cut, unwritten>>
  BY <1>1 DEF Commits
<1>4. admin \in [Admins -> Requests]
  BY DEF CheckInv, AdvisoryTypeOK
<1>5. r.at = next /\ r.id = id /\ r.change = k
  OBVIOUS
<1>6. next \in {"reread", "record"}
  BY <1>1 DEF Proper
<1> HIDE DEF k, r
<1>7. k = Len(changes) + 1
  BY DEF k
<1>8. admin'[a] = r /\ \A b \in Admins \ {a} : admin'[b] = admin[b]
  BY <1>3, <1>4
<1>9. ASSUME NEW n \in Changes, RemovedSince(n) PROVE RemovedSince(n)'
  <2>1. PICK m \in (n + 1)..Len(changes) : changes[m].gone /\ changes[m].ids = changes[n].ids
    BY <1>9 DEF RemovedSince
  <2>2. n \in Nat /\ m \in Changes /\ m \in (n + 1)..k
    BY <1>2, <1>7, <2>1 DEF Changes
  <2>3. changes'[m] = changes[m] /\ changes'[n] = changes[n]
    BY <1>2, <2>2
  <2>4. QED
    BY <1>2, <2>1, <2>2, <2>3 DEF RemovedSince
<1>10. ChangesAreLogged'
  <2>1. SUFFICES ASSUME NEW n \in 1..k
                 PROVE  \/ n \in logged' \cup cut' \cup unwritten'
                        \/ \E b \in Admins : admin'[b].at # "idle" /\ admin'[b].change = n
                        \/ RemovedSince(n)'
    BY <1>2 DEF ChangesAreLogged, RemovedSince, Changes
  <2>2. CASE n = k
    BY <1>5, <1>6, <1>8, <2>2
  <2>3. CASE n # k
    <3>1. n \in Changes
      BY <1>2, <1>7, <2>3 DEF Changes
    <3>2. \/ n \in logged \cup cut \cup unwritten
          \/ \E b \in Admins : admin[b].at # "idle" /\ admin[b].change = n
          \/ RemovedSince(n)
      BY <3>1 DEF LogInv, ChangesAreLogged, RemovedSince
    <3>3. QED
      BY <1>3, <1>8, <1>9, <3>1, <3>2
  <2>4. QED
    BY <2>2, <2>3
<1>11. \A b \in Admins : admin'[b].at # "idle" => admin'[b].change \in Changes'
  <2>1. Changes \subseteq Changes' /\ k \in Changes'
    BY <1>2, <1>7 DEF Changes
  <2>2. QED
    BY <1>5, <1>8, <2>1 DEF LogInv
<1>12. ASSUME NEW b \in Admins, NEW n, NEW i,
              admin'[b].at = "reread", n = admin'[b].change, i = admin'[b].id
       PROVE  changes'[n].ids = {i} /\ (rows'[i] # NoRule \/ RemovedSince(n)')
  <2>1. CASE b = a
    BY <1>1, <1>2, <1>3, <1>5, <1>8, <1>12, <2>1 DEF Proper
  <2>2. CASE b # a
    <3>1. admin[b].at = "reread" /\ i = admin[b].id /\ n = admin[b].change /\ i \in RuleIds
      BY <1>4, <1>8, <1>12, <2>2 DEF Requests
    <3>2. n \in Changes /\ changes[n].ids = {i} /\ (rows[i] # NoRule \/ RemovedSince(n))
      BY <3>1 DEF LogInv
    <3>3. changes'[n].ids = {i}
      BY <1>2, <3>2
    <3>4. CASE RemovedSince(n)
      BY <1>9, <3>2, <3>3, <3>4
    <3>5. CASE rows[i] # NoRule /\ rows'[i] = NoRule
      <4>1. gone /\ ids = {i}
        BY <1>1, <1>3, <3>1, <3>5 DEF Proper
      <4>2. n \in Nat /\ k \in (n + 1)..k
        BY <1>2, <1>7, <3>2 DEF Changes
      <4>3. QED
        BY <1>2, <3>3, <4>1, <4>2 DEF RemovedSince
    <3>6. QED
      BY <3>2, <3>3, <3>4, <3>5
  <2>3. QED
    BY <2>1, <2>2
<1>13. QED
  BY <1>10, <1>11, <1>12 DEF LogInv
LEMMA AnsweredLogged ==
    ASSUME CheckInv, LogInv, NEW a \in Admins,
           Reread(a) \/ Record(a) \/ DatabaseFails(a)
    PROVE  LogInv'
<1> DEFINE was == admin[a]
<1>1. PICK s \in {"idle", "record"} :
          /\ admin' = [admin EXCEPT ![a] = [was EXCEPT !.at = s]]
          /\ was.at # "idle"
          /\ s = "idle" => \/ was.change \in logged' \cup unwritten'
                           \/ was.at = "reread" /\ rows[was.id] = NoRule
          /\ logged \subseteq logged' /\ unwritten \subseteq unwritten'
  <2>1. CASE Reread(a)
    BY <2>1 DEF Reread
  <2>2. CASE Record(a)
    BY <2>2 DEF Record
  <2>3. CASE DatabaseFails(a)
    BY <2>3 DEF DatabaseFails
  <2>4. QED
    BY <2>1, <2>2, <2>3
<1> DEFINE row == [was EXCEPT !.at = s]
<1>2. UNCHANGED <<rows, changes, cut>>
  BY DEF Reread, Record, DatabaseFails
<1>3. admin \in [Admins -> Requests] /\ was \in Requests
  BY DEF CheckInv, AdvisoryTypeOK
<1>4. admin'[a] = row /\ \A b \in Admins \ {a} : admin'[b] = admin[b]
  BY <1>1, <1>3
<1>5. row.at = s /\ row.change = was.change /\ row.id = was.id
  <2> HIDE DEF was
  <2>1. QED
    BY <1>3 DEF Requests
<1> HIDE DEF row
<1>6. s = "idle" => (was.change \in logged' \cup unwritten' \/ RemovedSince(was.change))
  BY <1>1 DEF LogInv
<1> HIDE DEF was
<1>7. \A n : RemovedSince(n) => RemovedSince(n)'
  BY <1>2 DEF RemovedSince
<1>8. Changes' = Changes
  BY <1>2 DEF Changes
<1>9. ChangesAreLogged'
  <2>1. SUFFICES ASSUME NEW n \in Changes
                 PROVE  \/ n \in logged' \cup cut' \cup unwritten'
                        \/ \E b \in Admins : admin'[b].at # "idle" /\ admin'[b].change = n
                        \/ RemovedSince(n)'
    BY <1>8 DEF ChangesAreLogged, RemovedSince
  <2>2. \/ n \in logged \cup cut \cup unwritten
        \/ \E b \in Admins : admin[b].at # "idle" /\ admin[b].change = n
        \/ RemovedSince(n)
    BY DEF LogInv, ChangesAreLogged, RemovedSince
  <2>3. CASE n = was.change
    BY <1>1, <1>4, <1>5, <1>6, <1>7, <2>3
  <2>4. CASE n # was.change
    BY <1>1, <1>2, <1>4, <1>7, <2>2, <2>4 DEF was
  <2>5. QED
    BY <2>3, <2>4
<1>10. \A b \in Admins : admin'[b].at # "idle" => admin'[b].change \in Changes'
  BY <1>1, <1>4, <1>5, <1>8 DEF LogInv, was
<1>11. ASSUME NEW b \in Admins, NEW n, NEW i,
              admin'[b].at = "reread", n = admin'[b].change, i = admin'[b].id
       PROVE  changes'[n].ids = {i} /\ (rows'[i] # NoRule \/ RemovedSince(n)')
  <2>1. b # a /\ admin'[b] = admin[b]
    BY <1>4, <1>5, <1>11
  <2>2. changes[n].ids = {i} /\ (rows[i] # NoRule \/ RemovedSince(n))
    BY <1>11, <2>1 DEF LogInv
  <2>3. QED
    BY <1>2, <1>7, <2>2
<1>12. QED
  BY <1>9, <1>10, <1>11 DEF LogInv

LEMMA RulesKept ==
    ASSUME LogInv, UNCHANGED <<rows, changes, logged, cut, unwritten, admin>>
    PROVE  LogInv'
<1>1. \A n : RemovedSince(n) => RemovedSince(n)'
  BY DEF RemovedSince
<1>2. ChangesAreLogged'
  BY DEF LogInv, ChangesAreLogged, Changes
<1>3. QED
  BY <1>1, <1>2 DEF LogInv, Changes

LEMMA RestartLogged ==
    ASSUME CheckInv, LogInv, RestartAdvisories
    PROVE  LogInv'
<1>1. admin \in [Admins -> Requests] /\ UNCHANGED <<rows, changes, logged, unwritten>>
  BY DEF CheckInv, AdvisoryTypeOK, RestartAdvisories
<1>2. \A a \in Admins : admin'[a].at = "idle"
  <2>1. \A a \in Admins : admin[a] \in Requests
    BY <1>1
  <2>2. \A r \in Requests : [r EXCEPT !.at = "idle"].at = "idle"
    BY DEF Requests
  <2>3. QED
    BY <2>1, <2>2 DEF RestartAdvisories
<1>3. ASSUME NEW a \in Admins, admin[a].at # "idle" PROVE admin[a].change \in cut'
  BY <1>3 DEF RestartAdvisories
<1>4. cut \subseteq cut'
  BY DEF RestartAdvisories
<1>5. ChangesAreLogged'
  <2>1. SUFFICES ASSUME NEW n \in Changes
                 PROVE  n \in logged' \cup cut' \cup unwritten' \/ RemovedSince(n)'
    BY <1>1 DEF ChangesAreLogged, RemovedSince, Changes
  <2>2. \/ n \in logged \cup cut \cup unwritten
        \/ \E b \in Admins : admin[b].at # "idle" /\ admin[b].change = n
        \/ RemovedSince(n)
    BY DEF LogInv, ChangesAreLogged, RemovedSince
  <2>3. RemovedSince(n) => RemovedSince(n)'
    BY <1>1 DEF RemovedSince
  <2>4. QED
    BY <1>1, <1>3, <1>4, <2>2, <2>3
<1>6. QED
  BY <1>2, <1>5 DEF LogInv

LEMMA LogInitInv == AdvisoryInit => LogInv
BY DEF AdvisoryInit, LogInv, ChangesAreLogged, Changes

LEMMA LogNextInv == CheckInv /\ LogInv /\ [AdvisoryNext]_advisoryVars => LogInv'
<1> SUFFICES ASSUME CheckInv, LogInv, [AdvisoryNext]_advisoryVars PROVE LogInv'
  OBVIOUS
<1>1. CASE \E a \in Admins : Handler(a)
  BY <1>1, HandlerIs, CommittedLogged, AnsweredLogged
<1>2. CASE CheckStep \/ UNCHANGED advisoryVars
  <2>1. UNCHANGED <<rows, changes, logged, cut, unwritten, admin>>
    BY <1>2 DEF CheckStep, StartCheck, GetFails, LastAnswer, LookUp, Follow, ruleVars, advisoryVars
  <2>2. QED
    BY <2>1, RulesKept
<1>3. CASE RestartAdvisories
  BY <1>3, RestartLogged
<1>4. QED
  BY <1>1, <1>2, <1>3 DEF AdvisoryNext

\* What of the audit log's promise is kept: a change of the rules is missing in it
\* only when its rule was removed by another before the answer, when the database
\* failed between the commit and the entry, or when the program ended there
\* (advisory_rules.save, audit_log.record).
THEOREM ChangesLogged == AdvisorySpec => []ChangesAreLogged
<1>1. LogInv => ChangesAreLogged
  BY DEF LogInv
<1>2. QED
  BY <1>1, AdvisoryInitInv, LogInitInv, AdvisoryNextInv, LogNextInv, PTL DEF AdvisorySpec
=============================================================================
