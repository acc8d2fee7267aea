--------------------------- MODULE ScanJobsProof ---------------------------
(***************************************************************************)
(* Proofs about ScanJobs, for every number of jobs, domains and request    *)
(* threads and every pair of time limits.                                  *)
(***************************************************************************)
EXTENDS ScanJobs, FiniteSetTheorems, TLAPS

\* The percentage of progress_cb is a percentage, and below 100.
LEMMA PercentRange ==
    ASSUME NEW done \in 0..Total
    PROVE  Percent(done) \in 0..99
<1>1. CASE Total = 0
  BY <1>1 DEF Percent
<1>2. CASE Total # 0
  <2>1. Total \in Nat \ {0} /\ 100 * done \in Nat
    BY <1>2, ScanJobsConstants
  <2>2. (100 * done) \div Total \in Nat /\ (100 * done) % Total \in Nat
    BY <2>1
  <2>3. RoundedPercent(done) \in Nat
    BY <2>1, <2>2 DEF RoundedPercent
  <2>4. QED
    BY <1>2, <2>3 DEF Percent
<1>3. QED
  BY <1>1, <1>2

(***************************************************************************)
(* Records stay records when a field takes one of its values.              *)
(***************************************************************************)
LEMMA FreshTyped ==
    ASSUME NEW d \in Domains \cup {None}
    PROVE  Fresh(d) \in JobRecord
BY ScanJobsConstants DEF Fresh, JobRecord, Statuses, Errors

LEMMA SetStatus ==
    ASSUME NEW r \in JobRecord, NEW v \in Statuses
    PROVE  [r EXCEPT !.status = v] \in JobRecord
BY DEF JobRecord

LEMMA SetError ==
    ASSUME NEW r \in JobRecord, NEW v \in Errors
    PROVE  [r EXCEPT !.error = v] \in JobRecord
BY DEF JobRecord

LEMMA SetDone ==
    ASSUME NEW r \in JobRecord, NEW v \in 0..Total
    PROVE  [r EXCEPT !.done = v] \in JobRecord
BY DEF JobRecord

LEMMA SetPercent ==
    ASSUME NEW r \in JobRecord, NEW v \in 0..100
    PROVE  [r EXCEPT !.percent = v] \in JobRecord
BY DEF JobRecord

LEMMA SetResult ==
    ASSUME NEW r \in JobRecord
    PROVE  [r EXCEPT !.result = TRUE] \in JobRecord
BY DEF JobRecord

LEMMA SetStartAge ==
    ASSUME NEW r \in JobRecord, NEW v \in 0..MaxRuntime + 1
    PROVE  [r EXCEPT !.startAge = v] \in JobRecord
BY DEF JobRecord

LEMMA SetEndAge ==
    ASSUME NEW r \in JobRecord, NEW v \in 0..Retention + 1
    PROVE  [r EXCEPT !.endAge = v] \in JobRecord
BY DEF JobRecord

LEMMA BlankTyped == Blank \in JobRecord
BY FreshTyped, SetStatus DEF Blank, Statuses

LEMMA ForgetTyped ==
    ASSUME NEW f \in [Jobs -> JobRecord], NEW held
    PROVE  Forget(f, held) \in [Jobs -> JobRecord]
BY BlankTyped DEF Forget

LEMMA AbandonTyped ==
    ASSUME NEW r \in JobRecord
    PROVE  Abandon(r) \in JobRecord
<1> DEFINE a == [r EXCEPT !.status = "error"]
           b == [a EXCEPT !.error = "abandoned"]
           c == [b EXCEPT !.endAge = 0]
<1> HIDE DEF a, b, c
<1>1. a \in JobRecord
  BY SetStatus DEF Statuses, a
<1>2. b \in JobRecord
  BY <1>1, SetError DEF Errors, b
<1>3. c \in JobRecord
  BY <1>2, SetEndAge, ScanJobsConstants DEF c
<1>4. QED
  BY <1>3 DEF Abandon, a, b, c

LEMMA StoredTyped ==
    ASSUME NEW r \in JobRecord
    PROVE  Stored(r) \in JobRecord
<1> DEFINE a == [r EXCEPT !.result = TRUE]
           b == [a EXCEPT !.status = "done"]
           c == [b EXCEPT !.percent = 100]
           e == [c EXCEPT !.endAge = 0]
<1> HIDE DEF a, b, c, e
<1>1. a \in JobRecord
  BY SetResult DEF a
<1>2. b \in JobRecord
  BY <1>1, SetStatus DEF Statuses, b
<1>3. c \in JobRecord
  <2>1. 100 \in 0..100
    OBVIOUS
  <2>2. QED
    BY <1>2, <2>1, SetPercent DEF c
<1>4. e \in JobRecord
  BY <1>3, SetEndAge, ScanJobsConstants DEF e
<1>5. QED
  BY <1>4 DEF Stored, a, b, c, e

LEMMA FailedTyped ==
    ASSUME NEW r \in JobRecord
    PROVE  Failed(r) \in JobRecord
<1> DEFINE a == [r EXCEPT !.status = "error"]
           b == [a EXCEPT !.error = "failed"]
           c == [b EXCEPT !.endAge = 0]
<1> HIDE DEF a, b, c
<1>1. a \in JobRecord
  BY SetStatus DEF Statuses, a
<1>2. b \in JobRecord
  BY <1>1, SetError DEF Errors, b
<1>3. c \in JobRecord
  BY <1>2, SetEndAge, ScanJobsConstants DEF c
<1>4. QED
  BY <1>3 DEF Failed, a, b, c

LEMMA SteppedTyped ==
    ASSUME NEW r \in JobRecord, r.done < Total
    PROVE  Stepped(r) \in JobRecord /\ Stepped(r).percent < 100
<1> DEFINE a == [r EXCEPT !.done = r.done + 1]
           b == [a EXCEPT !.percent = Percent(r.done + 1)]
<1>1. r.done + 1 \in 0..Total
  BY ScanJobsConstants DEF JobRecord
<1>2. Percent(r.done + 1) \in 0..99
  BY <1>1, PercentRange
<1> HIDE DEF a, b
<1>3. a \in JobRecord
  BY <1>1, SetDone DEF a
<1>4. b \in JobRecord
  <2>1. Percent(r.done + 1) \in 0..100
    BY <1>2
  <2>2. QED
    BY <1>3, <2>1, SetPercent DEF b
<1>5. b.percent = Percent(r.done + 1)
  BY <1>3 DEF b, JobRecord
<1>6. QED
  BY <1>2, <1>4, <1>5 DEF Stepped, a, b

LEMMA OlderTyped ==
    ASSUME NEW r \in JobRecord
    PROVE  Older(r) \in JobRecord
<1> DEFINE s == IF r.startAge > MaxRuntime THEN r.startAge ELSE r.startAge + 1
           e == IF r.status = "running" \/ r.endAge > Retention THEN r.endAge ELSE r.endAge + 1
           a == [r EXCEPT !.startAge = s]
           b == [a EXCEPT !.endAge = e]
<1>1. s \in 0..MaxRuntime + 1 /\ e \in 0..Retention + 1
  BY ScanJobsConstants DEF JobRecord
<1>2. a \in JobRecord
  BY <1>1, SetStartAge
<1>3. b \in JobRecord
  BY <1>1, <1>2, SetEndAge
<1>4. Older(r) = b
  BY DEF Older
<1>5. QED
  BY <1>3, <1>4

LEMMA FindActiveTyped ==
    ASSUME TypeOK, NEW d \in Domains, FindActiveEffect(d)
    PROVE  reg' \subseteq Jobs /\ job' \in [Jobs -> JobRecord]
<1> DEFINE f == [j \in Jobs |-> IF j \in Pruned /\ job[j].domain = d /\ IsStuck(job[j])
                                THEN Abandon(job[j]) ELSE job[j]]
<1>1. f \in [Jobs -> JobRecord]
  BY AbandonTyped DEF TypeOK
<1>2. job' = Forget(f, Pruned \cup worker)
  BY DEF FindActiveEffect
<1>3. job' \in [Jobs -> JobRecord]
  BY <1>1, <1>2, ForgetTyped
<1>4. QED
  BY <1>3 DEF FindActiveEffect, Pruned, TypeOK

\* Type correctness: every step of every client, page and worker keeps the
\* registry and its records within the values scan_jobs.py gives them.
THEOREM TypeCorrect == Spec => []TypeOK
<1>1. Init => TypeOK
  BY BlankTyped DEF Init, TypeOK
<1>2. TypeOK /\ [Next]_vars => TypeOK'
  <2> SUFFICES ASSUME TypeOK, [Next]_vars
               PROVE  TypeOK'
    OBVIOUS
  <2>1. ASSUME NEW c \in Clients, NEW d \in Domains, AskToStart(c, d)
        PROVE  TypeOK'
    BY <2>1, FindActiveTyped DEF AskToStart, TypeOK
  <2>2. ASSUME NEW c \in Clients, NEW j \in Jobs, Start(c, j)
        PROVE  TypeOK'
    <3>1. req[c] \in Domains
      BY <2>2 DEF Start, TypeOK
    <3>2. Fresh(req[c]) \in JobRecord
      BY <3>1, FreshTyped
    <3>3. [job EXCEPT ![j] = Fresh(req[c])] \in [Jobs -> JobRecord]
      BY <3>2 DEF TypeOK
    <3>4. job' \in [Jobs -> JobRecord]
      BY <2>2, <3>3, ForgetTyped DEF Start
    <3>5. QED
      BY <2>2, <3>4 DEF Start, Pruned, TypeOK
  <2>3. ASSUME NEW d \in Domains, AskActive(d)
        PROVE  TypeOK'
    BY <2>3, FindActiveTyped DEF AskActive, TypeOK
  <2>4. ASSUME NEW j \in Jobs, Poll(j)
        PROVE  TypeOK'
    BY <2>4, AbandonTyped DEF Poll, TypeOK
  <2>5. ASSUME NEW j \in Jobs, Progress(j)
        PROVE  TypeOK'
    BY <2>5, SteppedTyped DEF Progress, TypeOK
  <2>6. ASSUME NEW j \in Jobs, Finish(j)
        PROVE  TypeOK'
    <3>1. [job EXCEPT ![j] = Stored(@)] \in [Jobs -> JobRecord]
      BY StoredTyped DEF TypeOK
    <3>2. QED
      BY <2>6, <3>1, ForgetTyped DEF Finish, TypeOK
  <2>7. ASSUME NEW j \in Jobs, Fail(j)
        PROVE  TypeOK'
    <3>1. [job EXCEPT ![j] = Failed(@)] \in [Jobs -> JobRecord]
      BY FailedTyped DEF TypeOK
    <3>2. QED
      BY <2>7, <3>1, ForgetTyped DEF Fail, TypeOK
  <2>8. CASE Tick
    BY <2>8, OlderTyped DEF Tick, TypeOK
  <2>9. CASE Restart
    BY <2>9, BlankTyped DEF Restart, TypeOK
  <2>10. CASE UNCHANGED vars
    BY <2>10 DEF vars, TypeOK
  <2>11. QED
    BY <2>1, <2>2, <2>3, <2>4, <2>5, <2>6, <2>7, <2>8, <2>9, <2>10 DEF Next
<1>3. QED
  BY <1>1, <1>2, PTL DEF Spec


(***************************************************************************)
(* How each step moves the jobs that count as running.                     *)
(***************************************************************************)
\* find_active never makes a job live, whatever domain it is asked for.
LEMMA FindActiveLive ==
    ASSUME TypeOK, NEW e \in Domains, FindActiveEffect(e), NEW d \in Domains
    PROVE  Live(d)' \subseteq Live(d)
<1> SUFFICES ASSUME NEW j \in Live(d)'
             PROVE  j \in Live(d)
  OBVIOUS
<1>1. j \in Pruned /\ j \in reg /\ j \in Jobs
  BY DEF Live, FindActiveEffect, Pruned, TypeOK
<1>2. job'[j] = IF job[j].domain = e /\ IsStuck(job[j]) THEN Abandon(job[j]) ELSE job[j]
  BY <1>1 DEF FindActiveEffect, Forget
<1>3. job'[j].status = "running"
  BY DEF Live
<1>4. job[j] \in JobRecord
  BY <1>1 DEF TypeOK
<1>5. Abandon(job[j]).status # "running"
  BY <1>4 DEF Abandon, JobRecord
<1>6. job'[j] = job[j]
  BY <1>2, <1>3, <1>5
<1>7. QED
  BY <1>1, <1>6 DEF Live

LEMMA ForgetKeeps ==
    ASSUME NEW f, NEW held, NEW j \in Jobs, j \in held
    PROVE  Forget(f, held)[j] = f[j]
BY DEF Forget

\* A job stays live only as itself: its record changed by at most one of the
\* functions below, and each leaves a live record only where there was one.
LEMMA LiveRecord ==
    ASSUME NEW r \in JobRecord, NEW s \in JobRecord,
           s.status = "running", ~IsStuck(s),
           s \in {r, Older(r), Stepped(r), Stored(r), Failed(r), Abandon(r)}
    PROVE  r.status = "running" /\ ~IsStuck(r) /\ r.domain = s.domain
<1>1. Abandon(r).status # "running"
  BY DEF Abandon, JobRecord
<1>2. Stored(r).status # "running"
  BY DEF Stored, JobRecord
<1>3. Failed(r).status # "running"
  BY DEF Failed, JobRecord
<1>4. /\ Stepped(r).status = r.status
      /\ Stepped(r).startAge = r.startAge
      /\ Stepped(r).domain = r.domain
  BY DEF Stepped, JobRecord
<1>5. /\ Older(r).status = r.status
      /\ Older(r).startAge = IF r.startAge > MaxRuntime THEN r.startAge ELSE r.startAge + 1
      /\ Older(r).domain = r.domain
  BY DEF Older, JobRecord
<1>6. r.startAge \in Int /\ MaxRuntime \in Int
  BY ScanJobsConstants DEF JobRecord
<1>7. s.startAge <= MaxRuntime
  <2>1. s.startAge \in Int
    BY ScanJobsConstants DEF JobRecord
  <2>2. QED
    BY <1>6, <2>1 DEF IsStuck
<1>8. CASE s = Older(r)
  BY <1>5, <1>6, <1>7, <1>8 DEF IsStuck
<1>9. CASE s = Stepped(r)
  BY <1>4, <1>9 DEF IsStuck
<1>10. CASE s = r
  BY <1>10
<1>11. QED
  BY <1>1, <1>2, <1>3, <1>8, <1>9, <1>10

LEMMA OneRecordLive ==
    ASSUME TypeOK, reg' = reg, NEW d \in Domains, TypeOK',
           \A j \in reg : job'[j] \in {job[j], Older(job[j]), Stepped(job[j]), Stored(job[j]),
                                       Failed(job[j]), Abandon(job[j])}
    PROVE  Live(d)' \subseteq Live(d)
<1> SUFFICES ASSUME NEW j \in Live(d)'
             PROVE  j \in Live(d)
  OBVIOUS
<1>1. j \in reg /\ j \in Jobs /\ job[j] \in JobRecord /\ job'[j] \in JobRecord
  BY DEF Live, TypeOK
<1>2. job'[j].status = "running" /\ ~IsStuck(job'[j]) /\ job'[j].domain = d
  BY DEF Live, IsStuck
<1>3. job[j].status = "running" /\ ~IsStuck(job[j]) /\ job[j].domain = job'[j].domain
  BY <1>1, <1>2, LiveRecord
<1>4. QED
  BY <1>1, <1>2, <1>3 DEF Live

LEMMA FiniteParts ==
    ASSUME TypeOK, NEW d \in Domains
    PROVE  /\ IsFiniteSet(Live(d)) /\ Cardinality(Live(d)) \in Nat
           /\ IsFiniteSet(Starting(d)) /\ Cardinality(Starting(d)) \in Nat
           /\ Cardinality(Starting(d)) <= Cardinality(Clients)
           /\ Cardinality(Clients) \in Nat
<1>1. Live(d) \subseteq Jobs /\ Starting(d) \subseteq Clients
  BY DEF Live, Starting, TypeOK
<1>2. QED
  BY <1>1, ScanJobsConstants, FS_Subset, FS_CardinalityType

\* The bound survives a step that adds neither a live job nor a starting client.
LEMMA BoundShrinks ==
    ASSUME TypeOK, TypeOK', NEW d \in Domains,
           Live(d)' \subseteq Live(d), Starting(d)' \subseteq Starting(d),
           Cardinality(Live(d)) + Cardinality(Starting(d)) <= Cardinality(Clients)
    PROVE  Cardinality(Live(d)') + Cardinality(Starting(d)') <= Cardinality(Clients)
<1>1. /\ IsFiniteSet(Live(d)) /\ Cardinality(Live(d)) \in Nat
      /\ IsFiniteSet(Starting(d)) /\ Cardinality(Starting(d)) \in Nat
      /\ Cardinality(Clients) \in Nat
  BY FiniteParts
<1>2. Cardinality(Live(d)') <= Cardinality(Live(d)) /\ Cardinality(Live(d)') \in Nat
  BY <1>1, FS_Subset, FS_CardinalityType
<1>3. Cardinality(Starting(d)') <= Cardinality(Starting(d)) /\ Cardinality(Starting(d)') \in Nat
  BY <1>1, FS_Subset, FS_CardinalityType
<1>4. QED
  BY <1>1, <1>2, <1>3

(***************************************************************************)
(* Two requests that both found no running scan are the only way to two    *)
(* running scans of a domain, and the request threads bound their number.  *)
(* The bound is inductive as it stands: a client passes find_active only   *)
(* when no scan counts as running, and start trades a starting client for  *)
(* a running job.                                                          *)
(***************************************************************************)
THEOREM ConcurrentScans == Spec => []ConcurrentScansBounded
<1>1. TypeOK /\ Init => ConcurrentScansBounded
  <2> SUFFICES ASSUME TypeOK, Init, NEW d \in Domains
               PROVE  Cardinality(Live(d)) + Cardinality(Starting(d)) <= Cardinality(Clients)
    BY DEF ConcurrentScansBounded
  <2>1. Live(d) = {}
    BY DEF Init, Live
  <2>2. Cardinality({}) = 0
    BY FS_EmptySet
  <2>3. QED
    BY <2>1, <2>2, FiniteParts
<1>2. TypeOK /\ TypeOK' /\ ConcurrentScansBounded /\ [Next]_vars => ConcurrentScansBounded'
  <2> SUFFICES ASSUME TypeOK, TypeOK', ConcurrentScansBounded, [Next]_vars, NEW d \in Domains
               PROVE  Cardinality(Live(d)') + Cardinality(Starting(d)') <= Cardinality(Clients)
    BY DEF ConcurrentScansBounded
  <2> DEFINE Goal == Cardinality(Live(d)') + Cardinality(Starting(d)') <= Cardinality(Clients)
  <2>a. Cardinality(Live(d)) + Cardinality(Starting(d)) <= Cardinality(Clients)
    BY DEF ConcurrentScansBounded
  <2>b. ASSUME Live(d)' \subseteq Live(d), req' = req
        PROVE  Goal
    <3>1. Starting(d)' \subseteq Starting(d)
      BY <2>b DEF Starting
    <3>2. QED
      BY <2>a, <2>b, <3>1, BoundShrinks
  <2>1. ASSUME NEW c \in Clients, NEW e \in Domains, AskToStart(c, e)
        PROVE  Goal
    <3>1. Live(d)' \subseteq Live(d)
      BY <2>1, FindActiveLive DEF AskToStart
    <3>2. CASE Live(d) = {}
      <4>1. Live(d)' = {}
        BY <3>1, <3>2
      <4>2. Cardinality(Live(d)') = 0
        BY <4>1, FS_EmptySet
      <4>3. Starting(d)' \subseteq Clients
        BY DEF Starting
      <4>4. Cardinality(Starting(d)') <= Cardinality(Clients) /\ Cardinality(Starting(d)') \in Nat
        BY <4>3, ScanJobsConstants, FS_Subset, FS_CardinalityType
      <4>5. QED
        BY <4>2, <4>4
    <3>3. CASE Live(d) # {}
      <4>1. Starting(d)' \subseteq Starting(d)
        BY <2>1, <3>3, ScanJobsConstants DEF AskToStart, Starting, TypeOK
      <4>2. QED
        BY <2>a, <3>1, <4>1, BoundShrinks
    <3>4. QED
      BY <3>2, <3>3
  <2>2. ASSUME NEW c \in Clients, NEW j \in Jobs, Start(c, j)
        PROVE  Goal
    <3>1. \A k \in reg' : k # j => k \in reg /\ job'[k] = job[k]
      BY <2>2 DEF Start, Forget, Pruned, TypeOK
    <3>2. job'[j] = Fresh(req[c])
      BY <2>2 DEF Start, Forget, TypeOK
    <3>3. Live(d)' \subseteq Live(d) \cup {j}
      BY <3>1 DEF Live, IsStuck
    <3>4. CASE req[c] = d
      <4>1. Starting(d)' = Starting(d) \ {c} /\ c \in Starting(d)
        BY <2>2, <3>4, ScanJobsConstants DEF Start, Starting, TypeOK
      <4>2. /\ IsFiniteSet(Live(d)) /\ Cardinality(Live(d)) \in Nat
            /\ IsFiniteSet(Starting(d)) /\ Cardinality(Starting(d)) \in Nat
            /\ Cardinality(Clients) \in Nat
        BY FiniteParts
      <4>3. Cardinality(Starting(d)') = Cardinality(Starting(d)) - 1
        BY <4>1, <4>2, FS_RemoveElement
      <4>4. /\ IsFiniteSet(Live(d) \cup {j})
            /\ Cardinality(Live(d) \cup {j}) <= Cardinality(Live(d)) + 1
        <5>1. \/ Cardinality(Live(d) \cup {j}) = Cardinality(Live(d)) + 1
              \/ Cardinality(Live(d) \cup {j}) = Cardinality(Live(d))
          BY <4>2, FS_AddElement, Zenon
        <5>2. IsFiniteSet(Live(d) \cup {j})
          BY <4>2, FS_AddElement, Zenon
        <5>3. QED
          BY <4>2, <5>1, <5>2
      <4>5. /\ Cardinality(Live(d)') <= Cardinality(Live(d) \cup {j})
            /\ Cardinality(Live(d)') \in Nat
            /\ Cardinality(Live(d) \cup {j}) \in Nat
        BY <3>3, <4>4, FS_Subset, FS_CardinalityType
      <4>6. QED
        BY <2>a, <4>2, <4>3, <4>4, <4>5
    <3>5. CASE req[c] # d
      <4>1. Live(d)' \subseteq Live(d)
        <5>1. j \notin Live(d)'
          BY <3>2, <3>5 DEF Live, Fresh
        <5>2. QED
          BY <3>3, <5>1
      <4>2. Starting(d)' \subseteq Starting(d)
        BY <2>2, ScanJobsConstants DEF Start, Starting, TypeOK
      <4>3. QED
        BY <2>a, <4>1, <4>2, BoundShrinks
    <3>6. QED
      BY <3>4, <3>5
  <2>3. ASSUME NEW e \in Domains, AskActive(e)
        PROVE  Goal
    BY <2>b, <2>3, FindActiveLive DEF AskActive
  <2>4. ASSUME NEW j \in Jobs, Poll(j)
        PROVE  Goal
    BY <2>b, <2>4, OneRecordLive DEF Poll, TypeOK
  <2>5. ASSUME NEW j \in Jobs, Progress(j)
        PROVE  Goal
    BY <2>b, <2>5, OneRecordLive DEF Progress, TypeOK
  <2>6. ASSUME NEW j \in Jobs, Finish(j)
        PROVE  Goal
    <3>1. \A k \in reg : job'[k] \in {job[k], Stored(job[k])}
      BY <2>6 DEF Finish, Forget, TypeOK
    <3>2. QED
      BY <2>b, <2>6, <3>1, OneRecordLive DEF Finish
  <2>7. ASSUME NEW j \in Jobs, Fail(j)
        PROVE  Goal
    <3>1. \A k \in reg : job'[k] \in {job[k], Failed(job[k])}
      BY <2>7 DEF Fail, Forget, TypeOK
    <3>2. QED
      BY <2>b, <2>7, <3>1, OneRecordLive DEF Fail
  <2>8. CASE Tick
    <3>1. \A k \in reg : job'[k] = Older(job[k])
      BY <2>8 DEF Tick, TypeOK
    <3>2. QED
      BY <2>b, <2>8, <3>1, OneRecordLive DEF Tick
  <2>9. CASE Restart
    <3>1. Live(d)' = {} /\ Starting(d)' = {}
      BY <2>9, ScanJobsConstants DEF Restart, Live, Starting
    <3>2. Live(d)' \subseteq Live(d) /\ Starting(d)' \subseteq Starting(d)
      BY <3>1
    <3>3. QED
      BY <2>a, <3>2, BoundShrinks
  <2>10. CASE UNCHANGED vars
    <3>1. Live(d)' \subseteq Live(d)
      BY <2>10 DEF vars, Live, IsStuck
    <3>2. QED
      BY <2>b, <2>10, <3>1 DEF vars
  <2>11. QED
    BY <2>1, <2>2, <2>3, <2>4, <2>5, <2>6, <2>7, <2>8, <2>9, <2>10 DEF Next
<1>3. QED
  BY <1>1, <1>2, TypeCorrect, PTL DEF Spec

(***************************************************************************)
(* What a record says agrees with what its worker has done.  FullMeans-    *)
(* Stored and RunningHasWorker speak of registered jobs only and are not   *)
(* inductive: a worker may outlive its registration and still writes to    *)
(* the record.  JobInv covers the records held by either.                  *)
(***************************************************************************)
Coherent(r, alive) ==
    /\ r.percent = 100 <=> r.status = "done"
    /\ r.status = "done" <=> r.result
    /\ r.status = "running" => alive
    /\ alive => r.status # "done"

JobInv == \A j \in reg \cup worker : Coherent(job[j], j \in worker)

LEMMA CoherentRecords ==
    ASSUME NEW r \in JobRecord
    PROVE  /\ Coherent(r, TRUE) /\ r.done < Total => Coherent(Stepped(r), TRUE)
           /\ Coherent(Stored(r), FALSE)
           /\ Coherent(r, TRUE) => Coherent(Failed(r), FALSE)
           /\ \A alive \in BOOLEAN :
                 /\ Coherent(r, alive) => Coherent(Older(r), alive)
                 /\ Coherent(r, alive) /\ IsStuck(r) => Coherent(Abandon(r), alive)
<1>1. Stored(r).percent = 100 /\ Stored(r).status = "done" /\ Stored(r).result = TRUE
  BY DEF Stored, JobRecord
<1>2. Failed(r).percent = r.percent /\ Failed(r).status = "error" /\ Failed(r).result = r.result
  BY DEF Failed, JobRecord
<1>3. Abandon(r).percent = r.percent /\ Abandon(r).status = "error" /\ Abandon(r).result = r.result
  BY DEF Abandon, JobRecord
<1>4. Older(r).percent = r.percent /\ Older(r).status = r.status /\ Older(r).result = r.result
  BY DEF Older, JobRecord
<1>5. Stepped(r).status = r.status /\ Stepped(r).result = r.result
  BY DEF Stepped, JobRecord
<1>6. r.done < Total => Stepped(r).percent # 100
  BY SteppedTyped
<1>7. r.result \in BOOLEAN
  BY DEF JobRecord
<1>8. Coherent(Stored(r), FALSE)
  BY <1>1 DEF Coherent
<1>9. Coherent(r, TRUE) => Coherent(Failed(r), FALSE)
  BY <1>2 DEF Coherent
<1>10. Coherent(r, TRUE) /\ r.done < Total => Coherent(Stepped(r), TRUE)
  BY <1>5, <1>6 DEF Coherent
<1>11. ASSUME NEW alive \in BOOLEAN
       PROVE  /\ Coherent(r, alive) => Coherent(Older(r), alive)
              /\ Coherent(r, alive) /\ IsStuck(r) => Coherent(Abandon(r), alive)
  BY <1>3, <1>4 DEF Coherent, IsStuck
<1>12. QED
  BY <1>8, <1>9, <1>10, <1>11

LEMMA FindActiveCoherent ==
    ASSUME TypeOK, JobInv, NEW d \in Domains, FindActiveEffect(d), worker' = worker
    PROVE  JobInv'
<1> SUFFICES ASSUME NEW j \in reg' \cup worker
             PROVE  Coherent(job'[j], j \in worker)
  BY DEF JobInv
<1>1. j \in reg \cup worker /\ j \in Jobs /\ j \in Pruned \cup worker
  BY DEF FindActiveEffect, Pruned, TypeOK
<1>2. \/ job'[j] = job[j]
      \/ job'[j] = Abandon(job[j]) /\ IsStuck(job[j])
  BY <1>1 DEF FindActiveEffect, Forget
<1>3. Coherent(job[j], j \in worker) /\ job[j] \in JobRecord
  BY <1>1 DEF JobInv, TypeOK
<1>4. (j \in worker) \in BOOLEAN
  OBVIOUS
<1>5. QED
  BY <1>2, <1>3, <1>4, CoherentRecords

LEMMA JobInvariant == Spec => []JobInv
<1>1. Init => JobInv
  BY DEF Init, JobInv
<1>2. TypeOK /\ JobInv /\ [Next]_vars => JobInv'
  <2> SUFFICES ASSUME TypeOK, JobInv, [Next]_vars
               PROVE  JobInv'
    OBVIOUS
  <2>a. \A j \in reg \cup worker : j \in Jobs /\ job[j] \in JobRecord
    BY DEF TypeOK
  <2>1. ASSUME NEW c \in Clients, NEW d \in Domains, AskToStart(c, d)
        PROVE  JobInv'
    BY <2>1, FindActiveCoherent DEF AskToStart
  <2>2. ASSUME NEW c \in Clients, NEW j \in Jobs, Start(c, j)
        PROVE  JobInv'
    <3>1. Coherent(Fresh(req[c]), TRUE)
      BY DEF Coherent, Fresh
    <3>2. job'[j] = Fresh(req[c])
      BY <2>2 DEF Start, Forget, TypeOK
    <3>3. \A k \in (reg' \cup worker') \ {j} : /\ k \in reg \cup worker
                                               /\ job'[k] = job[k]
                                               /\ k \in worker' <=> k \in worker
      BY <2>2 DEF Start, Forget, Pruned, TypeOK
    <3>4. j \in worker'
      BY <2>2 DEF Start
    <3>5. QED
      BY <3>1, <3>2, <3>3, <3>4 DEF JobInv, Coherent
  <2>3. ASSUME NEW d \in Domains, AskActive(d)
        PROVE  JobInv'
    BY <2>3, FindActiveCoherent DEF AskActive
  <2>4. ASSUME NEW j \in Jobs, Poll(j)
        PROVE  JobInv'
    <3>1. CASE ~IsStuck(job[j])
      BY <2>4, <3>1 DEF Poll, JobInv
    <3>2. CASE IsStuck(job[j])
      <4>1. Coherent(Abandon(job[j]), j \in worker)
        <5>1. (j \in worker) \in BOOLEAN /\ Coherent(job[j], j \in worker)
          BY <2>4 DEF Poll, JobInv
        <5>2. QED
          BY <2>a, <2>4, <3>2, <5>1, CoherentRecords DEF Poll
      <4>2. QED
        BY <2>4, <3>2, <4>1 DEF Poll, JobInv, TypeOK
    <3>3. QED
      BY <3>1, <3>2
  <2>5. ASSUME NEW j \in Jobs, Progress(j)
        PROVE  JobInv'
    <3>1. Coherent(Stepped(job[j]), TRUE)
      BY <2>a, <2>5, CoherentRecords DEF Progress, JobInv, Coherent
    <3>2. QED
      BY <2>5, <3>1 DEF Progress, JobInv, TypeOK, Coherent
  <2>6. ASSUME NEW j \in Jobs, Finish(j)
        PROVE  JobInv'
    <3>1. Coherent(Stored(job[j]), FALSE)
      BY <2>a, <2>6, CoherentRecords DEF Finish
    <3>2. \A k \in reg' \cup worker' : /\ k \in reg \cup worker
                                       /\ k = j => job'[k] = Stored(job[k]) /\ k \notin worker'
                                       /\ k # j => job'[k] = job[k] /\ (k \in worker' <=> k \in worker)
      BY <2>6 DEF Finish, Forget, TypeOK
    <3>3. QED
      BY <3>1, <3>2 DEF JobInv, Coherent
  <2>7. ASSUME NEW j \in Jobs, Fail(j)
        PROVE  JobInv'
    <3>1. Coherent(Failed(job[j]), FALSE)
      BY <2>a, <2>7, CoherentRecords DEF Fail, JobInv, Coherent
    <3>2. \A k \in reg' \cup worker' : /\ k \in reg \cup worker
                                       /\ k = j => job'[k] = Failed(job[k]) /\ k \notin worker'
                                       /\ k # j => job'[k] = job[k] /\ (k \in worker' <=> k \in worker)
      BY <2>7 DEF Fail, Forget, TypeOK
    <3>3. QED
      BY <3>1, <3>2 DEF JobInv, Coherent
  <2>8. CASE Tick
    <3> SUFFICES ASSUME NEW j \in reg \cup worker
                 PROVE  Coherent(job'[j], j \in worker)
      BY <2>8 DEF Tick, JobInv
    <3>1. job'[j] = Older(job[j])
      BY <2>8 DEF Tick, TypeOK
    <3>2. (j \in worker) \in BOOLEAN /\ Coherent(job[j], j \in worker)
      BY DEF JobInv
    <3>3. QED
      BY <2>a, <3>1, <3>2, CoherentRecords
  <2>9. CASE Restart
    BY <2>9 DEF Restart, JobInv
  <2>10. CASE UNCHANGED vars
    BY <2>10 DEF vars, JobInv
  <2>11. QED
    BY <2>1, <2>2, <2>3, <2>4, <2>5, <2>6, <2>7, <2>8, <2>9, <2>10 DEF Next
<1>3. QED
  BY <1>1, <1>2, TypeCorrect, PTL DEF Spec

\* 100% exactly when the result can be collected, and no job is left behind
\* in "running" by a worker that returned or raised.
THEOREM ReportsAreTrue == Spec => []ReportedIsSo
<1>1. JobInv => ReportedIsSo
  BY DEF JobInv, Coherent, ReportedIsSo, FullMeansStored, RunningHasWorker
<1>2. QED
  BY <1>1, JobInvariant, PTL

LEMMA OlderIsTimeOnly ==
    ASSUME NEW r \in JobRecord
    PROVE  [Older(r) EXCEPT !.startAge = 0, !.endAge = 0] = [r EXCEPT !.startAge = 0, !.endAge = 0]
BY DEF Older, JobRecord

\* What a job ended as is final: it never runs again, and with its worker
\* gone no request, poll or other job changes it.
THEOREM JobsSettle == Spec => Settled
<1> DEFINE Same(r, s) == [s EXCEPT !.startAge = 0, !.endAge = 0]
                         = [r EXCEPT !.startAge = 0, !.endAge = 0]
           Step == \A j \in reg \cap reg' :
                      /\ job[j].status # "running" => job'[j].status # "running"
                      /\ j \notin worker => Same(job[j], job'[j])
<1>1. TypeOK /\ JobInv /\ [Next]_vars => [Step]_vars
  <2> SUFFICES ASSUME TypeOK, JobInv, Next, NEW j \in reg, j \in reg'
               PROVE  /\ job[j].status # "running" => job'[j].status # "running"
                      /\ j \notin worker => Same(job[j], job'[j])
    OBVIOUS
  <2> DEFINE Goal == /\ job[j].status # "running" => job'[j].status # "running"
                     /\ j \notin worker => Same(job[j], job'[j])
  <2>a. j \in Jobs /\ job[j] \in JobRecord
    BY DEF TypeOK
  <2>b. IsStuck(job[j]) => j \in worker
    BY DEF IsStuck, JobInv, Coherent
  <2>c. Abandon(job[j]).status # "running" /\ Stored(job[j]).status # "running"
        /\ Failed(job[j]).status # "running"
    BY <2>a DEF Abandon, Stored, Failed, JobRecord
  <2>d. ASSUME job'[j] = job[j] \/ (IsStuck(job[j]) /\ job'[j] = Abandon(job[j]))
        PROVE  Goal
    BY <2>b, <2>c, <2>d
  <2>1. ASSUME NEW d \in Domains, FindActiveEffect(d)
        PROVE  Goal
    <3>1. j \in Pruned
      BY <2>1 DEF FindActiveEffect
    <3>2. job'[j] = job[j] \/ (IsStuck(job[j]) /\ job'[j] = Abandon(job[j]))
      BY <2>1, <2>a, <3>1 DEF FindActiveEffect, Forget
    <3>3. QED
      BY <2>d, <3>2
  <2>2. ASSUME NEW c \in Clients, NEW i \in Jobs, Start(c, i)
        PROVE  Goal
    <3>1. job'[j] = job[j]
      BY <2>2, <2>a DEF Start, Forget, Pruned, TypeOK
    <3>2. QED
      BY <3>1
  <2>3. ASSUME NEW i \in Jobs, Poll(i)
        PROVE  Goal
    <3>1. job'[j] = job[j] \/ (IsStuck(job[j]) /\ job'[j] = Abandon(job[j]))
      BY <2>3, <2>a DEF Poll, TypeOK
    <3>2. QED
      BY <2>d, <3>1
  <2>4. ASSUME NEW i \in Jobs, Progress(i)
        PROVE  Goal
    <3>1. Stepped(job[i]).status = job[i].status
      BY <2>4 DEF Stepped, Progress, TypeOK, JobRecord
    <3>2. j # i => job'[j] = job[j]
      BY <2>4, <2>a DEF Progress, TypeOK
    <3>3. j = i => job'[j] = Stepped(job[j]) /\ j \in worker
      BY <2>4, <2>a DEF Progress, TypeOK
    <3>4. QED
      BY <3>1, <3>2, <3>3
  <2>5. ASSUME NEW i \in Jobs, Finish(i) \/ Fail(i)
        PROVE  Goal
    <3>1. j # i => job'[j] = job[j]
      BY <2>5, <2>a DEF Finish, Fail, Forget, TypeOK
    <3>2. j = i => job'[j] \in {Stored(job[j]), Failed(job[j])} /\ j \in worker
      BY <2>5, <2>a DEF Finish, Fail, Forget, TypeOK
    <3>3. QED
      BY <2>c, <3>1, <3>2
  <2>6. CASE Tick
    <3>1. job'[j] = Older(job[j])
      BY <2>6, <2>a DEF Tick
    <3>2. Older(job[j]).status = job[j].status
      BY <2>a DEF Older, JobRecord
    <3>3. QED
      BY <2>a, <3>1, <3>2, OlderIsTimeOnly
  <2>7. CASE Restart
    BY <2>7 DEF Restart
  <2>8. QED
    BY <2>1, <2>2, <2>3, <2>4, <2>5, <2>6, <2>7 DEF Next, AskToStart, AskActive
<1>2. QED
  BY <1>1, TypeCorrect, JobInvariant, PTL DEF Spec, Settled

\* The registry forgets a job only after its retention time, or by a restart.
THEOREM ResultsAreKept == Spec => KeptForRetention
<1> DEFINE Step == \/ Restart
                   \/ \A j \in reg \ reg' : job[j].status # "running" /\ job[j].endAge > Retention
<1>1. [Next]_vars => [Step]_vars
  <2> SUFFICES ASSUME Next, ~Restart, NEW j \in reg \ reg'
               PROVE  job[j].status # "running" /\ job[j].endAge > Retention
    OBVIOUS
  <2>1. IsStale(job[j]) => job[j].status # "running" /\ job[j].endAge > Retention
    BY DEF IsStale
  <2>2. reg' = reg \/ Pruned \subseteq reg'
    BY DEF Next, AskToStart, AskActive, FindActiveEffect, Start, Poll, Progress, Finish, Fail, Tick
  <2>3. QED
    BY <2>1, <2>2 DEF Pruned
<1>2. QED
  BY <1>1, PTL DEF Spec, KeptForRetention
=============================================================================
