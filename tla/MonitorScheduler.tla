-------------------------- MODULE MonitorScheduler --------------------------
(***************************************************************************)
(* The monitor scheduler (scheduler.py) over the rows of the monitors      *)
(* table (db.py), with everything else that writes those rows: the monitor *)
(* endpoints, the import and the portfolio's monitoring switch (app.py).   *)
(*                                                                         *)
(* A run of process_due_monitors takes the run lock, reads the due rows    *)
(* once, asks whether the scanner's resolver answers and scans the rows in *)
(* a pool.  The rows go on changing meanwhile, and a scan writes back the  *)
(* metadata the run read.  Times are ticks to go; rows that are due are    *)
(* kept in the order of their next_scan_at, the order the run reads them.  *)
(***************************************************************************)
EXTENDS Integers, Sequences, FiniteSets, SequencesExt

CONSTANTS
    Monitors,      \* monitor ids; one is used again when nothing refers to it
    Callers,       \* who runs the due monitors: the loop, POST run-due
    Broken,        \* monitors whose scan may fail or whose domain may be silent
    Loop,          \* the caller that polls
    None,
    Limit,         \* max_monitors_per_run
    Concurrency,   \* scans of one run at the same time
    Interval,      \* schedule_minutes, in ticks
    Retry,         \* dns_retry_minutes, in ticks
    BackoffTicks,  \* failure_backoff_minutes, in ticks
    MaxFailures,   \* max_consecutive_failures
    MaxRetries,    \* dns_max_retries
    Outages        \* bound: outages of the scanner's own resolver

ASSUME SchedulerConstants ==
    /\ IsFiniteSet(Monitors) /\ Broken \subseteq Monitors
    /\ None \notin Callers
    /\ Loop \in Callers
    /\ {Limit, Concurrency, Interval, Retry, BackoffTicks, MaxFailures, MaxRetries}
           \subseteq Nat \ {0}
    /\ Retry <= Interval
    /\ Outages \in Nat

VARIABLES
    row,      \* the monitors table; the key of a missing row maps to NoRow
    due,      \* ids whose next_scan_at has passed, oldest first
    lock,     \* who holds _monitor_run_lock
    batch,    \* per caller, the run it is in
    dns,      \* the resolver: whether it answers, the cached answer, outages left
    ghost     \* history: what really happened to each monitor, see NoHistory below

vars == <<row, due, lock, batch, dns, ghost>>

Never == -1                 \* next_scan_at is NULL
Stages == {"no", "ask", "silent", "scan", "marked"}

Sched == [fails : 0..MaxFailures, silent : 0..MaxRetries - 1, backoff : 0..BackoffTicks]
NoSched == [fails |-> 0, silent |-> 0, backoff |-> 0]

Row == [stored : BOOLEAN, enabled : BOOLEAN, next : Never..Interval, sched : Sched]
NoRow == [stored |-> FALSE, enabled |-> FALSE, next |-> Never, sched |-> NoSched]

Batch == [phase : {"idle", "probe", "run", "lost"}, todo : Seq(Monitors),
          stage : [Monitors -> Stages], snap : [Monitors -> Sched], raised : BOOLEAN]
NoBatch == [phase |-> "idle", todo |-> <<>>, stage |-> [m \in Monitors |-> "no"],
            snap |-> [m \in Monitors |-> NoSched], raised |-> FALSE]

Stored == {m \in Monitors : row[m].stored}
Busy(c) == {m \in Monitors : batch[c].stage[m] # "no"}

Capped(n, most) == IF n > most THEN most ELSE n

(***************************************************************************)
(* The order of the rows that are due.                                     *)
(***************************************************************************)
Position(m) == CHOOSE i \in DOMAIN due : due[i] = m

\* ORDER BY next_scan_at.
InOrder(S) ==
    [k \in 1..Cardinality(S) |->
        CHOOSE m \in S : Cardinality({o \in S : Position(o) < Position(m)}) = k - 1]

DueWithout(m) == IF m \in Range(due) THEN RemoveAt(due, Position(m)) ELSE due

(***************************************************************************)
(* Writes to a row.  An UPDATE of a row that is gone changes nothing.      *)
(***************************************************************************)
\* next_scan_at is written; a time that is now is the latest of those due.
SetNext(m, t) ==
    /\ row' = [row EXCEPT ![m].next = t]
    /\ due' = IF t = 0 THEN Append(DueWithout(m), m) ELSE DueWithout(m)

\* scheduler.next_run: an interval from now, or the slot of a time of day.
Slots == 1..Interval

InBackoff(m) == row[m].sched.backoff > 0


\* list_monitors(enabled, due_only, limit), less the rows in backoff.
Runnable ==
    LET listed == InOrder({m \in Range(due) : row[m].enabled})
        taken == {listed[i] : i \in 1..Capped(Len(listed), Limit)}
    IN InOrder({m \in taken : ~InBackoff(m)})

\* History variables.  bad: scheduled scans of m that failed since the last
\* one that succeeded.  quiet: scheduled scans put off for DNS since the last
\* that succeeded or gave up.
NoHistory == [bad |-> 0, quiet |-> 0]

(***************************************************************************)
(* One run of the due monitors.                                            *)
(***************************************************************************)
Begin_NoLock(c) ==
    /\ batch[c].phase = "idle"
    /\ lock' = c
    /\ batch' = [batch EXCEPT ![c] =
                    [NoBatch EXCEPT !.phase = IF Runnable = <<>> THEN "run" ELSE "probe",
                                    !.todo = Runnable,
                                    !.snap = [m \in Monitors |-> IF m \in Range(Runnable)
                                                                 THEN row[m].sched ELSE NoSched]]]
    /\ UNCHANGED <<row, due, dns, ghost>>

\* process_due_monitors up to the list of runnable monitors.  A caller that
\* does not get the lock returns at once and has changed nothing.
Begin(c) ==
    /\ lock = None
    /\ batch[c].phase = "idle"
    /\ lock' = c
    /\ batch' = [batch EXCEPT ![c] =
                    [NoBatch EXCEPT !.phase = IF Runnable = <<>> THEN "run" ELSE "probe",
                                    !.todo = Runnable,
                                    !.snap = [m \in Monitors |-> IF m \in Range(Runnable)
                                                                 THEN row[m].sched ELSE NoSched]]]
    /\ UNCHANGED <<row, due, dns, ghost>>

\* process_due_monitors as far as its try: the settings cannot be read or are
\* no numbers, the run ends, and the lock it has just taken is kept for good.
Strand(c) ==
    /\ lock = None
    /\ batch[c].phase = "idle"
    /\ lock' = c
    /\ batch' = [batch EXCEPT ![c].phase = "lost"]
    /\ UNCHANGED <<row, due, dns, ghost>>

\* resolver_check_fn: the answer of the last half minute, or a new one.
Probe(c) ==
    /\ batch[c].phase = "probe"
    /\ LET ok == IF dns.cached = "none" THEN dns.up ELSE dns.cached = "ok"
       IN /\ dns' = [dns EXCEPT !.cached = IF ok THEN "ok" ELSE "down"]
          /\ batch' = [batch EXCEPT ![c].phase = "run",
                                    ![c].todo = IF ok THEN @ ELSE <<>>]
    /\ UNCHANGED <<row, due, lock, ghost>>

\* The pool takes the next monitor.
Take(c) ==
    /\ batch[c].phase = "run"
    /\ batch[c].todo # <<>>
    /\ Cardinality(Busy(c)) < Concurrency
    /\ batch' = [batch EXCEPT ![c].todo = Tail(@), ![c].stage[Head(batch[c].todo)] = "ask"]
    /\ UNCHANGED <<row, due, lock, dns, ghost>>

At(c, m, stage) == batch[c].phase = "run" /\ batch[c].stage[m] = stage

Advance(c, m, stage) == batch' = [batch EXCEPT ![c].stage[m] = stage]

\* run_selected_checks asks whether the name exists, and dns_health asks for
\* it once more: no answer when the resolver is out or the domain is silent.
AskDomain(c, m) ==
    /\ At(c, m, "ask")
    /\ \/ /\ ~dns.up \/ m \in Broken
          /\ Advance(c, m, "silent")
       \/ /\ dns.up
          /\ Advance(c, m, "scan")
    /\ UNCHANGED <<row, due, lock, dns, ghost>>

\* The resolver is asked anew: it does not answer, and the monitor stays due.
ResolverDown(c, m) ==
    /\ At(c, m, "silent")
    /\ ~dns.up
    /\ dns' = [dns EXCEPT !.cached = "down"]
    /\ Advance(c, m, "no")
    /\ UNCHANGED <<row, due, lock, ghost>>

\* The resolver answers, so it is the domain that does not.  The metadata
\* written back is the metadata the run read, with one field changed.
DomainSilent(c, m) ==
    /\ At(c, m, "silent")
    /\ dns.up
    /\ dns' = [dns EXCEPT !.cached = "ok"]
    /\ UNCHANGED lock

\* _postpone_for_dns: tried again in a quarter of an hour.
Postpone(c, m) ==
    /\ DomainSilent(c, m)
    /\ batch[c].snap[m].silent + 1 < MaxRetries
    /\ IF row[m].stored
       THEN /\ row' = [row EXCEPT ![m].next = Retry,
                                  ![m].sched = [batch[c].snap[m] EXCEPT !.silent = @ + 1]]
            /\ due' = DueWithout(m)
       ELSE UNCHANGED <<row, due>>
    /\ Advance(c, m, "no")
    /\ ghost' = [ghost EXCEPT ![m].quiet = Capped(@ + 1, MaxRetries)]

\* What the pool and the loop do with a scan that raised: the others still
\* run and the exception ends the run; without a pool the rest is dropped.
Raise(c, m) ==
    batch' = [batch EXCEPT ![c].stage[m] = "no", ![c].raised = TRUE,
                           ![c].todo = IF Concurrency = 1 THEN <<>> ELSE @]

\* _postpone_for_dns: the last try; an event says so.  The event of a
\* monitor that is gone cannot be stored.
GiveUp(c, m) ==
    /\ DomainSilent(c, m)
    /\ batch[c].snap[m].silent + 1 >= MaxRetries
    /\ IF row[m].stored
       THEN /\ \E t \in Slots :
                  row' = [row EXCEPT ![m].next = t,
                                     ![m].sched = [batch[c].snap[m] EXCEPT !.silent = 0]]
            /\ due' = DueWithout(m)
            /\ Advance(c, m, "no")
       ELSE /\ Raise(c, m)
            /\ UNCHANGED <<row, due>>
    /\ ghost' = [ghost EXCEPT ![m].quiet = 0]

\* _scan_monitor has stored the scan and moves the schedule on.
Mark(c, m) ==
    /\ At(c, m, "scan")
    /\ row[m].stored
    /\ \E t \in Slots : SetNext(m, t)
    /\ Advance(c, m, "marked")
    /\ UNCHANGED <<lock, dns, ghost>>

Succeed_CountKept(c, m) ==
    /\ At(c, m, "marked")
    /\ row' = IF row[m].stored
              THEN [row EXCEPT ![m].sched = [batch[c].snap[m] EXCEPT !.silent = 0]] ELSE row
    /\ Advance(c, m, "no")
    /\ ghost' = [ghost EXCEPT ![m].bad = 0, ![m].quiet = 0]
    /\ UNCHANGED <<due, lock, dns>>

Succeed_RetriesKept(c, m) ==
    /\ At(c, m, "marked")
    /\ row' = IF row[m].stored
              THEN [row EXCEPT ![m].sched = [batch[c].snap[m] EXCEPT !.fails = 0]] ELSE row
    /\ Advance(c, m, "no")
    /\ ghost' = [ghost EXCEPT ![m].bad = 0, ![m].quiet = 0]
    /\ UNCHANGED <<due, lock, dns>>

\* _record_success.
Succeed(c, m) ==
    /\ At(c, m, "marked")
    /\ row' = IF row[m].stored THEN [row EXCEPT ![m].sched = NoSched] ELSE row
    /\ Advance(c, m, "no")
    /\ ghost' = [ghost EXCEPT ![m].bad = 0, ![m].quiet = 0]
    /\ UNCHANGED <<due, lock, dns>>

Failed(sched) ==
    LET fails == Capped(sched.fails + 1, MaxFailures)
    IN [sched EXCEPT !.fails = fails,
                     !.backoff = IF fails >= MaxFailures THEN BackoffTicks ELSE @]

\* The scan raised, before or after the schedule moved on: _record_failure
\* and an event.  The scan of a monitor that is gone always ends here (its
\* row is referred to), and so does the event about it.
Fail(c, m) ==
    /\ At(c, m, "scan") \/ At(c, m, "marked")
    /\ m \in Broken \/ ~row[m].stored
    /\ IF row[m].stored
       THEN /\ row' = [row EXCEPT ![m].sched = Failed(batch[c].snap[m])]
            /\ Advance(c, m, "no")
       ELSE /\ Raise(c, m)
            /\ UNCHANGED row
    /\ ghost' = [ghost EXCEPT ![m].bad = Capped(@ + 1, MaxFailures)]
    /\ UNCHANGED <<due, lock, dns>>

Finish_NoFinally(c) ==
    /\ batch[c].phase = "run"
    /\ batch[c].todo = <<>>
    /\ Busy(c) = {}
    /\ batch' = [batch EXCEPT ![c] = NoBatch]
    /\ lock' = IF batch[c].raised THEN c ELSE None
    /\ UNCHANGED <<row, due, dns, ghost>>

\* The run is over, raising what a scan raised; the lock is released either way.
Finish(c) ==
    /\ batch[c].phase = "run"
    /\ batch[c].todo = <<>>
    /\ Busy(c) = {}
    /\ batch' = [batch EXCEPT ![c] = NoBatch]
    /\ lock' = None
    /\ UNCHANGED <<row, due, dns, ghost>>

(***************************************************************************)
(* The other writers of the rows.                                          *)
(***************************************************************************)
Rows == UNCHANGED <<lock, batch, dns, ghost>>

Unused(m) == \A c \in Callers : m \notin Busy(c) \cup Range(batch[c].todo)

\* POST /api/monitors, and a new row of an import or of the portfolio: due
\* now, at a slot, or paused.
Create(m) ==
    /\ ~row[m].stored
    /\ Unused(m)
    /\ \E on \in BOOLEAN, t \in {0} \cup Slots :
          LET next == IF on THEN t ELSE Never
          IN /\ row' = [row EXCEPT ![m] = [NoRow EXCEPT !.stored = TRUE, !.enabled = on,
                                                        !.next = next]]
             /\ due' = IF next = 0 THEN Append(due, m) ELSE due
    /\ ghost' = [ghost EXCEPT ![m] = NoHistory]
    /\ UNCHANGED <<lock, batch, dns>>

Delete(m) ==
    /\ row[m].stored
    /\ row' = [row EXCEPT ![m] = NoRow]
    /\ due' = DueWithout(m)
    /\ Rows

\* PATCH /api/monitors/<id> with `enabled`.
Pause(m) ==
    /\ row[m].stored
    /\ row' = [row EXCEPT ![m].enabled = FALSE, ![m].next = Never]
    /\ due' = DueWithout(m)
    /\ Rows

\* At once, or at its time of day when it has one.
Resume(m) ==
    /\ row[m].stored
    /\ \E t \in {0} \cup Slots :
          /\ row' = [row EXCEPT ![m].enabled = TRUE, ![m].next = t]
          /\ due' = IF t = 0 THEN Append(DueWithout(m), m) ELSE DueWithout(m)
    /\ Rows

\* A new time of day: PATCH, and the plan, for the rows it read as enabled.
SetTime(m) ==
    /\ row[m].stored
    /\ \E t \in Slots : SetNext(m, t)
    /\ Rows

\* _set_monitoring, the portfolio's switch: only `enabled` is written.
Switch(m) ==
    /\ row[m].stored
    /\ row' = [row EXCEPT ![m].enabled = ~@]
    /\ UNCHANGED due
    /\ Rows

\* The import of a record that has a monitor: `enabled` and the metadata are
\* overwritten; with a plan, an enabled row that has no time gets one.
Import(m) ==
    /\ row[m].stored
    /\ \E on \in BOOLEAN, t \in Slots \cup {row[m].next} :
          /\ t # row[m].next => on
          /\ row' = [row EXCEPT ![m].enabled = on, ![m].sched = NoSched, ![m].next = t]
          /\ due' = IF t = 0 THEN due ELSE DueWithout(m)
    /\ Rows

\* POST /api/monitors/<id>/scan and its background form, with a scan that
\* ends well: the schedule moves on, the scheduler's metadata is not touched.
ManualScan(m) ==
    /\ row[m].stored
    /\ dns.up
    /\ \E t \in Slots : SetNext(m, t)
    /\ Rows

(***************************************************************************)
(* Time and the resolver.  The cached answer is younger than a tick.       *)
(***************************************************************************)
Tick ==
    /\ row' = [m \in Monitors |->
                  [row[m] EXCEPT !.next = IF @ > 0 THEN @ - 1 ELSE @,
                                 !.sched.backoff = IF @ > 0 THEN @ - 1 ELSE @]]
    /\ \E fresh \in SetToSeqs({m \in Monitors : row[m].next = 1}) : due' = due \o fresh
    /\ dns' = [dns EXCEPT !.cached = "none"]
    /\ row' # row \/ dns' # dns
    /\ UNCHANGED <<lock, batch, ghost>>

Outage ==
    /\ dns.up
    /\ dns.left > 0
    /\ dns' = [dns EXCEPT !.up = FALSE, !.left = @ - 1]
    /\ UNCHANGED <<row, due, lock, batch, ghost>>

Recover ==
    /\ ~dns.up
    /\ dns' = [dns EXCEPT !.up = TRUE]
    /\ UNCHANGED <<row, due, lock, batch, ghost>>

(***************************************************************************)
(* The specification.                                                      *)
(***************************************************************************)
\* An empty table: every row is made by Create.
Init ==
    /\ row = [m \in Monitors |-> NoRow]
    /\ due = <<>>
    /\ lock = None
    /\ batch = [c \in Callers |-> NoBatch]
    /\ dns = [up |-> TRUE, cached |-> "none", left |-> Outages]
    /\ ghost = [m \in Monitors |-> NoHistory]

ScanStep(c, m) ==
    \/ AskDomain(c, m) \/ ResolverDown(c, m) \/ Postpone(c, m) \/ GiveUp(c, m)
    \/ Mark(c, m) \/ Succeed(c, m) \/ Fail(c, m)

RunStep(c) == Begin(c) \/ Strand(c) \/ Probe(c) \/ Take(c) \/ Finish(c)

ApiStep(m) ==
    \/ Create(m) \/ Delete(m) \/ Pause(m) \/ Resume(m) \/ SetTime(m)
    \/ Switch(m) \/ Import(m) \/ ManualScan(m)

Next ==
    \/ \E c \in Callers : RunStep(c)
    \/ \E c \in Callers, m \in Monitors : ScanStep(c, m)
    \/ \E m \in Monitors : ApiStep(m)
    \/ Tick
    \/ Outage
    \/ Recover

Spec == Init /\ [][Next]_vars

\* Any table the endpoints can leave, and from then on nobody but the
\* scheduler writes it: what is left of a behaviour once they are quiet.
QuietInit ==
    /\ row \in [Monitors -> [stored : {TRUE}, enabled : BOOLEAN, next : {0, Interval},
                             sched : {NoSched}]]
    /\ due \in SetToSeqs({m \in Monitors : row[m].next = 0})
    /\ lock = None
    /\ batch = [c \in Callers |-> NoBatch]
    /\ dns = [up |-> TRUE, cached |-> "none", left |-> Outages]
    /\ ghost = [m \in Monitors |-> NoHistory]

QuietNext ==
    \/ \E c \in Callers : RunStep(c)
    \/ \E c \in Callers, m \in Monitors : ScanStep(c, m)
    \/ Tick
    \/ Outage
    \/ Recover

(***************************************************************************)
(* Fairness: the loop polls for ever and a scan it started comes back;     *)
(* time passes; an outage ends.  Nothing is assumed of POST run-due's      *)
(* arrival, only that what it began goes on.                               *)
(***************************************************************************)
Going(c) == Probe(c) \/ Take(c) \/ Finish(c)

Fairness ==
    /\ WF_vars(Begin(Loop))
    /\ \A c \in Callers : WF_vars(Going(c))
    /\ \A c \in Callers, m \in Monitors : WF_vars(ScanStep(c, m))
    /\ WF_vars(Tick)
    /\ WF_vars(Recover)

FairSpec == Spec /\ Fairness

QuietSpec == QuietInit /\ [][QuietNext]_vars /\ Fairness

(***************************************************************************)
(* Properties.                                                             *)
(***************************************************************************)
Ghost == [bad : 0..MaxFailures, quiet : 0..MaxRetries]

\* Every variable has its type, and `due` lists the rows that are due, once each.
TypeOK ==
    /\ row \in [Monitors -> Row]
    /\ IsInjective(due)
    /\ Range(due) = {m \in Monitors : row[m].next = 0}
    /\ lock \in Callers \cup {None}
    /\ batch \in [Callers -> Batch]
    /\ dns \in [up : BOOLEAN, cached : {"none", "ok", "down"}, left : 0..Outages]
    /\ ghost \in [Monitors -> Ghost]

\* No monitor is scanned by two runs at a time: the loop and POST run-due
\* can come together, and both would compare with the same baseline.
OneRunPerMonitor ==
    \A c, d \in Callers : c # d => Busy(c) \cap Busy(d) = {}

\* A monitor backs off only after max_consecutive_failures scheduled scans
\* failed with no success between them, also when an import or a run that
\* read the row earlier overwrote the count.
BackoffEarned ==
    \A m \in Monitors : InBackoff(m) => ghost[m].bad >= MaxFailures

\* The event about silent name servers is raised only when the last
\* dns_max_retries scheduled scans that ended without failing were put off.
AlarmEarned ==
    [][\A c \in Callers, m \in Monitors :
          GiveUp(c, m) /\ row[m].stored => ghost[m].quiet + 1 >= MaxRetries]_vars

\* A monitor that is switched on has a time to run.
EnabledIsScheduled ==
    \A m \in Stored : row[m].enabled => row[m].next # Never

IsDue(m) == row[m].stored /\ row[m].enabled /\ row[m].next = 0

\* The run lock is gone with a run that could not read its settings.
LockLost == \E c \in Callers : batch[c].phase = "lost"

\* The run lock is released again and again, also after a run whose scans
\* raised.  The exception is the code's: whatever raises before the try.
LockFreed == []<>(lock = None \/ LockLost)
=============================================================================
