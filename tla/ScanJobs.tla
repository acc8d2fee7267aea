------------------------------ MODULE ScanJobs ------------------------------
(***************************************************************************)
(* The in-memory registry of background scans (scan_jobs.py) with its      *)
(* callers: the request threads that start a scan (api_scan_start,         *)
(* api_monitors_scan_start), the pages that poll one, and the worker       *)
(* thread of every job.                                                    *)
(*                                                                         *)
(* A lock section of scan_jobs.py is one action.  Starting a scan takes    *)
(* two of them, find_active and then start, and anything may run between.  *)
(* Ages stand for the time stamps: an age grows with Tick and stops one    *)
(* past the limit it is compared with, so no clock has to be bounded.      *)
(***************************************************************************)
EXTENDS Integers, FiniteSets

CONSTANTS
    Jobs,        \* job ids; one is used again when nothing refers to it
    Domains,
    Clients,     \* request threads of the web server
    MaxRuntime,  \* _MAX_RUNTIME_SECONDS, in ticks
    Retention,   \* _RETENTION_SECONDS, in ticks
    Total,       \* checks in a scan
    None

ASSUME ScanJobsConstants ==
    /\ MaxRuntime \in Nat
    /\ Retention \in Nat
    /\ Total \in Nat
    /\ None \notin Domains
    /\ IsFiniteSet(Clients)
    /\ IsFiniteSet(Jobs)

VARIABLES
    reg,      \* keys of _jobs
    job,      \* the job dicts: the registry and the worker share the object
    worker,   \* jobs whose worker thread runs
    req       \* a client between find_active and start: its domain

vars == <<reg, job, worker, req>>

Statuses == {"running", "done", "error"}
Errors == {"none", "abandoned", "failed"}

JobRecord == [domain : Domains \cup {None}, status : Statuses, done : 0..Total,
              percent : 0..100, result : BOOLEAN, error : Errors,
              startAge : 0..MaxRuntime + 1, endAge : 0..Retention + 1]

Fresh(d) == [domain |-> d, status |-> "running", done |-> 0, percent |-> 0,
             result |-> FALSE, error |-> "none", startAge |-> 0, endAge |-> 0]

\* An id nothing refers to; what its record says matters to nobody.
Blank == [Fresh(None) EXCEPT !.status = "error"]

(***************************************************************************)
(* Helpers of scan_jobs.py.                                                *)
(***************************************************************************)
\* Mutants, here and below, are what a definition of the code must not be.
IsStuck_EndStamp(r) == r.status = "running" /\ r.endAge > MaxRuntime

IsStuck_AnyStatus(r) == r.startAge > MaxRuntime

IsStuck(r) == r.status = "running" /\ r.startAge > MaxRuntime

IsStale_StartStamp(r) == r.status \in {"done", "error"} /\ r.startAge > Retention

IsStale(r) == r.status \in {"done", "error"} /\ r.endAge > Retention

\* The registry after _prune_locked.
Pruned == {j \in reg : ~IsStale(job[j])}

Abandon(r) == [r EXCEPT !.status = "error", !.error = "abandoned", !.endAge = 0]

\* The runner returned and its result is stored; `error` is left as it was.
Stored(r) == [r EXCEPT !.result = TRUE, !.status = "done", !.percent = 100, !.endAge = 0]

\* The runner raised.
Failed(r) == [r EXCEPT !.status = "error", !.error = "failed", !.endAge = 0]

\* min(99, round(done / total * 100)); Python rounds a half to the even side.
RoundedPercent(done) ==
    LET q == (100 * done) \div Total
        r == (100 * done) % Total
    IN IF 2 * r > Total \/ (2 * r = Total /\ q % 2 = 1) THEN q + 1 ELSE q

Percent_Uncapped(done) == IF Total = 0 THEN 0 ELSE RoundedPercent(done)

Percent(done) ==
    IF Total = 0 THEN 0
    ELSE IF RoundedPercent(done) > 99 THEN 99 ELSE RoundedPercent(done)

\* progress_cb after one more check.
Stepped(r) == [r EXCEPT !.done = r.done + 1, !.percent = Percent(r.done + 1)]

\* The jobs that make find_active answer with a running scan.
Live(d) == {j \in reg : job[j].domain = d /\ job[j].status = "running" /\ ~IsStuck(job[j])}

\* Clients that found no running scan of d and have not registered theirs.
Starting(d) == {c \in Clients : req[c] = d}

\* A record that neither the registry nor a worker holds is forgotten.
Forget(f, held) == [j \in Jobs |-> IF j \in held THEN f[j] ELSE Blank]

\* What find_active(d) leaves behind: old finished jobs dropped, and the
\* stuck jobs of d, which are older than any live one and so met first,
\* marked as abandoned.
FindActiveEffect(d) ==
    /\ reg' = Pruned
    /\ job' = Forget([j \in Jobs |-> IF j \in Pruned /\ job[j].domain = d /\ IsStuck(job[j])
                                     THEN Abandon(job[j]) ELSE job[j]],
                     Pruned \cup worker)

(***************************************************************************)
(* Request threads and pages.                                              *)
(***************************************************************************)
AskToStart_NoCheck(c, d) ==
    /\ req[c] = None
    /\ FindActiveEffect(d)
    /\ req' = [req EXCEPT ![c] = d]
    /\ UNCHANGED worker

\* POST /api/scan/start and /api/monitors/<id>/scan/start, first half: a
\* scan that is running is answered with (409), otherwise one is started.
AskToStart(c, d) ==
    /\ req[c] = None
    /\ FindActiveEffect(d)
    /\ req' = [req EXCEPT ![c] = IF Live(d) = {} THEN d ELSE None]
    /\ UNCHANGED worker

\* Second half: scan_jobs.start registers the job and starts its worker.
Start(c, j) ==
    /\ req[c] # None
    /\ j \notin reg \cup worker
    /\ reg' = Pruned \cup {j}
    /\ job' = Forget([job EXCEPT ![j] = Fresh(req[c])], Pruned \cup worker \cup {j})
    /\ worker' = worker \cup {j}
    /\ req' = [req EXCEPT ![c] = None]

\* GET /api/scan/active: find_active without a start.
AskActive(d) ==
    /\ FindActiveEffect(d)
    /\ UNCHANGED <<worker, req>>

Poll_NoMark(j) == j \in reg /\ UNCHANGED vars

\* GET /api/scan/status/<job_id>: a stuck job is marked, nothing is pruned.
Poll(j) ==
    /\ j \in reg
    /\ job' = IF IsStuck(job[j]) THEN [job EXCEPT ![j] = Abandon(@)] ELSE job
    /\ UNCHANGED <<reg, worker, req>>

(***************************************************************************)
(* The worker thread of a job, which the registry may have given up on.    *)
(***************************************************************************)
Progress(j) ==
    /\ j \in worker
    /\ job[j].done < Total
    /\ job' = [job EXCEPT ![j] = Stepped(@)]
    /\ UNCHANGED <<reg, worker, req>>

Finish(j) ==
    /\ j \in worker
    /\ job' = Forget([job EXCEPT ![j] = Stored(@)], reg \cup (worker \ {j}))
    /\ worker' = worker \ {j}
    /\ UNCHANGED <<reg, req>>

Fail(j) ==
    /\ j \in worker
    /\ job' = Forget([job EXCEPT ![j] = Failed(@)], reg \cup (worker \ {j}))
    /\ worker' = worker \ {j}
    /\ UNCHANGED <<reg, req>>

(***************************************************************************)
(* Time, and a restart of the process.                                     *)
(***************************************************************************)
Older(r) ==
    [r EXCEPT !.startAge = IF @ > MaxRuntime THEN @ ELSE @ + 1,
              !.endAge = IF r.status = "running" \/ @ > Retention THEN @ ELSE @ + 1]

Tick ==
    /\ job' = [j \in Jobs |-> IF j \in reg \cup worker THEN Older(job[j]) ELSE job[j]]
    /\ UNCHANGED <<reg, worker, req>>

Restart ==
    /\ reg' = {}
    /\ job' = [j \in Jobs |-> Blank]
    /\ worker' = {}
    /\ req' = [c \in Clients |-> None]

Init ==
    /\ reg = {}
    /\ job = [j \in Jobs |-> Blank]
    /\ worker = {}
    /\ req = [c \in Clients |-> None]

Next ==
    \/ \E c \in Clients, d \in Domains : AskToStart(c, d)
    \/ \E c \in Clients, j \in Jobs : Start(c, j)
    \/ \E d \in Domains : AskActive(d)
    \/ \E j \in Jobs : Poll(j) \/ Progress(j) \/ Finish(j) \/ Fail(j)
    \/ Tick
    \/ Restart

Spec == Init /\ [][Next]_vars

\* Time passes, and a page polls the job it started (app.js) until it ends.
\* Nothing is assumed of the workers: a check may hang for ever.
LiveSpec == Spec /\ WF_vars(Tick) /\ \A j \in Jobs : WF_vars(Poll(j) /\ IsStuck(job[j]))

(***************************************************************************)
(* Properties.                                                             *)
(***************************************************************************)
\* Every variable keeps to the values scan_jobs.py gives it.
TypeOK ==
    /\ reg \subseteq Jobs
    /\ worker \subseteq Jobs
    /\ job \in [Jobs -> JobRecord]
    /\ req \in [Clients -> Domains \cup {None}]

\* find_active and start are two lock sections, so two requests may both find
\* no running scan.  How far that can go is bounded: the scans of a domain
\* that count as running, with the ones about to be registered, never exceed
\* the request threads of the server, however many requests have come by.
ConcurrentScansBounded ==
    \A d \in Domains : Cardinality(Live(d)) + Cardinality(Starting(d)) <= Cardinality(Clients)

\* The bar shows 100% exactly when the job is done and its result can be
\* collected (the comment in progress_cb), also when the registry had given
\* the job up before its worker came back.
FullMeansStored ==
    \A j \in reg : /\ job[j].percent = 100 <=> job[j].status = "done"
                   /\ job[j].status = "done" <=> job[j].result

\* A running job has a worker that can still end it: no job is left behind
\* in "running" by a worker that returned or raised.
RunningHasWorker == \A j \in reg : job[j].status = "running" => j \in worker

\* What a poll is told of a job is so, whichever worker came back late: both
\* of the above (public_view, and the comment in progress_cb).
ReportedIsSo == FullMeansStored /\ RunningHasWorker

\* A job never runs again once it was reported done or failed, and when its
\* worker has ended nothing but time changes it: no poll, no request for the
\* domain, no other job.
Settled == [][\A j \in reg \cap reg' :
                 /\ job[j].status # "running" => job'[j].status # "running"
                 /\ j \notin worker => [job'[j] EXCEPT !.startAge = 0, !.endAge = 0]
                                       = [job[j] EXCEPT !.startAge = 0, !.endAge = 0]]_vars

\* A page that comes back within the retention time still finds its job: the
\* registry forgets only jobs that ended longer ago than that.
KeptForRetention ==
    [][\/ Restart
       \/ \A j \in reg \ reg' : job[j].status # "running" /\ job[j].endAge > Retention]_vars

\* A scan that hangs does not pin its domain: it stops counting as running,
\* though its worker never returns.
HungScanReleasesDomain ==
    \A j \in Jobs, d \in Domains : j \in Live(d) ~> j \notin Live(d)

\* A page that polls is told of the end of every job, hung ones included.
EndIsReported ==
    \A j \in Jobs : (j \in reg /\ job[j].status = "running")
                       ~> (j \notin reg \/ job[j].status # "running")

\* What the docstring of api_scan_start says: a scan that is already running
\* for a domain is returned rather than started again.
OneScanPerDomain == \A d \in Domains : Cardinality(Live(d)) <= 1
=============================================================================
