--------------------------- MODULE MonitorHistory ---------------------------
(***************************************************************************)
(* What a monitor's scan leaves behind: the scan in the history, the       *)
(* monitor's baseline (last_scan_id and last_state_hash) and the event     *)
(* that tells what changed (app.py, _scan_monitor), while people delete    *)
(* scans and monitors and the retention purge of maintenance.py runs.      *)
(*                                                                         *)
(* A run reads its monitor before it measures and its baseline after, and  *)
(* saves, marks, hashes and reports in transactions of their own, so any   *)
(* other run or deletion may fall between two of them, and so may the end  *)
(* of the process.  A scan is abstracted to the state of the domain it     *)
(* measured, or Unmeasured; scan_diff.py is modelled by when it sees a     *)
(* change between two of those.                                            *)
(***************************************************************************)
EXTENDS Integers, Sequences, FiniteSets

CONSTANTS
    Monitors,    \* ids of the monitors table; AUTOINCREMENT, so none comes twice
    Workers,     \* threads that scan: the scheduler's pool, jobs, requests
    States,      \* what a domain can look like
    Bad,         \* the states with an open finding
    Unmeasured,  \* a scan whose checks got no answer
    MaxScans,    \* bound: scans saved
    MaxDays      \* bound: times the retention period passes

ASSUME HistoryConstants ==
    /\ Monitors # {}
    /\ Bad \subseteq States
    /\ Unmeasured \notin States
    /\ MaxScans \in Nat \ {0}
    /\ MaxDays \in Nat

VARIABLES
    monitor,  \* the monitors table
    scan,     \* the scans table, by id
    run,      \* per worker, the scan it is in
    domain,   \* per monitor, how its target really is
    days,     \* retention periods passed
    told,     \* history: per monitor, the state the last report of a change gave
    gap       \* history: per monitor, why its reports may lag its baseline

historyVars == <<monitor, scan, run, domain, days, told, gap>>

None == 0                       \* NULL in last_scan_id; no scan has id 0
Values == States \cup {Unmeasured}
Nothing == "nothing"            \* no state hash yet, nothing told yet

MonitorRow == [stored : {"no", "yes", "deleted"}, base : 0..MaxScans,
               hash : Values \cup {Nothing}]
ScanRow == [kept : BOOLEAN, value : Values, aged : BOOLEAN]
Phases == {"idle", "begun", "measured", "compared", "saved", "marked", "hashed", "noting", "noted"}
Kinds == {"baseline_created", "scan_changed", "scan_unchanged"}
\* base and hash: the monitor as it was read; what a phase no longer needs is
\* set back, so that equal runs are equal states.
Run == [phase : Phases, of : Monitors, base : 0..MaxScans, hash : Values \cup {Nothing},
        value : Values, kind : Kinds, id : 0..MaxScans]
Reasons == {"overlap", "died", "unmeasured"}

NoRun == [phase |-> "idle", of |-> CHOOSE m \in Monitors : TRUE, base |-> None, hash |-> Nothing,
          value |-> Unmeasured, kind |-> "scan_unchanged", id |-> None]
Gone == [kept |-> FALSE, value |-> Unmeasured, aged |-> FALSE]

AfterMark == {"marked", "hashed", "noting", "noted"}
Scanning(m) == {w \in Workers : run[w].phase # "idle" /\ run[w].of = m}
Kept(i) == i \in 1..Len(scan) /\ scan[i].kept
IsStored(m) == monitor[m].stored = "yes"

HistoryTypeOK ==
    /\ monitor \in [Monitors -> MonitorRow]
    /\ scan \in Seq(ScanRow) /\ Len(scan) <= MaxScans
    /\ run \in [Workers -> Run]
    /\ domain \in [Monitors -> States]
    /\ days \in 0..MaxDays
    /\ told \in [Monitors -> Values \cup {Nothing}]
    /\ gap \in [Monitors -> SUBSET Reasons]

HistoryInit ==
    /\ monitor = [m \in Monitors |-> [stored |-> "no", base |-> None, hash |-> Nothing]]
    /\ scan = <<>>
    /\ run = [w \in Workers |-> NoRun]
    /\ domain \in [Monitors -> States]
    /\ days = 0
    /\ told = [m \in Monitors |-> Nothing]
    /\ gap = [m \in Monitors |-> {}]

(***************************************************************************)
(* Judging a change                                                        *)
(***************************************************************************)
\* scan_diff.finding_changes: keys of the open findings, information left out.
OpenFindings(v) == IF v \in Bad THEN {"finding"} ELSE {}

\* A field or dimension differs only where both scans measured it; a finding
\* that came or went counts whether or not the check was measured.
Changes(old, new) ==
    \/ old # Unmeasured /\ new # Unmeasured /\ old # new
    \/ OpenFindings(old) # OpenFindings(new)

EventKind_NoBaseline(hash, prev, value) ==
    IF hash = Nothing THEN "baseline_created"
    ELSE IF prev # Nothing /\ Changes(prev, value) THEN "scan_changed" ELSE "scan_unchanged"

\* _monitor_event_from_results: against the baseline scan, or only against
\* the fingerprint when that scan is no longer there.
EventKind(hash, prev, value) ==
    IF hash = Nothing THEN "baseline_created"
    ELSE IF (IF prev # Nothing THEN Changes(prev, value) ELSE hash # value)
         THEN "scan_changed" ELSE "scan_unchanged"

(***************************************************************************)
(* The monitors table                                                      *)
(***************************************************************************)
\* POST /api/monitors, the imports and the portfolio switch all end here.
CreateMonitor(m) ==
    /\ monitor[m].stored = "no"
    /\ monitor' = [monitor EXCEPT ![m].stored = "yes"]
    /\ UNCHANGED <<scan, run, domain, days, told, gap>>

DeleteMonitor(m) ==
    /\ IsStored(m)
    /\ monitor' = [monitor EXCEPT ![m] = [stored |-> "deleted", base |-> None, hash |-> Nothing]]
    /\ UNCHANGED <<scan, run, domain, days, told, gap>>

(***************************************************************************)
(* One scan of a monitor                                                   *)
(***************************************************************************)
\* The row comes from list_monitors or get_monitor.  POST .../scan looks at
\* nothing else, so two runs of one monitor may be under way together.
BeginRun(w, m) ==
    /\ run[w].phase = "idle"
    /\ IsStored(m)
    /\ run' = [run EXCEPT ![w] = [NoRun EXCEPT !.phase = "begun", !.of = m,
                                               !.base = monitor[m].base, !.hash = monitor[m].hash]]
    /\ gap' = [gap EXCEPT ![m] = IF Scanning(m) # {} THEN @ \cup {"overlap"} ELSE @]
    /\ UNCHANGED <<monitor, scan, domain, days, told>>

Measure(w) ==
    /\ run[w].phase = "begun"
    /\ \E v \in {domain[run[w].of], Unmeasured} :
           run' = [run EXCEPT ![w].phase = "measured", ![w].value = v]
    /\ UNCHANGED <<monitor, scan, domain, days, told, gap>>

Before(w) == IF Kept(run[w].base) THEN scan[run[w].base].value ELSE Nothing

Compare(w) ==
    /\ run[w].phase = "measured"
    /\ LET r == run[w]
           blind == r.hash # Nothing
                    /\ (Before(w) = Unmeasured) # (r.value = Unmeasured)
       IN /\ run' = [run EXCEPT ![w] = [NoRun EXCEPT !.phase = "compared", !.of = r.of, !.value = r.value,
                                            !.kind = EventKind(r.hash, Before(w), r.value)]]
          /\ gap' = [gap EXCEPT ![r.of] = IF blind THEN @ \cup {"unmeasured"} ELSE @]
    /\ UNCHANGED <<monitor, scan, domain, days, told>>

\* The run ends with an exception; what it wrote so far stays.
Abort(w) ==
    /\ run' = [run EXCEPT ![w] = NoRun]
    /\ gap' = [gap EXCEPT ![run[w].of] =
                   IF run[w].phase \in AfterMark THEN @ \cup {"died"} ELSE @]

\* scans and scan_metrics in one transaction: the metrics row refers to the
\* monitor, so the scan of a monitor deleted meanwhile is not kept at all.
SaveScan(w) ==
    /\ run[w].phase = "compared"
    /\ Len(scan) < MaxScans
    /\ \/ /\ IsStored(run[w].of)
          /\ scan' = Append(scan, [kept |-> TRUE, value |-> run[w].value, aged |-> FALSE])
          /\ run' = [run EXCEPT ![w].phase = "saved", ![w].id = Len(scan) + 1]
          /\ UNCHANGED gap
       \/ ~IsStored(run[w].of) /\ Abort(w) /\ UNCHANGED scan
    /\ UNCHANGED <<monitor, domain, days, told>>

\* last_scan_id refers to the scan: an UPDATE to one deleted meanwhile fails,
\* and an UPDATE of a monitor that is gone touches no row and succeeds.
MarkScanned(w) ==
    /\ run[w].phase = "saved"
    /\ LET m == run[w].of IN
       \/ /\ IsStored(m) /\ Kept(run[w].id)
          /\ monitor' = [monitor EXCEPT ![m].base = run[w].id]
          /\ run' = [run EXCEPT ![w].phase = "marked"]
          /\ UNCHANGED gap
       \/ /\ ~IsStored(m)
          /\ run' = [run EXCEPT ![w].phase = "marked"]
          /\ UNCHANGED <<monitor, gap>>
       \/ IsStored(m) /\ ~Kept(run[w].id) /\ Abort(w) /\ UNCHANGED monitor
    /\ UNCHANGED <<scan, domain, days, told>>

StoreHash(w) ==
    /\ run[w].phase = "marked"
    /\ monitor' = IF IsStored(run[w].of)
                  THEN [monitor EXCEPT ![run[w].of].hash = run[w].value] ELSE monitor
    /\ run' = [run EXCEPT ![w].phase = "hashed"]
    /\ UNCHANGED <<scan, domain, days, told, gap>>

\* cve_alerts.note_scan catches everything it raises; see CveAlerts.
NoteScan(w) ==
    /\ run[w].phase = "hashed"
    /\ run' = [run EXCEPT ![w].phase = "noted"]
    /\ UNCHANGED <<monitor, scan, domain, days, told, gap>>

\* The event refers to the monitor and to the scan; then ServiceNow and the
\* channels, each of which fails on its own.
Report(w) ==
    /\ run[w].phase = "noted"
    /\ LET m == run[w].of IN
       \/ /\ IsStored(m) /\ Kept(run[w].id)
          /\ run' = [run EXCEPT ![w] = NoRun]
          /\ IF run[w].kind = "scan_unchanged" THEN UNCHANGED <<told, gap>>
             ELSE /\ told' = [told EXCEPT ![m] = run[w].value]
                  /\ gap' = [gap EXCEPT ![m] = IF Scanning(m) = {w} /\ "overlap" \notin @
                                               THEN {} ELSE @]
       \/ ~(IsStored(m) /\ Kept(run[w].id)) /\ Abort(w) /\ UNCHANGED told
    /\ UNCHANGED <<monitor, scan, domain, days>>

\* A check raises, or the domain's name servers do not answer.
FailRun(w) ==
    /\ run[w].phase = "begun"
    /\ Abort(w)
    /\ UNCHANGED <<monitor, scan, domain, days, told>>

\* The process ends: every thread with it.
Crash ==
    /\ \E w \in Workers : run[w].phase # "idle"
    /\ run' = [w \in Workers |-> NoRun]
    /\ gap' = [m \in Monitors |->
                  IF \E w \in Scanning(m) : run[w].phase \in AfterMark
                  THEN gap[m] \cup {"died"} ELSE gap[m]]
    /\ UNCHANGED <<monitor, scan, domain, days, told>>

(***************************************************************************)
(* Deleting from the history                                               *)
(***************************************************************************)
\* ON DELETE SET NULL clears last_scan_id; last_state_hash stays.
Forgetting(ids) ==
    /\ scan' = [i \in 1..Len(scan) |-> IF i \in ids THEN Gone ELSE scan[i]]
    /\ monitor' = [m \in Monitors |->
                      IF monitor[m].base \in ids THEN [monitor[m] EXCEPT !.base = None] ELSE monitor[m]]

DeleteScan(i) ==
    /\ Kept(i)
    /\ Forgetting({i})
    /\ UNCHANGED <<run, domain, days, told, gap>>

ClearHistory ==
    /\ \E i \in 1..Len(scan) : scan[i].kept
    /\ Forgetting(1..Len(scan))
    /\ UNCHANGED <<run, domain, days, told, gap>>

Purgeable_AnyOld == {i \in 1..Len(scan) : scan[i].kept /\ scan[i].aged}

\* Scans older than the cutoff, the baselines of the monitors left out.
Purgeable == {i \in 1..Len(scan) : scan[i].kept /\ scan[i].aged
                                     /\ \A m \in Monitors : monitor[m].base # i}

Purge ==
    /\ Purgeable # {}
    /\ Forgetting(Purgeable)
    /\ UNCHANGED <<run, domain, days, told, gap>>

\* The retention period passes: every scan there is becomes old enough.
TimePasses ==
    /\ days < MaxDays
    /\ days' = days + 1
    /\ scan' = [i \in 1..Len(scan) |-> [scan[i] EXCEPT !.aged = scan[i].kept]]
    /\ UNCHANGED <<monitor, run, domain, told, gap>>

Drift(m) ==
    /\ \E s \in States \ {domain[m]} : domain' = [domain EXCEPT ![m] = s]
    /\ UNCHANGED <<monitor, scan, run, days, told, gap>>

RunStep(w) ==
    \/ \E m \in Monitors : BeginRun(w, m)
    \/ Measure(w) \/ Compare(w) \/ SaveScan(w) \/ MarkScanned(w)
    \/ StoreHash(w) \/ Report(w) \/ FailRun(w)

\* Everything but NoteScan, which CveAlerts completes.
HistoryStep ==
    \/ \E w \in Workers : RunStep(w)
    \/ \E m \in Monitors : CreateMonitor(m) \/ DeleteMonitor(m) \/ Drift(m)
    \/ \E i \in 1..Len(scan) : DeleteScan(i)
    \/ ClearHistory \/ Purge \/ TimePasses

HistoryNext == HistoryStep \/ Crash \/ \E w \in Workers : NoteScan(w)

HistorySpec == HistoryInit /\ [][HistoryNext]_historyVars

(***************************************************************************)
(* Properties                                                              *)
(***************************************************************************)
\* What the monitoring page last said of a monitor is what its baseline
\* shows, however scans, purges and deletions are ordered: a change is never
\* passed over.  The exceptions are named: two runs of one monitor at the
\* same time compare with one baseline (app.py, _scan_monitor), a run that
\* ends after it moved the baseline reports nothing, and a scan that measured
\* nothing breaks the comparison (scan_diff.monitor_changes).
ReportsFollowBaseline ==
    \A m \in Monitors :
        (IsStored(m) /\ Scanning(m) = {} /\ gap[m] = {} /\ monitor[m].hash # Nothing)
            => /\ told[m] = monitor[m].hash
               /\ monitor[m].base # None => scan[monitor[m].base].value = told[m]

\* Only a deletion by hand (of the scan, of the history, of the monitor) takes
\* away what a monitor compares with: no purge (maintenance.purge) and no run
\* that moves the baseline to its own scan (app.py, _scan_monitor) leaves a
\* scanned monitor without one, whatever was deleted while it ran.
PurgeKeepsBaselines ==
    [][\A m \in Monitors :
          (IsStored(m) /\ Kept(monitor[m].base) /\ IsStored(m)' /\ ~Kept(monitor[m].base)')
              => ~Purge /\ (ClearHistory \/ DeleteScan(monitor[m].base))]_historyVars
=============================================================================
