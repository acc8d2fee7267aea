------------------------------ MODULE CveAlerts ------------------------------
(***************************************************************************)
(* Known CVEs of monitored domains (cve_alerts.py), composed with the      *)
(* scans of MonitorHistory: a sync of the CVE data stores what the NVD     *)
(* knows and then compares, for every monitor, the version its last scan   *)
(* measured with the data as it is now; a scan notes what it found as the  *)
(* starting point of the next comparison.                                  *)
(*                                                                         *)
(* Both run in threads of their own.  Taking stock reads the data first    *)
(* and writes what it read in a later transaction; a comparison reads,     *)
(* reports and remembers in three.  One product is followed, and it is     *)
(* switched on.                                                            *)
(***************************************************************************)
EXTENDS MonitorHistory

CONSTANTS
    Shown,  \* the states in which the domain shows a version of the product
    Cves    \* CVEs whose ranges take that version in

ASSUME CveConstants == Shown \subseteq States

VARIABLES
    data,     \* cve_ranges and cve_items: what is stored of each CVE
    fresh,    \* cve_feed.freshness of the product
    known,    \* cve_alert_known: what is known for each monitor and version
    noted,    \* cve_alert_scans: the scan that `known` belongs to
    assessed, \* per worker, what its results say applies
    found,    \* per worker, what _take_stock read before its transaction
    check,    \* the sync that runs, and where its recheck is
    alerted,  \* history: what the user was told, by a scan or an event
    quiet,    \* history: what a first comparison took stock of in silence
    missed,   \* history: what became known in silence in any other way
    again     \* history: what may be told once more

cveVars == <<data, fresh, known, noted, assessed, found, check, alerted, quiet, missed, again>>
alertVars == <<historyVars, cveVars>>

\* How much is known or told of a CVE: not at all, that it applies, that it
\* is exploited (CISA KEV).
Levels == 0..2
Level == [Cves -> Levels]
NoCves == [c \in Cves |-> 0]
PerVersion == [Shown -> Level]
NoneKnown == [v \in Shown |-> NoCves]
Higher(f, g) == [c \in Cves |-> IF f[c] > g[c] THEN f[c] ELSE g[c]]

\* Of what f says, what g says too, and what it does not.
Both(f, g) == [c \in Cves |-> IF f[c] < g[c] THEN f[c] ELSE g[c]]
Beyond(f, g) == [c \in Cves |-> IF f[c] > g[c] THEN f[c] ELSE 0]

Check == [phase : {"idle", "synced", "listed", "stock", "compared", "told"},
          todo : SUBSET Monitors, base : [Monitors -> 0..MaxScans], current : BOOLEAN,
          of : Monitors, version : Values, read : Level]
NoBase == [m \in Monitors |-> None]
NoCheck == [phase |-> "idle", todo |-> {}, base |-> NoBase, current |-> FALSE,
            of |-> CHOOSE m \in Monitors : TRUE, version |-> Unmeasured, read |-> NoCves]

CveTypeOK ==
    /\ HistoryTypeOK
    /\ data \in Level
    /\ fresh \in {"never", "stale", "current"}
    /\ known \in [Monitors -> PerVersion]
    /\ noted \in [Monitors -> 0..MaxScans]
    /\ assessed \in [Workers -> Level] /\ found \in [Workers -> Level]
    /\ check \in Check
    /\ alerted \in [Monitors -> PerVersion]
    /\ quiet \in [Monitors -> PerVersion] /\ missed \in [Monitors -> PerVersion]
    /\ again \in [Monitors -> [Shown -> SUBSET Cves]]

CveInit ==
    /\ HistoryInit
    /\ data = NoCves /\ fresh = "never"
    /\ known = [m \in Monitors |-> NoneKnown]
    /\ noted = [m \in Monitors |-> None]
    /\ assessed = [w \in Workers |-> NoCves] /\ found = [w \in Workers |-> NoCves]
    /\ check = NoCheck
    /\ alerted = [m \in Monitors |-> NoneKnown]
    /\ quiet = [m \in Monitors |-> NoneKnown] /\ missed = [m \in Monitors |-> NoneKnown]
    /\ again = [m \in Monitors |-> [v \in Shown |-> {}]]

\* _applicable: of a version that is shown, the CVEs stored for it.
Applicable(v) == IF v \in Shown THEN data ELSE NoCves

\* One version of one monitor, with others left as they are.
Raised(f, m, v, cves) == IF v \in Shown THEN [f EXCEPT ![m][v] = Higher(@, cves)] ELSE f

Remembered_NotKev(old, cves) == [c \in Cves |-> IF cves[c] > 0 THEN 1 ELSE old[c]]

\* INSERT OR REPLACE of the CVEs that apply; the others stay.
Remembered(old, cves) == [c \in Cves |-> IF cves[c] > 0 THEN cves[c] ELSE old[c]]

(***************************************************************************)
(* A scan                                                                  *)
(***************************************************************************)
\* cve_feed.assess_product: compared only with data that is current.
MeasureCves(w) ==
    /\ Measure(w)
    /\ assessed' = [assessed EXCEPT ![w] = IF fresh = "current" THEN Applicable(run'[w].value) ELSE NoCves]
    /\ UNCHANGED <<data, fresh, known, noted, found, check, alerted, quiet, missed, again>>

\* What a run measured and read is kept while it is used.
InUse(f) == [w \in Workers |-> IF run'[w].phase \in {"idle", "begun", "noted"} THEN NoCves ELSE f[w]]

\* note_scan asks whether anything was ever fetched, then reads the data.
NoteRead(w) ==
    /\ run[w].phase = "hashed"
    /\ IF fresh = "never"
       THEN run' = [run EXCEPT ![w].phase = "noted"] /\ found' = InUse(found)
       ELSE /\ run' = [run EXCEPT ![w].phase = "noting"]
            /\ found' = [found EXCEPT ![w] = Applicable(run[w].value)]
    /\ UNCHANGED <<monitor, scan, domain, days, told, gap>>
    /\ assessed' = InUse(assessed)
    /\ UNCHANGED <<data, fresh, known, noted, check, alerted, quiet, missed, again>>

\* History: what this step makes unknown again may be told again.
Forgotten(f) == [m \in Monitors |-> [v \in Shown |->
                    f[m][v] \cup {c \in Cves : known'[m][v][c] < known[m][v][c]}]]

\* The transaction of _take_stock: all that was known goes, what was read comes.
Stocked(m, id, v, cves) ==
    /\ known' = [known EXCEPT ![m] = [u \in Shown |-> IF u = v THEN cves ELSE NoCves]]
    /\ noted' = [noted EXCEPT ![m] = id]
    /\ again' = Forgotten(again)

NoteWrite(w) ==
    /\ run[w].phase = "noting"
    /\ Stocked(run[w].of, run[w].id, run[w].value, found[w])
    /\ run' = [run EXCEPT ![w].phase = "noted"]
    /\ UNCHANGED <<monitor, scan, domain, days, told, gap>>
    \* What is noted and its report shows is told; a sync since the scan
    \* measured, or data that was not current, makes it note more than that.
    /\ alerted' = Raised(alerted, run[w].of, run[w].value, Both(found[w], assessed[w]))
    /\ missed' = Raised(missed, run[w].of, run[w].value, Beyond(found[w], assessed[w]))
    /\ assessed' = InUse(assessed) /\ found' = InUse(found)
    /\ UNCHANGED <<data, fresh, check, quiet>>

NoteFails(w) ==
    /\ run[w].phase \in {"hashed", "noting"}
    /\ run' = [run EXCEPT ![w].phase = "noted"]
    /\ assessed' = InUse(assessed) /\ found' = InUse(found)
    /\ UNCHANGED <<monitor, scan, domain, days, told, gap>>
    /\ UNCHANGED <<data, fresh, known, noted, check, alerted, quiet, missed, again>>

(***************************************************************************)
(* A sync, under the lock that lets one run at a time                      *)
(***************************************************************************)
\* sync_nvd: a product is stored in one transaction.  A CVE comes, is found
\* to be exploited, or is rejected by the NVD; nothing leaves the KEV list.
Sync ==
    /\ check.phase = "idle"
    /\ check' = [check EXCEPT !.phase = "synced"]
    /\ \E d \in Level :
           /\ \A c \in Cves : d[c] = 0 \/ d[c] >= data[c]
           /\ data' = d
           /\ alerted' = [m \in Monitors |-> [v \in Shown |->
                             [c \in Cves |-> IF d[c] = 0 /\ known[m][v][c] < alerted[m][v][c] THEN known[m][v][c]
                                            ELSE alerted[m][v][c]]]]
    /\ fresh' = "current"
    /\ UNCHANGED <<historyVars, known, noted, assessed, found, quiet, missed, again>>

SyncFails ==
    /\ check.phase = "idle"
    /\ check' = [check EXCEPT !.phase = "synced"]
    /\ UNCHANGED <<historyVars, data, fresh, known, noted, assessed, found, alerted, quiet, missed, again>>

\* max_age_days pass without a sync that succeeds.
Ages ==
    /\ fresh = "current" /\ check.phase = "idle"
    /\ fresh' = "stale"
    /\ UNCHANGED <<historyVars, data, known, noted, assessed, found, check, alerted, quiet, missed, again>>

\* The rows of deleted monitors go; then the enabled monitors are listed,
\* each with the last scan it has at that moment.
Listed ==
    /\ check.phase = "synced"
    /\ known' = [m \in Monitors |-> IF IsStored(m) THEN known[m] ELSE NoneKnown]
    /\ noted' = [m \in Monitors |-> IF IsStored(m) THEN noted[m] ELSE None]
    /\ \E enabled \in SUBSET {m \in Monitors : IsStored(m) /\ monitor[m].base # None} :
           check' = [NoCheck EXCEPT !.phase = "listed", !.todo = enabled, !.current = fresh = "current",
                                    !.base = [m \in Monitors |-> IF m \in enabled THEN monitor[m].base ELSE None]]
    /\ UNCHANGED <<historyVars, data, fresh, assessed, found, alerted, quiet, missed, again>>

\* The rest of the loop, with monitor m done.
Without(m) == [check EXCEPT !.phase = "listed", !.todo = @ \ {m}, !.base[m] = None,
                            !.of = NoCheck.of, !.version = Unmeasured, !.read = NoCves]

Look(m) ==
    /\ check.phase = "listed" /\ m \in check.todo
    /\ LET id == check.base[m]
           version == IF Kept(id) THEN scan[id].value ELSE Unmeasured
           Read(phase) == [check EXCEPT !.phase = phase, !.of = m, !.version = version,
                                        !.read = Applicable(version)]
       IN check' = IF ~Kept(id) THEN Without(m)
                   ELSE IF noted[m] # id THEN Read("stock")
                   ELSE IF version \in Shown /\ check.current THEN Read("compared")
                   ELSE Without(m)
    /\ UNCHANGED <<historyVars, data, fresh, known, noted, assessed, found, alerted, quiet, missed, again>>

Stock ==
    /\ check.phase = "stock"
    /\ Stocked(check.of, check.base[check.of], check.version, check.read)
    /\ check' = Without(check.of)
    \* Silence is meant for a monitor none of whose scans was noted.
    /\ LET m == check.of
       IN IF noted[m] = None
          THEN quiet' = Raised(quiet, m, check.version, check.read) /\ UNCHANGED missed
          ELSE missed' = Raised(missed, m, check.version, check.read) /\ UNCHANGED quiet
    /\ UNCHANGED <<historyVars, data, fresh, assessed, found, alerted>>

ToTell_NewOnly(was, now) == {c \in Cves : now[c] > 0 /\ was[c] = 0}

\* New, or exploited since: known before as not exploited.
ToTell(was, now) == {c \in Cves : now[c] > was[c]}

\* What is known is read again; the event refers to monitor and scan, and an
\* exception leaves the rest of this monitor to the next sync.
Tell ==
    /\ check.phase = "compared"
    /\ LET m == check.of
           v == check.version
           new == ToTell(known[m][v], check.read)
       IN IF new # {} /\ ~(IsStored(m) /\ Kept(check.base[m]))
          THEN check' = Without(m) /\ UNCHANGED <<alerted, again>>
          ELSE /\ check' = [check EXCEPT !.phase = "told"]
               /\ alerted' = [alerted EXCEPT ![m][v] = [c \in Cves |-> IF c \in new THEN check.read[c] ELSE @[c]]]
               /\ again' = [again EXCEPT ![m][v] = @ \ new]
    /\ UNCHANGED <<historyVars, data, fresh, known, noted, assessed, found, quiet, missed>>

Remember ==
    /\ check.phase = "told"
    /\ known' = [known EXCEPT ![check.of][check.version] = Remembered(@, check.read)]
    /\ again' = Forgotten(again)
    /\ check' = Without(check.of)
    /\ UNCHANGED <<historyVars, data, fresh, noted, assessed, found, alerted, quiet, missed>>

\* An exception while a monitor is compared is logged, and the loop goes on.
Skip ==
    /\ check.phase \in {"stock", "compared", "told"}
    /\ check' = Without(check.of)
    /\ again' = IF check.phase = "told" THEN [again EXCEPT ![check.of][check.version] = Cves] ELSE again
    /\ UNCHANGED <<historyVars, data, fresh, known, noted, assessed, found, alerted, quiet, missed>>

SyncEnds ==
    /\ check.phase = "listed" /\ check.todo = {}
    /\ check' = NoCheck
    /\ UNCHANGED <<historyVars, data, fresh, known, noted, assessed, found, alerted, quiet, missed, again>>

\* The end of the process takes the sync with it.
CrashAll ==
    /\ Crash \/ (check.phase # "idle" /\ (\A w \in Workers : run[w] = NoRun) /\ UNCHANGED historyVars)
    /\ check' = NoCheck
    /\ again' = IF check.phase = "told" THEN [again EXCEPT ![check.of][check.version] = Cves] ELSE again
    /\ assessed' = InUse(assessed) /\ found' = InUse(found)
    /\ UNCHANGED <<data, fresh, known, noted, alerted, quiet, missed>>

\* The rows of a deleted monitor stay until the next sync; nobody is told.
DeleteMonitorOnly(m) ==
    /\ DeleteMonitor(m)
    /\ alerted' = [alerted EXCEPT ![m] = NoneKnown]
    /\ quiet' = [quiet EXCEPT ![m] = NoneKnown] /\ missed' = [missed EXCEPT ![m] = NoneKnown]
    /\ again' = [again EXCEPT ![m] = [v \in Shown |-> Cves]]
    /\ UNCHANGED <<data, fresh, known, noted, assessed, found, check>>

\* The steps of a scan and of people that do not touch the CVE data.
OtherStep ==
    /\ \/ \E w \in Workers :
              \/ \E m \in Monitors : BeginRun(w, m)
              \/ Compare(w) \/ SaveScan(w) \/ MarkScanned(w) \/ StoreHash(w) \/ Report(w) \/ FailRun(w)
       \/ \E m \in Monitors : CreateMonitor(m) \/ Drift(m)
       \/ \E i \in 1..Len(scan) : DeleteScan(i)
       \/ ClearHistory \/ Purge \/ TimePasses
    /\ assessed' = InUse(assessed) /\ found' = InUse(found)
    /\ UNCHANGED <<data, fresh, known, noted, check, alerted, quiet, missed, again>>

CveNext ==
    \/ OtherStep
    \/ \E w \in Workers : MeasureCves(w) \/ NoteRead(w) \/ NoteWrite(w) \/ NoteFails(w)
    \/ Sync \/ SyncFails \/ Ages \/ Listed \/ Stock \/ Tell \/ Remember \/ Skip \/ SyncEnds
    \/ \E m \in Monitors : Look(m) \/ DeleteMonitorOnly(m)
    \/ CrashAll

CveSpec == CveInit /\ [][CveNext]_alertVars

(***************************************************************************)
(* Properties                                                              *)
(***************************************************************************)
\* A CVE that a comparison will not report any more was shown by a scan,
\* told by an event, or taken stock of at the first comparison of a monitor
\* none of whose scans was noted (cve_alerts.py, module doc): no order of
\* syncs, scans, deletions and crashes marks it as known otherwise.  The code
\* keeps this but for `missed`: a scan notes the data as it is when it notes,
\* not what it found, and the scan of a monitor noted before is taken stock
\* of as well, when its own note failed or comes late.
KnownWasTold ==
    \A m \in Monitors, v \in Shown, c \in Cves :
        IsStored(m) => \/ known[m][v][c] <= alerted[m][v][c]
                       \/ known[m][v][c] <= quiet[m][v][c]
                       \/ known[m][v][c] <= missed[m][v][c]

\* An event names a CVE the user was already told of for this version only
\* when the process ended, or the row could not be written, between the event
\* and remembering it, or a scan that read the data before that event wrote
\* what it had read after it.
ToldOnce ==
    [][\A m \in Monitors, v \in Shown, c \in Cves :
          (Tell /\ check.of = m /\ check.version = v /\ c \in ToTell(known[m][v], check.read)
             /\ check'.phase = "told" /\ check.read[c] <= alerted[m][v][c])
            => c \in again[m][v]]_alertVars
=============================================================================
