------------------------------ MODULE AuditLog ------------------------------
(***************************************************************************)
(* The audit log (audit_log.py) and the retention run that shortens it     *)
(* (maintenance.py).  An entry takes its time first and its place later,   *)
(* under the database lock, where it carries the hash of the row before    *)
(* it.  verify() walks that chain: it takes the first row that is left for *)
(* granted, because retention removes the oldest.                          *)
(*                                                                         *)
(* A hash covers the row and the hash before it, so it is modelled by the  *)
(* id of the row, which no two rows share; an edited row is one whose      *)
(* content no longer gives its hash.                                       *)
(***************************************************************************)
EXTENDS Integers

CONSTANTS
    Writers,     \* threads that record: requests, jobs, the scheduler
    Retention,   \* the one that runs maintenance.purge
    KeepDays,    \* audit_days; 0 keeps everything
    PurgeEvery,  \* maintenance._RUN_EVERY
    MaxEntries,  \* bound: entries written
    MaxToday,    \* bound: days
    MaxTampers   \* bound: rows changed in the database file

ASSUME AuditConstants ==
    /\ Retention \in Writers
    /\ {KeepDays, MaxEntries, MaxToday, MaxTampers} \subseteq Nat /\ PurgeEvery \in Nat \ {0}

VARIABLES
    entries,  \* the rows of audit_log, by id
    lastId,   \* sqlite_sequence
    today,
    writing,  \* per thread, the entry it is about to write
    lastRun,  \* maintenance._last_run
    tampers   \* rows changed by whoever holds the file

auditVars == <<entries, lastId, today, writing, lastRun, tampers>>

Genesis == 0
NotYet == -1
Logged == DOMAIN entries
Entry == [at : 0..MaxToday, prev : 0..MaxEntries, edited : BOOLEAN]
Writing == [phase : {"idle", "timed", "due", "purged"}, at : 0..MaxToday]
NotWriting == [phase |-> "idle", at |-> 0]

AuditTypeOK ==
    /\ entries \in [Logged -> Entry] /\ Logged \subseteq 1..lastId
    /\ lastId \in 0..MaxEntries
    /\ today \in 0..MaxToday
    /\ writing \in [Writers -> Writing]
    /\ lastRun \in NotYet..MaxToday
    /\ tampers \in 0..MaxTampers

AuditInit ==
    /\ entries = [i \in {} |-> NotYet]
    /\ lastId = 0 /\ today = 0 /\ lastRun = NotYet /\ tampers = 0
    /\ writing = [w \in Writers |-> NotWriting]

(***************************************************************************)
(* record                                                                  *)
(***************************************************************************)
TakeTime(w) ==
    /\ writing[w].phase = (IF w = Retention THEN "purged" ELSE "idle")
    /\ lastId < MaxEntries
    /\ writing' = [writing EXCEPT ![w] = [phase |-> "timed", at |-> today]]
    /\ UNCHANGED <<entries, lastId, today, lastRun, tampers>>

\* ORDER BY created_at instead of id.
LastHash_ByTime ==
    CHOOSE i \in Logged \cup {Genesis} : \A j \in Logged :
        i # Genesis /\ (entries[j].at < entries[i].at \/ (entries[j].at = entries[i].at /\ j <= i))

\* ORDER BY id DESC LIMIT 1, or what the first of all entries follows.
LastHash == CHOOSE i \in Logged \cup {Genesis} : \A j \in Logged : j <= i

AppendEntry(w) ==
    /\ writing[w].phase = "timed"
    /\ \/ /\ lastId < MaxEntries
          /\ entries' = [i \in Logged \cup {lastId + 1} |->
                 IF i = lastId + 1 THEN [at |-> writing[w].at, prev |-> LastHash, edited |-> FALSE]
                 ELSE entries[i]]
          /\ lastId' = lastId + 1
       \* A write that fails is logged and changes nothing, nor does it raise.
       \/ UNCHANGED <<entries, lastId>>
    /\ writing' = [writing EXCEPT ![w] = NotWriting]
    /\ UNCHANGED <<today, lastRun, tampers>>

(***************************************************************************)
(* Retention                                                               *)
(***************************************************************************)
\* maybe_purge notes that it ran before it runs.
StartPurge ==
    /\ writing[Retention].phase = "idle"
    /\ lastRun = NotYet \/ today - lastRun >= PurgeEvery
    /\ lastRun' = today
    /\ writing' = [writing EXCEPT ![Retention].phase = "due"]
    /\ UNCHANGED <<entries, lastId, today, tampers>>

\* DELETE ... WHERE created_at < cutoff: by the time of an entry, not its id.
Only(ids) == [i \in ids |-> entries[i]]
Purged == Only({i \in Logged : entries[i].at >= today - KeepDays})

PurgeAudit ==
    /\ writing[Retention].phase = "due"
    /\ entries' = IF KeepDays = 0 THEN entries ELSE Purged
    /\ writing' = [writing EXCEPT ![Retention] =
                      IF entries' = entries THEN NotWriting ELSE [@ EXCEPT !.phase = "purged"]]
    /\ UNCHANGED <<lastId, today, lastRun, tampers>>

\* The database is locked for too long: logged, and tried the next day.
PurgeFails ==
    /\ writing[Retention].phase = "due"
    /\ writing' = [writing EXCEPT ![Retention] = NotWriting]
    /\ UNCHANGED <<entries, lastId, today, lastRun, tampers>>

(***************************************************************************)
(* The world                                                               *)
(***************************************************************************)
NextDay ==
    /\ today < MaxToday
    /\ today' = today + 1
    /\ UNCHANGED <<entries, lastId, writing, lastRun, tampers>>

\* Somebody with the file edits a row or takes one out.
Tamper ==
    /\ tampers < MaxTampers
    /\ \E i \in Logged :
           \/ entries' = [entries EXCEPT ![i].edited = TRUE]
           \/ entries' = Only(Logged \ {i})
    /\ tampers' = tampers + 1
    /\ UNCHANGED <<lastId, today, writing, lastRun>>

RestartAudit ==
    /\ lastRun # NotYet
    /\ writing' = [w \in Writers |-> NotWriting]
    /\ lastRun' = NotYet
    /\ UNCHANGED <<entries, lastId, today, tampers>>

AuditNext ==
    \/ \E w \in Writers : TakeTime(w) \/ AppendEntry(w)
    \/ StartPurge \/ PurgeAudit \/ PurgeFails \/ NextDay \/ Tamper \/ RestartAudit

AuditSpec == AuditInit /\ [][AuditNext]_auditVars

(***************************************************************************)
(* Properties                                                              *)
(***************************************************************************)
\* audit_log.verify: the rows that do not follow the one before them.
Breaks(i) ==
    \/ entries[i].edited
    \/ \E p \in Logged : p < i /\ (\A q \in Logged : q <= p \/ q >= i) /\ entries[i].prev # p
Broken == {i \in Logged : Breaks(i)}

\* What verify() reports is what happened to the file, and nothing else: a row
\* that is edited, or taken out between two others, shows at once (one taken
\* from either end does not), and the chain of an untouched log breaks only
\* when retention removes entries that stand in it in another order than
\* their times (record takes the time before the lock) - not through writers
\* that overtake one another, writes that fail, restarts or a log emptied.
InOrder == \A i, j \in Logged : i < j => entries[i].at <= entries[j].at
AtAnEnd(i) == (\A j \in Logged : i <= j) \/ (\A j \in Logged : j <= i)

ChainTells ==
    [][/\ (Tamper /\ Broken' = {}) => \E i \in Logged : AtAnEnd(i) /\ entries' = Only(Logged \ {i})
       /\ (Broken = {} /\ Broken' # {}) => (Tamper \/ (PurgeAudit /\ ~InOrder))]_auditVars
=============================================================================
