--------------------------- MODULE RiskAcceptance ---------------------------
(***************************************************************************)
(* Accepted risks (risk_acceptance.py): a finding on a domain that does    *)
(* not count until a date, and the rows kept in memory for everyone who    *)
(* generates findings.  A writer commits first and empties the memory      *)
(* after; a reader that found it empty queries first and fills it after.   *)
(***************************************************************************)
EXTENDS Integers, FiniteSets

CONSTANTS
    Readers,         \* threads that mark findings
    Deciders,        \* threads that accept or revoke
    Hosts,           \* scanned names
    Apex,            \* the zone some of them are in
    Keys,            \* conditions: recommendations._condition_key
    ZoneKeys,        \* those of e-mail, DNS and WHOIS
    MaxDuration,     \* MAX_DAYS
    MaxAcceptances,  \* bound: rows
    MaxDate          \* bound: days

ASSUME RiskConstants ==
    /\ Apex \in Hosts /\ ZoneKeys \subseteq Keys
    /\ {MaxDuration, MaxAcceptances, MaxDate} \subseteq Nat

VARIABLES
    exceptions,  \* finding_exceptions, by id
    memory,      \* _active_cache
    reading,     \* per reader, what it has read so far
    deciding,    \* deciders that committed and did not empty the memory yet
    date

riskVars == <<exceptions, memory, reading, deciding, date>>

NoDate == -1
Acceptance == [host : Hosts, key : Keys, expires : 0..(MaxDate + MaxDuration), revoked : BOOLEAN]
Memory == [day : NoDate..MaxDate, rows : SUBSET (1..MaxAcceptances), past : BOOLEAN]
\* past: history, a decision was committed since the rows were queried.
Reading == [phase : {"idle", "empty", "queried"}, day : 0..MaxDate, rows : SUBSET (1..MaxAcceptances),
            past : BOOLEAN]
NotReading == [phase |-> "idle", day |-> 0, rows |-> {}, past |-> FALSE]

RiskTypeOK ==
    /\ DOMAIN exceptions \in {1..n : n \in 0..MaxAcceptances}
    /\ \A i \in DOMAIN exceptions : exceptions[i] \in Acceptance
    /\ memory \in Memory
    /\ reading \in [Readers -> Reading]
    /\ deciding \subseteq Deciders
    /\ date \in 0..MaxDate

RiskInit ==
    /\ exceptions = [i \in {} |-> 0]
    /\ memory = [day |-> NoDate, rows |-> {}, past |-> FALSE]
    /\ reading = [r \in Readers |-> NotReading]
    /\ deciding = {} /\ date = 0

(***************************************************************************)
(* Accepting and revoking                                                  *)
(***************************************************************************)
Overtaken == [r \in Readers |-> [reading[r] EXCEPT !.past = reading[r].phase = "queried"]]

\* check_terms: not in the past, and a year at most.
Accept(d) ==
    /\ d \notin deciding
    /\ Cardinality(DOMAIN exceptions) < MaxAcceptances
    /\ \E h \in Hosts, k \in Keys, e \in date..(date + MaxDuration) :
           LET n == Cardinality(DOMAIN exceptions) + 1 IN
           exceptions' = [i \in 1..n |-> IF i = n THEN [host |-> h, key |-> k, expires |-> e, revoked |-> FALSE]
                                         ELSE exceptions[i]]
    /\ deciding' = deciding \cup {d}
    /\ reading' = Overtaken
    /\ UNCHANGED <<memory, date>>

\* A second revocation touches no row, and empties the memory all the same.
Revoke(d, i) ==
    /\ d \notin deciding
    /\ exceptions' = [exceptions EXCEPT ![i].revoked = TRUE]
    /\ deciding' = deciding \cup {d}
    /\ reading' = Overtaken
    /\ UNCHANGED <<memory, date>>

Invalidate_Skipped(d) ==
    /\ d \in deciding
    /\ deciding' = deciding \ {d}
    /\ UNCHANGED <<exceptions, memory, reading, date>>

Invalidate(d) ==
    /\ d \in deciding
    /\ memory' = [memory EXCEPT !.day = NoDate]
    /\ deciding' = deciding \ {d}
    /\ UNCHANGED <<exceptions, reading, date>>

(***************************************************************************)
(* Reading: _all_active                                                    *)
(***************************************************************************)
\* WHERE revoked_at IS NULL AND expires_on >= day
Active(day) == {i \in DOMAIN exceptions : ~exceptions[i].revoked /\ exceptions[i].expires >= day}

\* The day is part of what the rows are kept under; a hit reads no further.
LookUp(r) ==
    /\ reading[r].phase = "idle"
    /\ memory.day # date
    /\ reading' = [reading EXCEPT ![r] = [NotReading EXCEPT !.phase = "empty", !.day = date]]
    /\ UNCHANGED <<exceptions, memory, deciding, date>>

Query(r) ==
    /\ reading[r].phase = "empty"
    /\ reading' = [reading EXCEPT ![r].phase = "queried", ![r].rows = Active(reading[r].day)]
    /\ UNCHANGED <<exceptions, memory, deciding, date>>

Keep(r) ==
    /\ reading[r].phase = "queried"
    /\ memory' = [day |-> reading[r].day, rows |-> reading[r].rows, past |-> reading[r].past]
    /\ reading' = [reading EXCEPT ![r] = NotReading]
    /\ UNCHANGED <<exceptions, deciding, date>>

NextDate ==
    /\ date < MaxDate
    /\ date' = date + 1
    /\ UNCHANGED <<exceptions, memory, reading, deciding>>

\* apply(): the host's own acceptances, and those of the apex for what
\* describes the zone, by the rows in memory.
Covers(i, h, k) ==
    /\ exceptions[i].key = k
    /\ exceptions[i].host = h \/ (exceptions[i].host = Apex /\ k \in ZoneKeys)

Accepted(h, k) == \E i \in memory.rows : Covers(i, h, k)

RiskNext ==
    \/ \E d \in Deciders : Accept(d) \/ Invalidate(d) \/ \E i \in DOMAIN exceptions : Revoke(d, i)
    \/ \E r \in Readers : LookUp(r) \/ Query(r) \/ Keep(r)
    \/ NextDate

RiskSpec == RiskInit /\ [][RiskNext]_riskVars

(***************************************************************************)
(* Properties                                                              *)
(***************************************************************************)
\* While nobody is between a decision and emptying the memory, a finding is
\* marked accepted exactly when a decision that holds today says so: it counts
\* again from the day after its expiry and from the moment it is revoked.  The
\* exception is a reader that queried before a decision and fills the memory
\* after it (risk_acceptance._all_active), until the next decision or day.
AcceptedIsDecided ==
    (deciding = {} /\ memory.day = date /\ ~memory.past) =>
        \A h \in Hosts, k \in Keys :
            Accepted(h, k) <=> \E i \in Active(date) : Covers(i, h, k)
=============================================================================
