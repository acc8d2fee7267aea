---------------------------- MODULE PortfolioWatch ----------------------------
(***************************************************************************)
(* Looking up the domains of the portfolio (domain_portfolio.py): what the *)
(* registry says of each is stored, compared with what was stored before   *)
(* by the decision taken about it, and changes and a nearing end of a term *)
(* are told.  The scheduler reads all rows at the start of a run and looks *)
(* them up one by one; a person looks one up at any moment; decisions,     *)
(* removals and imports come in between.  What is measured of the use of a *)
(* domain, and messages about its DNS and its registrar, are left out.     *)
(***************************************************************************)
EXTENDS Integers, FiniteSets

CONSTANTS
    Watched,    \* domains
    Decisions,  \* lifecycle: of keep, review, cancel and claim
    RegistryPhases,     \* what a registry says: registered, quarantine, not_registered
    WarnDays,   \* EXPIRY_WARN_DAYS
    Terms,      \* days on which a registration may end
    MaxDay,     \* bound: time
    MaxRows     \* bound: times a domain is added

ASSUME WatchConstants ==
    /\ "keep" \in Decisions /\ Decisions \subseteq {"keep", "review", "cancel", "claim"}
    /\ {"registered", "not_registered"} \subseteq RegistryPhases
    /\ WarnDays \subseteq Nat \ {0} /\ Terms \subseteq Nat \ {0}
    /\ {MaxDay, MaxRows} \subseteq Nat /\ Watched # {}

VARIABLES
    rows,      \* per domain, its row
    registry,  \* per domain, what is so
    looking,   \* per caller, the check it is at
    calendar,
    logged,    \* history: per domain, the phase its change log ends with
    believed,  \* history: per domain, the phase its last message told of
    unlogged,  \* history: domains a change of which was stored, and not logged
    untold,    \* history: domains a change of which was stored, and no message of it sent
    warnings,  \* history: per domain, the warnings decided on for each end of term
    blurred    \* history: domains two checks of which overlapped, or of which an answer left the date out

toldVars == <<logged, believed, unlogged, untold>>
watchVars == <<rows, registry, looking, calendar, toldVars, warnings, blurred>>

Lookers == {"scheduler", "button"}
Undated == 0
NotChecked == -1

DomainRow == [in : BOOLEAN, id : 0..MaxRows, decision : Decisions,
              phase : RegistryPhases \cup {"unmeasured"}, expires : Terms \cup {Undated}, warned : WarnDays \cup {Undated}, failed : BOOLEAN, checked : NotChecked..MaxDay]
NoDomain == [in |-> FALSE, id |-> 0, decision |-> "keep", phase |-> "unmeasured", expires |-> Undated, warned |-> Undated,
             failed |-> FALSE, checked |-> NotChecked]
Registration == [phase : RegistryPhases, expires : Terms]
RegistryAnswer == [phase : RegistryPhases \cup {"none"}, expires : Terms \cup {Undated}]
NoAnswer == [phase |-> "none", expires |-> Undated]
\* rows: as they were read; late: history, what another stored since.
Steps == {"idle", "run", "lookup", "answered", "stored", "logged"}
Looking == [step : Steps, todo : SUBSET Watched, domain : Watched,
            rows : [Watched -> DomainRow], answer : RegistryAnswer, late : SUBSET Watched]
NotLooking == [step |-> "idle", todo |-> {}, domain |-> CHOOSE d \in Watched : TRUE,
               rows |-> [d \in Watched |-> NoDomain], answer |-> NoAnswer, late |-> {}]

WatchTypeOK ==
    /\ rows \in [Watched -> DomainRow]
    /\ registry \in [Watched -> Registration]
    /\ \A c \in Lookers : /\ looking[c].step \in Steps
                          /\ looking[c].todo \subseteq Watched /\ looking[c].domain \in Watched
                          /\ \A d \in Watched : looking[c].rows[d] \in DomainRow
                          /\ looking[c].answer \in RegistryAnswer /\ looking[c].late \subseteq Watched
    /\ calendar \in 0..MaxDay
    /\ logged \in [Watched -> RegistryPhases \cup {"unmeasured"}]
    /\ believed \in [Watched -> RegistryPhases \cup {"unmeasured"}]
    /\ unlogged \subseteq Watched /\ untold \subseteq Watched
    /\ warnings \in [Watched -> SUBSET (Terms \X WarnDays \X {1, 2})]
    /\ blurred \subseteq Watched

WatchInit ==
    /\ rows = [d \in Watched |-> NoDomain]
    /\ registry \in [Watched -> Registration]
    /\ looking = [c \in Lookers |-> NotLooking]
    /\ calendar = 0
    /\ logged = [d \in Watched |-> "unmeasured"] /\ unlogged = {}
    /\ believed = [d \in Watched |-> "unmeasured"] /\ untold = {}
    /\ warnings = [d \in Watched |-> {}]
    /\ blurred = {}

InPortfolio(d) == rows[d].in
Held(row) == row.decision \notin {"cancel", "claim"}

\* db._lock, which whoever writes to the database holds: a check does from
\* its update of the row until its changes are logged.
Unlocked == \A c \in Lookers : looking[c].step # "stored"

(***************************************************************************)
(* What is so (a term is renewed, never shortened), and what is decided    *)
(***************************************************************************)
RegistryChanges(d) ==
    /\ \E r \in Registration \ {registry[d]} :
          /\ r.expires >= registry[d].expires
          /\ registry[d].phase = "not_registered" => r.expires > registry[d].expires
          /\ registry' = [registry EXCEPT ![d] = r]
    /\ UNCHANGED <<rows, looking, calendar, toldVars, warnings, blurred>>

DayBegins ==
    /\ calendar < MaxDay
    /\ calendar' = calendar + 1
    /\ UNCHANGED <<rows, registry, looking, toldVars, warnings, blurred>>

\* import_domains and add_wanted give a domain that is new its decision.
AddDomain(d) ==
    /\ Unlocked /\ ~InPortfolio(d) /\ rows[d].id < MaxRows
    /\ \E decision \in Decisions :
          rows' = [rows EXCEPT ![d] = [NoDomain EXCEPT !.in = TRUE, !.id = rows[d].id + 1, !.decision = decision]]
    /\ warnings' = [warnings EXCEPT ![d] = {}]
    /\ UNCHANGED <<registry, looking, calendar, toldVars, blurred>>

SetLifecycle(d) ==
    /\ Unlocked /\ InPortfolio(d)
    /\ \E decision \in Decisions \ {rows[d].decision} : rows' = [rows EXCEPT ![d].decision = decision]
    /\ UNCHANGED <<registry, looking, calendar, toldVars, warnings, blurred>>

RemoveDomain(d) ==
    /\ Unlocked /\ InPortfolio(d)
    /\ rows' = [rows EXCEPT ![d] = [NoDomain EXCEPT !.id = rows[d].id]]
    /\ UNCHANGED <<registry, looking, calendar, toldVars, warnings, blurred>>

(***************************************************************************)
(* A check                                                                 *)
(***************************************************************************)
DaysLeft(d) == d - calendar
Near(row) == row.expires # Undated /\ \E t \in WarnDays : DaysLeft(row.expires) <= t

\* is_due, in days: more than once in one when it failed, is being released
\* or nears its end.
IsDue(row) ==
    /\ row.in
    /\ \/ row.checked < calendar
       \/ row.failed \/ row.phase \in {"quarantine", "unmeasured"} \/ row.decision = "claim" \/ Near(row)

\* What a check uses of the row it was given.
Used(row) == [row EXCEPT !.failed = FALSE, !.checked = NotChecked]

\* maybe_run: all rows, once, and the names of those that are due.
BeginLookups ==
    /\ looking["scheduler"].step = "idle"
    /\ \E d \in Watched : IsDue(rows[d])
    /\ looking' = [looking EXCEPT !["scheduler"] =
                      [NotLooking EXCEPT !.step = "run", !.todo = {d \in Watched : IsDue(rows[d])},
                                         !.rows = [d \in Watched |-> Used(rows[d])]]]
    /\ UNCHANGED <<rows, registry, calendar, toldVars, warnings, blurred>>

Lookup(c, d, row, todo) ==
    /\ looking' = [looking EXCEPT ![c] = [@ EXCEPT !.step = "lookup", !.domain = d, !.rows = row, !.todo = todo]]
    /\ UNCHANGED <<rows, registry, calendar, toldVars, warnings, blurred>>

NextOfRun ==
    LET run == looking["scheduler"] IN
    /\ run.step = "run"
    /\ IF run.todo = {}
       THEN /\ looking' = [looking EXCEPT !["scheduler"] = NotLooking]
            /\ UNCHANGED <<rows, registry, calendar, toldVars, warnings, blurred>>
       ELSE \E d \in run.todo : Lookup("scheduler", d, run.rows, run.todo \ {d})

\* api_portfolio_check: its own row, read now.
Press(d) ==
    /\ looking["button"].step = "idle" /\ InPortfolio(d)
    /\ Lookup("button", d, [NotLooking.rows EXCEPT ![d] = Used(rows[d])], {})

\* _answer: nothing is known of a lookup that could not be made.
AnswerOf(c, answered) ==
    LET r == registry[looking[c].domain] IN
    IF ~answered THEN NoAnswer
    ELSE [phase |-> r.phase, expires |-> IF r.phase = "not_registered" THEN Undated ELSE r.expires]

\* whois_batch.lookup_paced, for seconds; some answers leave the date out.
AnswerComes(c) ==
    /\ looking[c].step = "lookup"
    /\ \E answered, dated \in BOOLEAN :
          LET a == AnswerOf(c, answered) IN
          /\ dated \/ a.expires # Undated
          /\ looking' = [looking EXCEPT ![c].step = "answered",
                                        ![c].answer = IF dated THEN a ELSE [a EXCEPT !.expires = Undated]]
    /\ UNCHANGED <<rows, registry, calendar, toldVars, warnings, blurred>>

\* The thresholds of this end of term that are crossed and were not told.
Crossed_EachDay(row, a) ==
    IF a.expires = Undated THEN {} ELSE {t \in WarnDays : DaysLeft(a.expires) <= t}

Crossed(row, a) ==
    LET warned == IF row.expires = a.expires THEN row.warned ELSE Undated
    IN  IF a.expires = Undated THEN {}
        ELSE {t \in WarnDays : DaysLeft(a.expires) <= t /\ (warned = Undated \/ t < warned)}

Least(s) == CHOOSE t \in s : \A u \in s : t <= u

NewPhase_NotOfCancelled(row, phase) ==
    row.phase \notin {"unmeasured", phase} /\ row.decision # "cancel"

\* _changes, _changes_cancelled, _changes_wanted: each tells of a new phase in
\* its own way; the first answer of a row is its baseline.
NewPhase(row, phase) == row.phase \notin {"unmeasured", phase}

Warned(d, row, a) ==
    IF Held(row) /\ Crossed(row, a) # {}
    THEN LET t == Least(Crossed(row, a))
             times == IF <<a.expires, t, 1>> \in warnings[d] THEN 2 ELSE 1
         IN  warnings' = [warnings EXCEPT ![d] = @ \cup {<<a.expires, t, times>>}]
    ELSE UNCHANGED warnings

Baseline(d, row, phase) ==
    IF row.phase = "unmeasured"
    THEN /\ logged' = [logged EXCEPT ![d] = phase] /\ unlogged' = unlogged \ {d}
         /\ believed' = [believed EXCEPT ![d] = phase] /\ untold' = untold \ {d}
    ELSE UNCHANGED toldVars

Ended(c) == IF c = "button" THEN NotLooking ELSE [looking[c] EXCEPT !.step = "run", !.answer = NoAnswer]

\* A change of d is stored, and is still to be logged, or told in a message.
ToLog(d) == \E c \in Lookers : looking[c].step = "stored" /\ looking[c].domain = d
ToSend(d) == \E c \in Lookers : looking[c].step \in {"stored", "logged"} /\ looking[c].domain = d

\* The answer is compared with the row as it was read, and written to the row
\* of that id if it is still there, with the warning.  A failed lookup keeps
\* the last answer.
Store(c) ==
    LET d == looking[c].domain  row == looking[c].rows[d]  a == looking[c].answer
        here == rows[d].in /\ rows[d].id = row.id
        crossed == IF Held(row) THEN Crossed(row, a) ELSE {}
        warned == IF crossed # {} THEN Least(crossed) ELSE IF row.expires = a.expires THEN row.warned ELSE Undated
    IN
    /\ Unlocked /\ looking[c].step = "answered"
    /\ IF a = NoAnswer
       THEN /\ rows' = IF here THEN [rows EXCEPT ![d].failed = TRUE, ![d].checked = calendar] ELSE rows
            /\ looking' = [looking EXCEPT ![c] = Ended(c)]
            /\ UNCHANGED <<toldVars, warnings, blurred>>
       ELSE /\ rows' = IF here THEN [rows EXCEPT ![d] = [@ EXCEPT !.phase = a.phase, !.expires = a.expires,
                                                     !.warned = warned, !.failed = FALSE, !.checked = calendar]] ELSE rows
            /\ Baseline(d, row, a.phase) /\ Warned(d, row, a)
            /\ blurred' = IF ~here \/ d \in looking[c].late \/ ToSend(d) \/ (a.expires = Undated /\ a.phase # "not_registered")
                          THEN blurred \cup {d} ELSE blurred
            /\ looking' = [b \in Lookers |-> IF b = c THEN IF NewPhase(row, a.phase) THEN [looking[c] EXCEPT !.step = "stored"]
                                                          ELSE Ended(c)
                                             ELSE IF looking[b].step = "idle" THEN looking[b]
                                             ELSE [looking[b] EXCEPT !.late = @ \cup {d}]]
    /\ UNCHANGED <<registry, calendar>>

\* _record: the change log, written after the row and not with it.
LogChange(c) ==
    LET d == looking[c].domain IN
    /\ looking[c].step = "stored"
    /\ logged' = [logged EXCEPT ![d] = looking[c].answer.phase] /\ unlogged' = unlogged \ {d}
    /\ looking' = [looking EXCEPT ![c].step = "logged"]
    /\ UNCHANGED <<rows, registry, calendar, believed, untold, warnings, blurred>>

\* _notify, when the use of the domain has been measured and stored: a
\* message that cannot be sent is given up.
Notify(c) ==
    LET d == looking[c].domain IN
    /\ looking[c].step = "logged"
    /\ \/ believed' = [believed EXCEPT ![d] = looking[c].answer.phase] /\ untold' = untold \ {d}
       \/ untold' = untold \cup {d} /\ UNCHANGED believed
    /\ looking' = [looking EXCEPT ![c] = Ended(c)]
    /\ UNCHANGED <<rows, registry, calendar, logged, unlogged, warnings, blurred>>

\* A step of the check raises: the request fails, and a run goes on with the
\* next domain.
CheckFails(c) ==
    LET d == looking[c].domain  step == looking[c].step IN
    /\ step \notin {"idle", "run"}
    /\ unlogged' = IF step = "stored" THEN unlogged \cup {d} ELSE unlogged
    /\ untold' = IF step \in {"stored", "logged"} THEN untold \cup {d} ELSE untold
    /\ looking' = [looking EXCEPT ![c] = Ended(c)]
    /\ UNCHANGED <<rows, registry, calendar, logged, believed, warnings, blurred>>

ProgramEnds ==
    /\ looking' = [c \in Lookers |-> NotLooking]
    /\ unlogged' = unlogged \cup {d \in Watched : ToLog(d)}
    /\ untold' = untold \cup {d \in Watched : ToSend(d)}
    /\ UNCHANGED <<rows, registry, calendar, logged, believed, warnings, blurred>>

WatchNext ==
    \/ \E d \in Watched : RegistryChanges(d) \/ AddDomain(d) \/ SetLifecycle(d) \/ RemoveDomain(d) \/ Press(d)
    \/ \E c \in Lookers : AnswerComes(c) \/ Store(c) \/ LogChange(c) \/ Notify(c) \/ CheckFails(c)
    \/ BeginLookups \/ NextOfRun \/ DayBegins \/ ProgramEnds

WatchSpec == WatchInit /\ [][WatchNext]_watchVars
(***************************************************************************)
(* Properties                                                              *)
(***************************************************************************)
\* The change log of a domain ends with the phase that is stored of it, and
\* so does the last message: no change is stored in silence by a lookup that
\* failed, a decision that changed, or a row looked up long after it was read
\* (domain_portfolio.py check, maybe_run).  Excepted are a change just stored
\* whose check is still at it, and those the code may lose, until the next
\* change: the row, its log entry and its message are three steps, and the
\* check may fail or the program end between them; a message that could not
\* be sent is not sent again; and of two checks that overlap one compares
\* with a row the other has replaced, or is told of last and was stored first.
ToldIsStored ==
    \A d \in Watched : rows[d].phase # "unmeasured" /\ d \notin blurred =>
        /\ logged[d] = rows[d].phase \/ d \in unlogged \/ ToLog(d)
        /\ believed[d] = rows[d].phase \/ d \in untold \/ ToSend(d)

\* "One notification at each threshold per term", whatever is decided,
\* renewed, released or lost in between; overlapping checks, and an answer
\* without the date, excepted (domain_portfolio.py _expiry_warning).  The row
\* remembers a warning before it is sent: one that cannot be sent is not told.
WarnedOncePerTerm ==
    \A d \in Watched \ blurred : \A w \in warnings[d] : w[3] = 1
=============================================================================
