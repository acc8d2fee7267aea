--------------------------- MODULE MonitoringProof ---------------------------
(***************************************************************************)
(* What is proved of the monitors and of the portfolio, for every number   *)
(* of domains, workers and CVEs: what is told is what is stored, nothing   *)
(* is told twice, and no purge takes away what a monitor compares with.    *)
(***************************************************************************)
EXTENDS CveAlerts, PortfolioWatch, DataLemmas

(***************************************************************************)
(* Part I.  PortfolioWatch: the inductive invariant.                       *)
(***************************************************************************)
Underway == {"lookup", "answered"}

\* The domains whose rows a check still uses as it read them.
Pins(l) == l.todo \cup (IF l.step \in Underway THEN {l.domain} ELSE {})

\* The row is still the one that was read, and nothing was stored to it since.
Same(l, d) == rows[d].in /\ rows[d].id = l.rows[d].id /\ d \notin l.late

SameRegistration(r, s) == r.phase = s.phase /\ r.expires = s.expires /\ r.warned = s.warned

PinnedIn(l) ==
    \A d \in Pins(l) :
        /\ l.rows[d].in /\ l.rows[d].id <= rows[d].id
        /\ Same(l, d) => SameRegistration(l.rows[d], rows[d])

\* A warning is of a term that is over, or of the one the row has, which
\* remembers it or one nearer to the end.
OfTerm(w, row, r) ==
    /\ w[1] <= r.expires
    /\ \/ w[1] < r.expires
       \/ r.phase = "not_registered"
       \/ row.expires = w[1] /\ row.warned # Undated /\ row.warned <= w[2]

TermsKept ==
    \A d \in Watched \ blurred :
        rows[d].in => \A w \in warnings[d] : OfTerm(w, rows[d], registry[d])

\* What an answer says against the warnings there are.
AfterAnswer(w, row, a, r) ==
    IF a.expires # Undated
    THEN w[1] < a.expires \/ (row.expires = a.expires /\ row.warned # Undated /\ row.warned <= w[2] /\ w[1] = a.expires)
    ELSE a.phase = "not_registered" => w[1] < r.expires \/ r.phase = "not_registered"

Answered(l) ==
    /\ l.answer = NoAnswer \/ l.answer.phase \in RegistryPhases
    /\ l.answer.expires <= registry[l.domain].expires
    /\ (Same(l, l.domain) /\ l.domain \notin blurred)
           => \A w \in warnings[l.domain] : AfterAnswer(w, rows[l.domain], l.answer, registry[l.domain])

\* A domain that is looked up does not wait any more.
Sound(l) ==
    /\ PinnedIn(l)
    /\ l.step \in Underway => l.domain \notin l.todo
    /\ l.step = "idle" => l.todo = {}
    /\ l.step = "answered" => Answered(l)

ChecksSound == \A c \in Lookers : \A l \in Looking : l = looking[c] => Sound(l)

WatchTyped ==
    /\ rows \in [Watched -> DomainRow]
    /\ registry \in [Watched -> Registration]
    /\ looking \in [Lookers -> Looking]
    /\ calendar \in 0..MaxDay
    /\ logged \in [Watched -> RegistryPhases \cup {"unmeasured"}]
    /\ believed \in [Watched -> RegistryPhases \cup {"unmeasured"}]
    /\ unlogged \subseteq Watched /\ untold \subseteq Watched
    /\ warnings \in [Watched -> SUBSET (Terms \X WarnDays \X {1, 2})]
    /\ blurred \subseteq Watched

\* What a check is about to tell of a domain is what it has stored of it.
Telling == {"stored", "logged"}
TellsIn(l) ==
    l.step \in Telling =>
        /\ l.answer.phase \in RegistryPhases
        /\ l.domain \notin blurred /\ rows[l.domain].phase # "unmeasured" => rows[l.domain].phase = l.answer.phase

TellsStored == \A c \in Lookers : TellsIn(looking[c])

WatchInv ==
    WatchTyped /\ ChecksSound /\ TellsStored /\ TermsKept /\ ToldIsStored /\ WarnedOncePerTerm

USE DEF Steps, toldVars

(***************************************************************************)
(* Rows, answers and thresholds.                                           *)
(***************************************************************************)
\* The constants, as the steps use them.
LEMMA WatchNumbers ==
    /\ MaxDay \in Nat /\ MaxRows \in Nat /\ "keep" \in Decisions /\ Watched # {}
    /\ \A t \in Terms : t \in Nat /\ t # Undated
    /\ \A t \in WarnDays : t \in Nat /\ t # Undated
BY WatchConstants DEF Undated

\* The values before the first check are of their types.
LEMMA WatchBlanks == NoDomain \in DomainRow /\ NoAnswer \in RegistryAnswer
BY WatchNumbers DEF NoDomain, DomainRow, NoAnswer, RegistryAnswer, NotChecked, Undated

LEMMA NotLookingTyped == NotLooking \in Looking
<1>1. (CHOOSE o \in Watched : TRUE) \in Watched
  BY WatchNumbers
<1>2. [o \in Watched |-> NoDomain] \in [Watched -> DomainRow]
  BY WatchBlanks
<1>3. QED
  BY <1>1, <1>2, WatchBlanks DEF NotLooking, Looking

\* The nearest of the thresholds that are crossed.
LEMMA LeastOf == ASSUME NEW S \in SUBSET WarnDays, S # {} PROVE Least(S) \in S /\ \A u \in S : Least(S) <= u
<1>1. S \subseteq Nat
  BY WatchNumbers
<1>2. \E t \in S : \A u \in S : t <= u
  BY <1>1, LeastNumber
<1>3. QED
  BY <1>2, Zenon DEF Least

\* A threshold is crossed of a term that is known, below what was told of it.
LEMMA CrossedIs ==
    ASSUME NEW row, NEW a, NEW t \in Crossed(row, a)
    PROVE  /\ t \in WarnDays /\ a.expires # Undated
           /\ row.expires = a.expires => row.warned = Undated \/ t < row.warned
BY DEF Crossed

LEMMA CrossedTyped == ASSUME NEW row, NEW a PROVE Crossed(row, a) \subseteq WarnDays
BY DEF Crossed

(***************************************************************************)
(* The steps.                                                              *)
(***************************************************************************)
LEMMA WatchBegins == ASSUME WatchInit PROVE WatchInv
<1> USE DEF WatchInit
<1>1. WatchTyped
  <2>1. looking \in [Lookers -> Looking]
    BY NotLookingTyped
  <2>2. QED
    BY <2>1, WatchBlanks, WatchNumbers DEF WatchTyped
<1>2. \A c \in Lookers : Pins(looking[c]) = {} /\ looking[c].step = "idle" /\ looking[c].todo = {}
  BY DEF NotLooking, Pins, Underway
<1>3. \A d \in Watched : ~rows[d].in /\ rows[d].phase = "unmeasured" /\ warnings[d] = {}
  BY DEF NoDomain
<1>4. ChecksSound
  BY <1>2, Zenon DEF ChecksSound, Sound, PinnedIn, Underway
<1>5. TermsKept /\ ToldIsStored /\ WarnedOncePerTerm /\ TellsStored
  BY <1>2, <1>3 DEF TermsKept, ToldIsStored, WarnedOncePerTerm, TellsStored, TellsIn, Telling
<1>6. QED
  BY <1>1, <1>4, <1>5 DEF WatchInv

\* A domain that a check is at is one whose row it uses.
LEMMA PinsWatched ==
    ASSUME NEW l \in Looking
    PROVE  /\ Pins(l) \subseteq Watched
           /\ l.step \in Underway => l.domain \in Pins(l)
BY DEF Looking, Pins

\* What is told stays what is stored: no row has a new phase, and no check
\* begins to tell of one or ends telling of one.
LEMMA StaysTold ==
    ASSUME WatchInv, UNCHANGED <<toldVars, blurred>>,
           \A e \in Watched : rows'[e].phase = rows[e].phase \/ rows'[e].phase = "unmeasured",
           \A c \in Lookers : looking'[c] = looking[c] \/ (looking[c].step \notin Telling /\ looking'[c].step \notin Telling)
    PROVE  ToldIsStored' /\ TellsStored'
<1>1. UNCHANGED <<logged, believed, unlogged, untold, blurred>>
  BY DEF toldVars
<1>2. ASSUME NEW e \in Watched PROVE (ToLog(e) => ToLog(e)') /\ (ToSend(e) => ToSend(e)')
  BY DEF ToLog, ToSend, Telling
<1>3. ToldIsStored'
  <2>1. SUFFICES ASSUME NEW e \in Watched, rows'[e].phase # "unmeasured", e \notin blurred'
                 PROVE  /\ logged'[e] = rows'[e].phase \/ e \in unlogged' \/ ToLog(e)'
                        /\ believed'[e] = rows'[e].phase \/ e \in untold' \/ ToSend(e)'
    BY DEF ToldIsStored
  <2>2. rows'[e].phase = rows[e].phase
    BY <2>1
  <2>3. QED
    BY <1>1, <1>2, <2>1, <2>2 DEF WatchInv, ToldIsStored
<1>4. ASSUME NEW c \in Lookers PROVE TellsIn(looking[c])'
  <2>1. CASE looking'[c] = looking[c]
    <3>1. looking[c].domain \in Watched /\ TellsIn(looking[c])
      BY DEF WatchInv, WatchTyped, Looking, TellsStored
    <3>2. QED
      BY <1>1, <2>1, <3>1 DEF TellsIn
  <2>2. CASE looking'[c].step \notin Telling
    BY <2>2 DEF TellsIn
  <2>3. QED
    BY <2>1, <2>2
<1>5. QED
  BY <1>3, <1>4 DEF TellsStored

\* No check takes a row for the one it read when it is not.
LEMMA ChecksKeep ==
    ASSUME WatchInv, NEW l \in Looking, Sound(l),
           rows' \in [Watched -> DomainRow], registry' \in [Watched -> Registration],
           warnings' \in [Watched -> SUBSET (Terms \X WarnDays \X {1, 2})], blurred \subseteq blurred',
           \A d \in Pins(l) :
               Same(l, d)' => /\ Same(l, d) /\ SameRegistration(rows'[d], rows[d])
                              /\ warnings'[d] \subseteq warnings[d],
           \A d \in Watched :
               /\ rows[d].id <= rows'[d].id
               /\ registry[d].expires <= registry'[d].expires
               /\ \/ registry[d].phase # "not_registered" \/ registry'[d].phase = "not_registered"
                  \/ registry[d].expires < registry'[d].expires
    PROVE  Sound(l)'
<1>1. /\ Pins(l)' = Pins(l) /\ Pins(l) \subseteq Watched
      /\ l.step \in Underway => l.domain \in Pins(l)
  BY PinsWatched DEF Pins
<1>2. \A d \in Watched : l.rows[d].id \in Int /\ rows[d].id \in Int /\ rows'[d].id \in Int
  BY WatchNumbers DEF Looking, WatchInv, WatchTyped, DomainRow
<1>3. PinnedIn(l)'
  <2>1. SUFFICES ASSUME NEW d \in Pins(l)
                 PROVE  /\ l.rows[d].in /\ l.rows[d].id <= rows'[d].id
                        /\ Same(l, d)' => SameRegistration(l.rows[d], rows'[d])
    BY <1>1 DEF PinnedIn, SameRegistration
  <2>2. d \in Watched /\ l.rows[d].in /\ l.rows[d].id <= rows[d].id /\ (Same(l, d) => SameRegistration(l.rows[d], rows[d]))
    BY <1>1 DEF Sound, PinnedIn
  <2>3. QED
    BY <1>2, <2>2 DEF SameRegistration
<1>4. ASSUME l.step = "answered" PROVE Answered(l)'
  <2> DEFINE d == l.domain  a == l.answer
  <2>1. d \in Watched /\ d \in Pins(l) /\ Answered(l)
    BY <1>1, <1>4 DEF Sound, Underway
  <2>2. a.expires \in Int /\ registry[d].expires \in Int /\ registry'[d].expires \in Int
    BY <2>1, WatchNumbers DEF Looking, RegistryAnswer, Registration, WatchInv, WatchTyped, Undated
  <2>3. a.expires <= registry'[d].expires
    BY <2>1, <2>2 DEF Answered
  <2>4. ASSUME Same(l, d)', d \notin blurred', NEW w \in warnings'[d]
        PROVE  AfterAnswer(w, rows'[d], a, registry'[d])
    <3>1. w \in warnings[d] /\ Same(l, d) /\ SameRegistration(rows'[d], rows[d]) /\ d \notin blurred
      BY <2>1, <2>4
    <3>2. AfterAnswer(w, rows[d], a, registry[d])
      BY <2>1, <3>1 DEF Answered
    <3>3. w[1] <= registry[d].expires /\ w[1] \in Int
      BY <2>1, <3>1, WatchNumbers DEF WatchInv, WatchTyped, TermsKept, OfTerm, Same
    <3>4. QED
      BY <2>1, <2>2, <3>1, <3>2, <3>3 DEF AfterAnswer, SameRegistration
  <2>5. a = NoAnswer \/ a.phase \in RegistryPhases
    BY <2>1 DEF Answered
  <2>6. QED
    BY <2>3, <2>4, <2>5 DEF Answered
<1>5. QED
  BY <1>3, <1>4 DEF Sound

\* A row that a person changes: no check takes its new registration for the one it read.
LEMMA RowChanges ==
    ASSUME WatchInv, NEW d \in Watched, NEW new \in DomainRow,
           rows' = [rows EXCEPT ![d] = new], UNCHANGED <<registry, looking, calendar, toldVars, blurred>>,
           warnings' = warnings \/ warnings' = [warnings EXCEPT ![d] = {}],
           rows[d].id <= new.id,
           \/ ~new.in
           \/ new.id # rows[d].id /\ warnings'[d] = {} /\ new.phase = "unmeasured"
           \/ rows[d].in /\ new.id = rows[d].id /\ SameRegistration(new, rows[d]),
           ~new.in => new.phase = "unmeasured"
    PROVE  WatchInv'
<1>1. rows \in [Watched -> DomainRow] /\ looking \in [Lookers -> Looking] /\ warnings \in [Watched -> SUBSET (Terms \X WarnDays \X {1, 2})]
  BY DEF WatchInv, WatchTyped
<1>2. WatchTyped'
  BY <1>1 DEF WatchInv, WatchTyped
<1>3. rows'[d] = new /\ \A e \in Watched \ {d} : rows'[e] = rows[e] /\ warnings'[e] = warnings[e]
  BY <1>1
<1>4. \A w \in warnings'[d] : w \in warnings[d]
  BY <1>1
<1>5. ASSUME NEW c \in Lookers, NEW l \in Looking, l = looking'[c] PROVE Sound(l)'
  <2>1. Sound(l)
    BY <1>5 DEF WatchInv, ChecksSound
  <2>2. \A e \in Watched : rows[e].id <= rows'[e].id
    BY <1>1, <1>3, WatchNumbers DEF DomainRow
  <2>3. ASSUME NEW e \in Pins(l), Same(l, e)'
        PROVE  Same(l, e) /\ SameRegistration(rows'[e], rows[e]) /\ warnings'[e] \subseteq warnings[e]
    <3>1. e \in Watched /\ l.rows[e].id <= rows[e].id
      BY <2>1, PinsWatched DEF Sound, PinnedIn
    <3>2. l.rows[e].id \in Int /\ rows[e].id \in Int /\ new.id \in Int
      BY <1>1, <3>1, WatchNumbers DEF Looking, DomainRow
    <3>3. CASE e # d
      BY <1>3, <2>3, <3>1, <3>3 DEF Same, SameRegistration
    <3>4. CASE e = d
      <4>1. rows'[e] = new /\ warnings'[e] \subseteq warnings[e] /\ new.in /\ new.id = l.rows[e].id /\ e \notin l.late
        BY <1>3, <1>4, <2>3, <3>4 DEF Same
      <4>2. QED
        BY <3>1, <3>2, <3>4, <4>1 DEF Same
    <3>5. QED
      BY <3>3, <3>4
  <2>4. \A e \in Watched : registry[e].expires \in Int
    BY WatchNumbers DEF WatchInv, WatchTyped, Registration
  <2>5. QED
    BY <1>2, <2>1, <2>2, <2>3, <2>4, ChecksKeep DEF WatchTyped
<1>6. ChecksSound'
  BY <1>5 DEF ChecksSound
<1>10. TermsKept' /\ ToldIsStored' /\ TellsStored'
  <2>1. ASSUME NEW e \in Watched \ blurred, rows'[e].in, NEW w \in warnings'[e] PROVE OfTerm(w, rows'[e], registry[e])
    BY <1>3, <1>4, <2>1 DEF TermsKept, WatchInv, OfTerm, SameRegistration
  <2>2. \A e \in Watched : rows'[e].phase = rows[e].phase \/ rows'[e].phase = "unmeasured"
    BY <1>3 DEF SameRegistration
  <2>3. QED
    BY <2>1, <2>2, StaysTold DEF TermsKept
<1>11. WarnedOncePerTerm'
  BY <1>3, <1>4 DEF WatchInv, WarnedOncePerTerm
<1>12. QED
  BY <1>2, <1>6, <1>10, <1>11 DEF WatchInv

LEMMA PeopleKeep ==
    ASSUME WatchInv, NEW d \in Watched, AddDomain(d) \/ SetLifecycle(d) \/ RemoveDomain(d)
    PROVE  WatchInv'
<1>1. /\ rows \in [Watched -> DomainRow] /\ warnings \in [Watched -> SUBSET (Terms \X WarnDays \X {1, 2})]
      /\ rows[d] \in DomainRow /\ rows[d].id \in 0..MaxRows
  BY DEF WatchInv, WatchTyped, DomainRow
<1>2. CASE AddDomain(d)
  <2>1. PICK decision \in Decisions :
            rows' = [rows EXCEPT ![d] = [NoDomain EXCEPT !.in = TRUE, !.id = rows[d].id + 1, !.decision = decision]]
    BY <1>2 DEF AddDomain
  <2> DEFINE new == [NoDomain EXCEPT !.in = TRUE, !.id = rows[d].id + 1, !.decision = decision]
  <2>2. new \in DomainRow /\ new.id = rows[d].id + 1 /\ new.phase = "unmeasured"
    <3>1. rows[d].id < MaxRows
      BY <1>2 DEF AddDomain
    <3>2. rows[d].id + 1 \in 0..MaxRows
      BY <1>1, <3>1, WatchNumbers
    <3>3. QED
      BY <3>2, WatchBlanks DEF NoDomain, DomainRow
  <2>3. warnings' = [warnings EXCEPT ![d] = {}] /\ warnings'[d] = {} /\ rows' = [rows EXCEPT ![d] = new]
    BY <1>1, <1>2, <2>1 DEF AddDomain
  <2> HIDE DEF new
  <2>4. rows[d].id <= new.id /\ new.id # rows[d].id
    BY <1>1, <2>2, WatchNumbers
  <2>5. UNCHANGED <<registry, looking, calendar, toldVars, blurred>>
    BY <1>2 DEF AddDomain
  <2>6. QED
    BY <2>2, <2>3, <2>4, <2>5, RowChanges
<1>3. CASE SetLifecycle(d)
  <2>1. PICK decision \in Decisions : rows' = [rows EXCEPT ![d].decision = decision]
    BY <1>3 DEF SetLifecycle
  <2> DEFINE new == [rows[d] EXCEPT !.decision = decision]
  <2>2. new \in DomainRow /\ new.id = rows[d].id /\ SameRegistration(new, rows[d]) /\ new.in = rows[d].in
    BY <1>1 DEF DomainRow, SameRegistration
  <2>3. rows' = [rows EXCEPT ![d] = new]
    BY <2>1
  <2> HIDE DEF new
  <2>4. rows[d].in /\ UNCHANGED <<registry, looking, calendar, toldVars, warnings, blurred>> /\ rows[d].id <= new.id
    BY <1>1, <1>3, <2>2, WatchNumbers DEF SetLifecycle, InPortfolio
  <2>5. QED
    BY <2>2, <2>3, <2>4, RowChanges
<1>4. CASE RemoveDomain(d)
  <2> DEFINE new == [NoDomain EXCEPT !.id = rows[d].id]
  <2>1. new \in DomainRow /\ new.id = rows[d].id /\ ~new.in /\ new.phase = "unmeasured"
    BY <1>1, WatchBlanks DEF NoDomain, DomainRow
  <2>2. rows' = [rows EXCEPT ![d] = new] /\ UNCHANGED <<registry, looking, calendar, toldVars, warnings, blurred>>
    BY <1>4 DEF RemoveDomain
  <2> HIDE DEF new
  <2>3. rows[d].id <= new.id
    BY <1>1, <2>1, WatchNumbers
  <2>4. QED
    BY <2>1, <2>2, <2>3, RowChanges
<1>5. QED
  BY <1>2, <1>3, <1>4

LEMMA RegistryKeeps == ASSUME WatchInv, NEW d \in Watched, RegistryChanges(d) PROVE WatchInv'
<1>1. PICK r \in Registration :
         /\ r.expires >= registry[d].expires
         /\ registry[d].phase = "not_registered" => r.expires > registry[d].expires
         /\ registry' = [registry EXCEPT ![d] = r]
  BY DEF RegistryChanges
<1>2. UNCHANGED <<rows, looking, calendar, toldVars, warnings, blurred>>
  BY DEF RegistryChanges
<1>3. registry \in [Watched -> Registration] /\ WatchTyped'
  BY <1>1, <1>2 DEF WatchInv, WatchTyped
<1>4. ASSUME NEW e \in Watched
      PROVE  /\ registry[e].expires \in Int /\ registry'[e].expires \in Int
             /\ registry[e].expires <= registry'[e].expires
             /\ \/ registry[e].phase # "not_registered"
                \/ registry[e].expires < registry'[e].expires \/ registry'[e].phase = "not_registered"
  <2>1. registry[e].expires \in Int /\ r.expires \in Int
    BY <1>3, WatchNumbers DEF Registration
  <2>2. registry'[e] = IF e = d THEN r ELSE registry[e]
    BY <1>1, <1>3
  <2>3. QED
    BY <1>1, <2>1, <2>2
<1>5. ASSUME NEW c \in Lookers, NEW l \in Looking, l = looking'[c] PROVE Sound(l)'
  <2>1. Sound(l)
    BY <1>2, <1>5 DEF WatchInv, ChecksSound
  <2>2. \A e \in Watched : Same(l, e)' <=> Same(l, e)
    BY <1>2 DEF Same
  <2>3. \A e \in Watched : rows[e].id <= rows'[e].id
    BY <1>2, WatchNumbers DEF WatchInv, WatchTyped, DomainRow
  <2>4. QED
    BY <1>2, <1>3, <1>4, <2>1, <2>2, <2>3, PinsWatched, ChecksKeep DEF WatchTyped, SameRegistration
<1>6. TermsKept'
  <2>1. ASSUME NEW e \in Watched \ blurred, rows[e].in, NEW w \in warnings[e]
        PROVE  OfTerm(w, rows[e], registry'[e])
    <3>1. OfTerm(w, rows[e], registry[e]) /\ w[1] \in Int
      BY <2>1, WatchNumbers DEF WatchInv, WatchTyped, TermsKept
    <3>2. QED
      BY <1>4, <3>1 DEF OfTerm
  <2>2. QED
    BY <1>2, <2>1 DEF TermsKept
<1>7. ToldIsStored' /\ TellsStored' /\ WarnedOncePerTerm'
  BY <1>2, StaysTold DEF WatchInv, WarnedOncePerTerm
<1>8. QED
  BY <1>3, <1>5, <1>6, <1>7 DEF WatchInv, ChecksSound

LEMMA DaysKeep == ASSUME WatchInv, DayBegins PROVE WatchInv'
<1>1. UNCHANGED <<rows, registry, looking, toldVars, warnings, blurred>> /\ calendar' \in 0..MaxDay
  BY WatchNumbers DEF DayBegins, WatchInv, WatchTyped
<1>2. WatchTyped' /\ TermsKept' /\ ToldIsStored' /\ TellsStored' /\ WarnedOncePerTerm'
  BY <1>1, StaysTold DEF WatchInv, WatchTyped, TermsKept, WarnedOncePerTerm, toldVars
<1>3. ASSUME NEW l, Sound(l) PROVE Sound(l)'
  BY <1>1, <1>3 DEF Sound, PinnedIn, Pins, Same, Answered
<1>4. QED
  BY <1>1, <1>2, <1>3 DEF WatchInv, ChecksSound

\* A check goes on, and nothing is stored.
LEMMA CheckGoesOn ==
    ASSUME WatchInv, NEW c \in Lookers, NEW new \in Looking, Sound(new),
           looking' = [looking EXCEPT ![c] = new], looking[c].step \notin Telling, new.step \notin Telling,
           UNCHANGED <<rows, registry, calendar, toldVars, warnings, blurred>>
    PROVE  WatchInv'
<1>1. looking \in [Lookers -> Looking]
  BY DEF WatchInv, WatchTyped
<1>2. WatchTyped' /\ TermsKept' /\ ToldIsStored' /\ TellsStored' /\ WarnedOncePerTerm'
  BY <1>1, StaysTold DEF WatchInv, WatchTyped, TermsKept, WarnedOncePerTerm, toldVars
<1>3. ASSUME NEW l, Sound(l) PROVE Sound(l)'
  BY <1>3 DEF Sound, PinnedIn, Pins, Same, Answered
<1>4. ASSUME NEW b \in Lookers, NEW l \in Looking, l = looking'[b] PROVE Sound(l)'
  <2>1. CASE b = c
    BY <1>1, <1>3, <1>4, <2>1
  <2>2. CASE b # c
    BY <1>1, <1>3, <1>4, <2>2 DEF WatchInv, ChecksSound
  <2>3. QED
    BY <2>1, <2>2
<1>5. QED
  BY <1>2, <1>4 DEF WatchInv, ChecksSound

\* The rows as a check reads them.
LEMMA UsedRow ==
    ASSUME NEW row \in DomainRow
    PROVE  /\ Used(row) \in DomainRow /\ Used(row).in = row.in /\ Used(row).id = row.id
           /\ SameRegistration(Used(row), row)
<1> DEFINE used == [row EXCEPT !.failed = FALSE, !.checked = NotChecked]
<1>1. NotChecked \in NotChecked..MaxDay
  BY WatchNumbers DEF NotChecked
<1>2. used \in DomainRow
  BY <1>1 DEF DomainRow
<1>3. used.in = row.in /\ used.id = row.id /\ used.phase = row.phase /\ used.expires = row.expires /\ used.warned = row.warned
  BY DEF DomainRow
<1> HIDE DEF used
<1>4. Used(row) = used
  BY DEF Used, used
<1>5. QED
  BY <1>2, <1>3, <1>4 DEF SameRegistration

LEMMA NotLookingSound == NotLooking \in Looking /\ Sound(NotLooking)
BY NotLookingTyped DEF NotLooking, Sound, PinnedIn, Pins, Underway

LEMMA BeginKeeps == ASSUME WatchInv, BeginLookups PROVE WatchInv'
<1> DEFINE due == {d \in Watched : IsDue(rows[d])}
<1> DEFINE read == [d \in Watched |-> Used(rows[d])]
<1> DEFINE new == [NotLooking EXCEPT !.step = "run", !.todo = due, !.rows = read]
<1>1. read \in [Watched -> DomainRow]
  BY UsedRow DEF WatchInv, WatchTyped
<1>2. \A d \in due : d \in Watched /\ rows[d].in /\ rows[d] \in DomainRow /\ read[d] = Used(rows[d])
  BY DEF IsDue, WatchInv, WatchTyped
<1> HIDE DEF read
<1>3. new \in Looking /\ new.step = "run" /\ new.todo = due /\ new.rows = read
  BY <1>1, NotLookingTyped DEF Looking, NotLooking
<1>4. looking' = [looking EXCEPT !["scheduler"] = new] /\ UNCHANGED <<rows, registry, calendar, toldVars, warnings, blurred>>
  BY DEF BeginLookups, read
<1> HIDE DEF new, due
<1>5. Sound(new)
  <2>1. Pins(new) = due
    BY <1>3 DEF Pins, Underway
  <2>2. ASSUME NEW d \in due
        PROVE  read[d].in /\ read[d].id <= rows[d].id /\ SameRegistration(read[d], rows[d])
    BY <1>2, UsedRow, WatchNumbers DEF DomainRow
  <2>3. QED
    BY <1>3, <2>1, <2>2 DEF Sound, PinnedIn, Underway
<1>6. "scheduler" \in Lookers /\ looking["scheduler"].step \notin Telling
  BY DEF Lookers, BeginLookups, Telling
<1>7. QED
  BY <1>3, <1>4, <1>5, <1>6, CheckGoesOn DEF Telling

LEMMA NextKeeps == ASSUME WatchInv, NextOfRun PROVE WatchInv'
<1> DEFINE old == looking["scheduler"]
<1>1. "scheduler" \in Lookers /\ old \in Looking /\ old.step = "run" /\ Sound(old)
  BY DEF Lookers, WatchInv, WatchTyped, ChecksSound, NextOfRun
<1>2. CASE old.todo = {}
  <2>1. looking' = [looking EXCEPT !["scheduler"] = NotLooking] /\ UNCHANGED <<rows, registry, calendar, toldVars, warnings, blurred>>
    BY <1>2 DEF NextOfRun
  <2>2. QED
    BY <1>1, <2>1, NotLookingSound, CheckGoesOn DEF Telling, NotLooking
<1>3. CASE old.todo # {}
  <2>1. PICK d \in old.todo : Lookup("scheduler", d, old.rows, old.todo \ {d})
    BY <1>3 DEF NextOfRun
  <2> DEFINE new == [old EXCEPT !.step = "lookup", !.domain = d, !.rows = old.rows, !.todo = old.todo \ {d}]
  <2>2. /\ new \in Looking /\ new.step = "lookup" /\ new.domain = d /\ new.todo = old.todo \ {d}
        /\ new.rows = old.rows /\ new.late = old.late
    BY <1>1 DEF Looking
  <2>3. looking' = [looking EXCEPT !["scheduler"] = new] /\ UNCHANGED <<rows, registry, calendar, toldVars, warnings, blurred>>
    BY <2>1 DEF Lookup
  <2> HIDE DEF new, old
  <2>4. Pins(new) = Pins(old) /\ new.domain \notin new.todo
    BY <1>1, <2>2 DEF Pins, Underway
  <2>5. Sound(new)
    BY <1>1, <2>2, <2>4 DEF Sound, PinnedIn, Same, Underway
  <2>6. QED
    BY <1>1, <2>2, <2>3, <2>5, CheckGoesOn DEF Telling, old
<1>4. QED
  BY <1>2, <1>3

LEMMA PressKeeps == ASSUME WatchInv, NEW d \in Watched, Press(d) PROVE WatchInv'
<1> DEFINE old == looking["button"]
<1> DEFINE read == [NotLooking.rows EXCEPT ![d] = Used(rows[d])]
<1> DEFINE new == [old EXCEPT !.step = "lookup", !.domain = d, !.rows = read, !.todo = {}]
<1>1. "button" \in Lookers /\ old \in Looking /\ rows[d] \in DomainRow /\ rows[d].in
  BY DEF Lookers, WatchInv, WatchTyped, Press, InPortfolio
<1>2. read \in [Watched -> DomainRow] /\ read[d] = Used(rows[d])
  BY <1>1, UsedRow, NotLookingTyped DEF Looking
<1>3. looking' = [looking EXCEPT !["button"] = new] /\ UNCHANGED <<rows, registry, calendar, toldVars, warnings, blurred>>
  BY DEF Press, Lookup
<1> HIDE DEF read
<1>4. new \in Looking /\ new.step = "lookup" /\ new.domain = d /\ new.todo = {} /\ new.rows = read
  BY <1>1, <1>2 DEF Looking
<1> HIDE DEF new, old
<1>5. Sound(new)
  <2>1. Pins(new) = {d}
    BY <1>4 DEF Pins, Underway
  <2>2. read[d].in /\ read[d].id <= rows[d].id /\ SameRegistration(read[d], rows[d])
    BY <1>1, <1>2, UsedRow, WatchNumbers DEF DomainRow
  <2>3. QED
    BY <1>4, <2>1, <2>2 DEF Sound, PinnedIn, Underway
<1>6. looking["button"].step \notin Telling
  BY DEF Press, Telling
<1>7. QED
  BY <1>1, <1>3, <1>4, <1>5, <1>6, CheckGoesOn DEF Telling

\* What the registry answers of a domain is of it as it is now.
LEMMA AnswerKeeps == ASSUME WatchInv, NEW c \in Lookers, AnswerComes(c) PROVE WatchInv'
<1> DEFINE old == looking[c]
<1> DEFINE d == old.domain
<1> DEFINE r == registry[d]
<1>1. old \in Looking /\ old.step = "lookup" /\ Sound(old)
  BY DEF WatchInv, WatchTyped, ChecksSound, AnswerComes
<1>2. d \in Watched /\ r \in Registration
  BY <1>1 DEF Looking, WatchInv, WatchTyped
<1>3. PICK answered \in BOOLEAN, dated \in BOOLEAN :
         LET a == AnswerOf(c, answered) IN
         looking' = [looking EXCEPT ![c].step = "answered",
                                    ![c].answer = IF dated THEN a ELSE [a EXCEPT !.expires = Undated]]
  BY DEF AnswerComes
<1> DEFINE a == AnswerOf(c, answered)
<1> DEFINE given == IF dated THEN a ELSE [a EXCEPT !.expires = Undated]
<1> DEFINE new == [old EXCEPT !.step = "answered", !.answer = given]
<1>4. looking' = [looking EXCEPT ![c] = new] /\ UNCHANGED <<rows, registry, calendar, toldVars, warnings, blurred>>
  BY <1>1, <1>3 DEF AnswerComes, Looking, WatchInv, WatchTyped
<1>5. /\ given \in RegistryAnswer
      /\ \/ given = NoAnswer
         \/ /\ given.phase = r.phase
            /\ given.expires = Undated \/ (given.expires = r.expires /\ r.phase # "not_registered")
  <2>1. \/ a = NoAnswer
        \/ a = [phase |-> r.phase, expires |-> IF r.phase = "not_registered" THEN Undated ELSE r.expires]
    BY DEF AnswerOf
  <2> HIDE DEF a, r
  <2>2. CASE a = NoAnswer
    BY <2>2, WatchBlanks DEF NoAnswer, RegistryAnswer
  <2>3. CASE a = [phase |-> r.phase, expires |-> IF r.phase = "not_registered" THEN Undated ELSE r.expires]
    BY <1>2, <2>3 DEF RegistryAnswer, Registration
  <2>4. QED
    BY <2>1, <2>2, <2>3
<1> HIDE DEF given, a
<1>6. /\ new \in Looking /\ new.step = "answered" /\ new.answer = given /\ new.domain = d
      /\ new.todo = old.todo /\ new.rows = old.rows /\ new.late = old.late
  BY <1>1, <1>5 DEF Looking
<1> HIDE DEF new
<1>7. Pins(new) = Pins(old) /\ PinnedIn(new) /\ new.domain \notin new.todo
  BY <1>1, <1>6 DEF Sound, Pins, PinnedIn, Same, Underway
<1>8. Answered(new)
  <2>1. r.expires \in Nat /\ r.expires # Undated /\ r.phase \in RegistryPhases
    BY <1>2, WatchNumbers DEF Registration
  <2>2. given = NoAnswer \/ given.phase \in RegistryPhases
    BY <1>5, <2>1
  <2>3. given.expires <= r.expires
    BY <1>5, <2>1 DEF NoAnswer, Undated
  <2>4. ASSUME rows[d].in, d \notin blurred, NEW w \in warnings[d]
        PROVE  AfterAnswer(w, rows[d], given, r)
    <3>1. OfTerm(w, rows[d], r) /\ w[1] \in Int
      BY <1>2, <2>4, WatchNumbers DEF WatchInv, WatchTyped, TermsKept
    <3>2. CASE given.expires # Undated
      BY <1>5, <2>1, <3>1, <3>2 DEF AfterAnswer, OfTerm, NoAnswer
    <3>3. CASE given.expires = Undated
      <4>1. given.phase = "not_registered" => r.phase = "not_registered"
        BY <1>5 DEF NoAnswer
      <4>2. QED
        BY <3>3, <4>1 DEF AfterAnswer
    <3>4. QED
      BY <3>2, <3>3
  <2>5. QED
    BY <1>6, <2>2, <2>3, <2>4 DEF Answered, Same
<1>9. Sound(new)
  BY <1>6, <1>7, <1>8 DEF Sound
<1>10. QED
  BY <1>1, <1>4, <1>6, <1>9, CheckGoesOn DEF Telling

\* The check of a domain is over, or goes on with the others.
LEMMA EndedSound ==
    ASSUME WatchInv, NEW c \in Lookers
    PROVE  /\ Ended(c) \in Looking /\ Sound(Ended(c)) /\ Ended(c).step \notin Telling
           /\ looking[c].step \in Underway => looking[c].domain \notin Pins(Ended(c))
<1> DEFINE l == looking[c]
<1>1. l \in Looking /\ Sound(l)
  BY DEF WatchInv, WatchTyped, ChecksSound
<1>2. CASE c = "button"
  BY <1>2, NotLookingSound DEF Ended, NotLooking, Pins, Underway, Telling
<1>3. CASE c # "button"
  <2> DEFINE new == [l EXCEPT !.step = "run", !.answer = NoAnswer]
  <2>1. new \in Looking /\ new.step = "run" /\ new.todo = l.todo /\ new.rows = l.rows /\ new.late = l.late
    BY <1>1, WatchBlanks DEF Looking
  <2>2. Ended(c) = new
    BY <1>3 DEF Ended
  <2> HIDE DEF new
  <2>3. Pins(new) = l.todo /\ l.todo \subseteq Pins(l) /\ (l.step \in Underway => l.domain \notin l.todo)
    BY <1>1, <2>1 DEF Pins, Sound, Underway
  <2>4. Sound(new)
    <3> HIDE DEF l
    <3>1. PinnedIn(new)
      BY <1>1, <2>1, <2>3 DEF Sound, PinnedIn, Same
    <3>2. QED
      BY <2>1, <3>1 DEF Sound, Underway
  <2>5. QED
    BY <2>1, <2>2, <2>3, <2>4 DEF Telling
<1>4. QED
  BY <1>2, <1>3

\* What a lookup that answered writes, of a domain d and the row it was given.
Written(row, a) ==
    LET crossed == IF Held(row) THEN Crossed(row, a) ELSE {}
    IN  IF crossed # {} THEN Least(crossed) ELSE IF row.expires = a.expires THEN row.warned ELSE Undated

\* A lookup failed: nothing that is compared changes.
LEMMA StoreFailed ==
    ASSUME WatchInv, NEW c \in Lookers, Store(c), looking[c].answer = NoAnswer
    PROVE  WatchInv'
<1> DEFINE d == looking[c].domain
<1>1. /\ looking[c] \in Looking /\ d \in Watched /\ rows \in [Watched -> DomainRow] /\ looking \in [Lookers -> Looking]
      /\ calendar \in NotChecked..MaxDay
  BY WatchNumbers DEF WatchInv, WatchTyped, Looking, NotChecked
<1>2. /\ looking[c].step = "answered" /\ looking' = [looking EXCEPT ![c] = Ended(c)]
      /\ UNCHANGED <<registry, calendar, toldVars, warnings, blurred>>
      /\ rows' = rows \/ rows' = [rows EXCEPT ![d].failed = TRUE, ![d].checked = calendar]
  BY DEF Store
<1>3. /\ rows' \in [Watched -> DomainRow]
      /\ \A e \in Watched : rows'[e].in = rows[e].in /\ rows'[e].id = rows[e].id /\ SameRegistration(rows'[e], rows[e])
  <2> DEFINE new == [rows[d] EXCEPT !.failed = TRUE, !.checked = calendar]
  <2>1. new \in DomainRow /\ new.in = rows[d].in /\ new.id = rows[d].id /\ SameRegistration(new, rows[d])
    <3>1. rows[d] \in DomainRow
      BY <1>1
    <3>2. new \in DomainRow
      BY <1>1, <3>1 DEF DomainRow
    <3>3. QED
      BY <3>1, <3>2 DEF DomainRow, SameRegistration
  <2>2. rows' = rows \/ rows' = [rows EXCEPT ![d] = new]
    BY <1>1, <1>2
  <2> HIDE DEF new
  <2>3. CASE rows' = rows
    BY <1>1, <2>3 DEF SameRegistration
  <2>4. CASE rows' = [rows EXCEPT ![d] = new]
    <3>1. \A e \in Watched : rows'[e] = IF e = d THEN new ELSE rows[e]
      BY <1>1, <2>4
    <3>2. rows' \in [Watched -> DomainRow]
      BY <1>1, <2>1, <2>4
    <3>3. QED
      BY <2>1, <3>1, <3>2 DEF SameRegistration
  <2>5. QED
    BY <2>2, <2>3, <2>4
<1>4. WatchTyped'
  BY <1>1, <1>2, <1>3, EndedSound DEF WatchInv, WatchTyped, toldVars
<1>5. ASSUME NEW l \in Looking, Sound(l) PROVE Sound(l)'
  <2>1. \A e \in Watched : Same(l, e)' <=> Same(l, e)
    BY <1>3 DEF Same
  <2>2. \A e \in Watched : rows[e].id <= rows'[e].id /\ registry[e].expires <= registry'[e].expires
    BY <1>1, <1>2, <1>3, WatchNumbers DEF WatchInv, WatchTyped, DomainRow, Registration
  <2>3. QED
    BY <1>2, <1>3, <1>4, <1>5, <2>1, <2>2, PinsWatched, ChecksKeep DEF WatchTyped
<1>6. ASSUME NEW b \in Lookers, NEW l \in Looking, l = looking'[b] PROVE Sound(l)'
  <2>1. CASE b = c
    BY <1>1, <1>2, <1>5, <1>6, <2>1, EndedSound
  <2>2. CASE b # c
    BY <1>1, <1>2, <1>5, <1>6, <2>2 DEF WatchInv, ChecksSound
  <2>3. QED
    BY <2>1, <2>2
<1>7. TermsKept' /\ WarnedOncePerTerm'
  BY <1>2, <1>3 DEF WatchInv, TermsKept, OfTerm, WarnedOncePerTerm, SameRegistration
<1>9. ToldIsStored' /\ TellsStored'
  <2>1. \A e \in Watched : rows'[e].phase = rows[e].phase
    BY <1>3 DEF SameRegistration
  <2>2. \A b \in Lookers : looking'[b] = looking[b] \/ (looking[b].step \notin Telling /\ looking'[b].step \notin Telling)
    BY <1>1, <1>2, EndedSound DEF Telling
  <2>3. QED
    BY <1>2, <2>1, <2>2, StaysTold
<1>8. QED
  BY <1>4, <1>6, <1>7, <1>9 DEF WatchInv, ChecksSound

\* What is stored of an answer: each domain in turn, and its warnings.
LEMMA StoreEffects ==
    ASSUME WatchInv, NEW c \in Lookers, Store(c), looking[c].answer # NoAnswer
    PROVE  LET d == looking[c].domain  row == looking[c].rows[d]  a == looking[c].answer
               crossed == IF Held(row) THEN Crossed(row, a) ELSE {}
           IN  /\ UNCHANGED <<registry, calendar>>
               /\ blurred \subseteq blurred' /\ blurred' \subseteq blurred \cup {d}
               /\ \A e \in Watched \ {d} : rows'[e] = rows[e] /\ warnings'[e] = warnings[e]
               /\ rows'[d].id = rows[d].id
               /\ Baseline(d, row, a.phase)
               /\ crossed = {} => warnings'[d] = warnings[d]
               /\ crossed # {} => warnings'[d] = warnings[d] \cup
                      {<<a.expires, Least(crossed), IF <<a.expires, Least(crossed), 1>> \in warnings[d] THEN 2 ELSE 1>>}
               /\ d \notin blurred' =>
                      /\ rows[d].in /\ rows[d].id = row.id /\ d \notin looking[c].late /\ ~ToSend(d)
                      /\ a.expires = Undated => a.phase = "not_registered"
                      /\ rows'[d].phase = a.phase /\ rows'[d].expires = a.expires /\ rows'[d].warned = Written(row, a)
               /\ WatchTyped'
               /\ looking' = [b \in Lookers |-> IF b = c THEN IF NewPhase(row, a.phase) THEN [looking[c] EXCEPT !.step = "stored"]
                                                             ELSE Ended(c)
                                                ELSE IF looking[b].step = "idle" THEN looking[b]
                                                ELSE [looking[b] EXCEPT !.late = @ \cup {d}]]
<1> DEFINE d == looking[c].domain
<1> DEFINE row == looking[c].rows[d]
<1> DEFINE a == looking[c].answer
<1> DEFINE crossed == IF Held(row) THEN Crossed(row, a) ELSE {}
<1> DEFINE here == rows[d].in /\ rows[d].id = row.id
<1>1. /\ looking[c] \in Looking /\ d \in Watched /\ rows[d] \in DomainRow /\ row \in DomainRow /\ a \in RegistryAnswer
      /\ calendar \in NotChecked..MaxDay
  BY WatchNumbers DEF WatchInv, WatchTyped, Looking, NotChecked
<1>2. looking[c].step = "answered" /\ a.phase \in RegistryPhases
  BY DEF Store, WatchInv, WatchTyped, ChecksSound, Sound, Answered
<1>3. crossed \in SUBSET WarnDays /\ Written(row, a) \in WarnDays \cup {Undated}
  <2>1. crossed \in SUBSET WarnDays
    BY CrossedTyped
  <2>2. row.warned \in WarnDays \cup {Undated}
    BY <1>1 DEF DomainRow
  <2> HIDE DEF row, a
  <2>3. QED
    BY <2>1, <2>2, LeastOf DEF Written
<1> DEFINE new == [rows[d] EXCEPT !.phase = a.phase, !.expires = a.expires, !.warned = Written(row, a),
                                  !.failed = FALSE, !.checked = calendar]
<1>4. /\ UNCHANGED <<registry, calendar>>
      /\ rows' = IF here THEN [rows EXCEPT ![d] = new] ELSE rows
      /\ Baseline(d, row, a.phase) /\ Warned(d, row, a)
      /\ blurred' = IF ~here \/ d \in looking[c].late \/ ToSend(d) \/ (a.expires = Undated /\ a.phase # "not_registered")
                    THEN blurred \cup {d} ELSE blurred
      /\ looking' = [b \in Lookers |-> IF b = c THEN IF NewPhase(row, a.phase) THEN [looking[c] EXCEPT !.step = "stored"]
                                                    ELSE Ended(c)
                                       ELSE IF looking[b].step = "idle" THEN looking[b]
                                       ELSE [looking[b] EXCEPT !.late = @ \cup {d}]]
  BY DEF Store, Written, WatchInv, WatchTyped
<1>5. new \in DomainRow /\ new.id = rows[d].id /\ new.phase = a.phase /\ new.expires = a.expires /\ new.warned = Written(row, a)
  BY <1>1, <1>2, <1>3 DEF DomainRow, RegistryAnswer
<1>6. /\ logged' \in [Watched -> RegistryPhases \cup {"unmeasured"}] /\ believed' \in [Watched -> RegistryPhases \cup {"unmeasured"}]
      /\ unlogged' \subseteq Watched /\ untold' \subseteq Watched
  BY <1>1, <1>2, <1>4 DEF Baseline, toldVars, WatchInv, WatchTyped
<1>7. /\ crossed = {} => warnings' = warnings
      /\ crossed # {} => warnings' = [warnings EXCEPT ![d] = @ \cup
             {<<a.expires, Least(crossed), IF <<a.expires, Least(crossed), 1>> \in warnings[d] THEN 2 ELSE 1>>}]
  BY <1>4 DEF Warned
<1>8. crossed # {} => a.expires \in Terms /\ Least(crossed) \in WarnDays
  <2>1. crossed # {} => a.expires # Undated
    BY DEF Crossed
  <2>2. QED
    BY <1>1, <1>3, <2>1, LeastOf DEF RegistryAnswer
<1> HIDE DEF new, crossed, here, row, a
<1>9. rows \in [Watched -> DomainRow]
      /\ warnings \in [Watched -> SUBSET (Terms \X WarnDays \X {1, 2})] /\ blurred \subseteq Watched
      /\ looking \in [Lookers -> Looking]
  BY DEF WatchInv, WatchTyped
<1>10. rows' \in [Watched -> DomainRow]
  BY <1>1, <1>4, <1>5, <1>9
<1>11. warnings' \in [Watched -> SUBSET (Terms \X WarnDays \X {1, 2})]
  <2>1. CASE crossed = {}
    BY <1>7, <1>9, <2>1
  <2>2. CASE crossed # {}
    BY <1>1, <1>7, <1>8, <1>9, <2>2
  <2>3. QED
    BY <2>1, <2>2
<1>12. looking' \in [Lookers -> Looking]
  <2>1. ASSUME NEW b \in Lookers PROVE [looking[b] EXCEPT !.late = @ \cup {d}] \in Looking
    BY <1>1, <1>9 DEF Looking
  <2>2. Ended(c) \in Looking /\ [looking[c] EXCEPT !.step = "stored"] \in Looking
    BY <1>1, EndedSound DEF Looking, Steps
  <2>3. QED
    BY <1>4, <1>9, <2>1, <2>2
<1>13. WatchTyped'
  BY <1>1, <1>4, <1>6, <1>9, <1>10, <1>11, <1>12 DEF WatchInv, WatchTyped
<1>14. \A e \in Watched \ {d} : rows'[e] = rows[e] /\ warnings'[e] = warnings[e]
  BY <1>4, <1>7, <1>9
<1>15. rows'[d].id = rows[d].id
  BY <1>1, <1>4, <1>5, <1>9
<1>17. /\ crossed = {} => warnings'[d] = warnings[d]
       /\ crossed # {} => warnings'[d] = warnings[d] \cup
              {<<a.expires, Least(crossed), IF <<a.expires, Least(crossed), 1>> \in warnings[d] THEN 2 ELSE 1>>}
  BY <1>1, <1>7, <1>9
<1>18. d \notin blurred' =>
           /\ here /\ d \notin looking[c].late /\ ~ToSend(d) /\ (a.expires = Undated => a.phase = "not_registered")
           /\ rows'[d].phase = a.phase /\ rows'[d].expires = a.expires /\ rows'[d].warned = Written(row, a)
  BY <1>1, <1>4, <1>5, <1>9
<1>19. blurred \subseteq blurred' /\ blurred' \subseteq blurred \cup {d}
  BY <1>4
<1>20. QED
  BY <1>4, <1>13, <1>14, <1>15, <1>17, <1>18, <1>19 DEF here, crossed, row, a

LEMMA StoreAnswered ==
    ASSUME WatchInv, NEW c \in Lookers, Store(c), looking[c].answer # NoAnswer
    PROVE  WatchInv'
<1> DEFINE d == looking[c].domain
<1> DEFINE row == looking[c].rows[d]
<1> DEFINE a == looking[c].answer
<1> DEFINE r == registry[d]
<1> DEFINE crossed == IF Held(row) THEN Crossed(row, a) ELSE {}
<1> DEFINE t == Least(crossed)
<1>1. /\ UNCHANGED <<registry, calendar>>
      /\ blurred \subseteq blurred' /\ blurred' \subseteq blurred \cup {d}
      /\ \A e \in Watched \ {d} : rows'[e] = rows[e] /\ warnings'[e] = warnings[e]
      /\ rows'[d].id = rows[d].id
      /\ Baseline(d, row, a.phase)
      /\ crossed = {} => warnings'[d] = warnings[d]
      /\ crossed # {} => warnings'[d] = warnings[d] \cup
             {<<a.expires, t, IF <<a.expires, t, 1>> \in warnings[d] THEN 2 ELSE 1>>}
      /\ d \notin blurred' =>
             /\ rows[d].in /\ rows[d].id = row.id /\ d \notin looking[c].late /\ ~ToSend(d)
             /\ a.expires = Undated => a.phase = "not_registered"
             /\ rows'[d].phase = a.phase /\ rows'[d].expires = a.expires /\ rows'[d].warned = Written(row, a)
      /\ WatchTyped'
      /\ looking' = [b \in Lookers |-> IF b = c THEN IF NewPhase(row, a.phase) THEN [looking[c] EXCEPT !.step = "stored"]
                                                    ELSE Ended(c)
                                       ELSE IF looking[b].step = "idle" THEN looking[b]
                                       ELSE [looking[b] EXCEPT !.late = @ \cup {d}]]
  BY StoreEffects
<1>2. /\ looking[c] \in Looking /\ looking[c].step = "answered" /\ Sound(looking[c])
      /\ d \in Watched /\ d \in Pins(looking[c]) /\ row \in DomainRow /\ a \in RegistryAnswer /\ r \in Registration
  BY PinsWatched DEF Store, WatchInv, WatchTyped, ChecksSound, Looking, Underway
<1>3. ASSUME NEW l \in Looking, Sound(l), d \notin Pins(l) \/ d \in l.late PROVE Sound(l)'
  <2>1. ASSUME NEW e \in Pins(l), Same(l, e)'
        PROVE  Same(l, e) /\ SameRegistration(rows'[e], rows[e]) /\ warnings'[e] \subseteq warnings[e]
    <3>1. e \in Watched /\ e # d
      BY <1>3, <2>1, PinsWatched DEF Same
    <3>2. QED
      BY <1>1, <2>1, <3>1 DEF Same, SameRegistration
  <2>2. \A e \in Watched : rows[e].id <= rows'[e].id /\ registry[e].expires <= registry'[e].expires
    <3>1. \A e \in Watched : rows'[e].id = rows[e].id /\ registry'[e] = registry[e]
      BY <1>1
    <3>2. \A e \in Watched : rows[e].id \in Int /\ registry[e].expires \in Int
      BY WatchNumbers DEF WatchInv, WatchTyped, DomainRow, Registration
    <3>3. QED
      BY <3>1, <3>2
  <2>3. QED
    BY <1>1, <1>3, <2>1, <2>2, ChecksKeep DEF WatchTyped
<1>4. ASSUME NEW b \in Lookers, NEW l \in Looking, l = looking'[b] PROVE Sound(l)'
  <2>1. CASE b = c
    <3> DEFINE telling == [looking[c] EXCEPT !.step = "stored"]
    <3>1. telling \in Looking /\ Sound(telling) /\ d \notin Pins(telling)
      <4> DEFINE old == looking[c]
      <4>1. /\ telling \in Looking /\ telling.step = "stored" /\ telling.todo = old.todo /\ telling.rows = old.rows
            /\ telling.late = old.late
        BY <1>2 DEF Looking, Steps
      <4> HIDE DEF telling
      <4>2. Pins(telling) = old.todo /\ old.todo \subseteq Pins(old) /\ d \notin old.todo
        BY <1>2, <4>1 DEF Pins, Sound, Underway
      <4> HIDE DEF old, d
      <4>3. PinnedIn(telling)
        BY <1>2, <4>1, <4>2 DEF Sound, PinnedIn, Same, old
      <4>4. QED
        BY <4>1, <4>2, <4>3 DEF Sound, Underway
    <3>2. Ended(c) \in Looking /\ Sound(Ended(c)) /\ d \notin Pins(Ended(c))
      BY <1>2, EndedSound DEF Underway
    <3> HIDE DEF telling
    <3>3. l = telling \/ l = Ended(c)
      BY <1>1, <1>4, <2>1 DEF telling
    <3>4. QED
      BY <1>3, <3>1, <3>2, <3>3
  <2>2. CASE b # c /\ looking[b].step = "idle"
    <3>1. l = looking[b] /\ Sound(l) /\ Pins(l) = {}
      BY <1>1, <1>4, <2>2 DEF WatchInv, ChecksSound, Sound, Pins, Underway
    <3>2. QED
      BY <1>3, <3>1
  <2>3. CASE b # c /\ looking[b].step # "idle"
    <3> DEFINE old == looking[b]
    <3>1. old \in Looking /\ Sound(old) /\ l = [old EXCEPT !.late = @ \cup {d}]
      BY <1>1, <1>4, <2>3 DEF WatchInv, WatchTyped, ChecksSound
    <3> HIDE DEF old, d
    <3>2. /\ l.step = old.step /\ l.todo = old.todo /\ l.domain = old.domain /\ l.rows = old.rows
          /\ l.answer = old.answer /\ l.late = old.late \cup {d}
      BY <3>1 DEF Looking
    <3>3. Sound(l)
      BY <3>1, <3>2 DEF Sound, PinnedIn, Pins, Same, Answered
    <3>4. QED
      BY <1>3, <3>2, <3>3
  <2>4. QED
    BY <2>1, <2>2, <2>3
<1>5. /\ a.expires \in Nat /\ r.expires \in Nat /\ a.expires <= r.expires
      /\ row.warned \in Nat /\ crossed \subseteq WarnDays
      /\ \A w \in warnings[d] : w[1] \in Nat /\ w[2] \in Nat
  <2>1. a.expires <= r.expires
    BY <1>2 DEF Sound, Answered
  <2>2. a.expires \in Nat /\ r.expires \in Nat /\ row.warned \in Nat
    BY <1>2, WatchNumbers DEF RegistryAnswer, Registration, DomainRow, Undated
  <2>3. \A w \in warnings[d] : w[1] \in Nat /\ w[2] \in Nat
    BY <1>2, WatchNumbers DEF WatchInv, WatchTyped
  <2>4. QED
    BY <2>1, <2>2, <2>3, CrossedTyped
\* The threshold that is told is one that was crossed and was not told.
<1>6. ASSUME crossed # {}
      PROVE  /\ t \in Nat /\ t # Undated /\ a.expires # Undated /\ Written(row, a) = t
             /\ row.expires = a.expires => row.warned = Undated \/ t < row.warned
  <2>1. t \in crossed /\ Held(row)
    BY <1>5, <1>6, LeastOf
  <2>2. t \in Crossed(row, a)
    BY <2>1
  <2>3. t \in WarnDays /\ a.expires # Undated /\ (row.expires = a.expires => row.warned = Undated \/ t < row.warned)
    BY <2>2, CrossedIs
  <2>4. Written(row, a) = t
    BY <1>6 DEF Written
  <2>5. QED
    BY <2>3, <2>4, WatchNumbers
<1>7. crossed = {} => Written(row, a) = IF row.expires = a.expires THEN row.warned ELSE Undated
  BY DEF Written
\* Unless checks overlapped, the row was the one the answer is compared with.
<1>8. ASSUME d \notin blurred'
      PROVE  /\ SameRegistration(row, rows[d]) /\ d \notin blurred /\ rows[d].in
             /\ \A w \in warnings[d] : AfterAnswer(w, rows[d], a, r)
  <2>1. Same(looking[c], d) /\ d \notin blurred
    BY <1>1, <1>8 DEF Same
  <2>2. QED
    BY <1>2, <2>1 DEF Sound, PinnedIn, Answered, Same
<1>told. /\ crossed = {} => warnings'[d] = warnings[d]
         /\ crossed # {} => warnings'[d] = warnings[d] \cup
                {<<a.expires, t, IF <<a.expires, t, 1>> \in warnings[d] THEN 2 ELSE 1>>}
  BY <1>1
<1> HIDE DEF crossed, t, row, a, r
\* The warnings there were belong to the term that is stored, or to one before.
<1>9. ASSUME d \notin blurred', NEW w \in warnings[d] PROVE OfTerm(w, rows'[d], r)
  <2>1. /\ AfterAnswer(w, rows[d], a, r) /\ row.expires = rows[d].expires /\ row.warned = rows[d].warned
        /\ rows'[d].expires = a.expires /\ rows'[d].warned = Written(row, a)
        /\ a.expires = Undated => a.phase = "not_registered"
    BY <1>1, <1>8, <1>9 DEF SameRegistration
  <2>2. w[1] <= r.expires
    BY <1>2, <1>8, <1>9 DEF WatchInv, TermsKept, OfTerm, r
  <2>3. CASE a.expires # Undated /\ w[1] < a.expires
    BY <1>5, <1>9, <2>3, <2>2 DEF OfTerm
  <2>4. CASE a.expires # Undated /\ ~(w[1] < a.expires)
    <3>1. row.expires = a.expires /\ row.warned # Undated /\ row.warned <= w[2] /\ w[1] = a.expires
      BY <2>1, <2>4 DEF AfterAnswer
    <3>2. Written(row, a) # Undated /\ Written(row, a) <= w[2]
      BY <1>5, <1>6, <1>7, <1>9, <3>1 DEF Undated
    <3>3. QED
      BY <2>1, <2>2, <3>1, <3>2 DEF OfTerm
  <2>5. CASE a.expires = Undated
    BY <2>1, <2>2, <2>5 DEF AfterAnswer, OfTerm
  <2>6. QED
    BY <2>3, <2>4, <2>5
\* The warning that is told now was not told of this term.
<1>10. ASSUME d \notin blurred', crossed # {} PROVE <<a.expires, t, 1>> \notin warnings[d]
  <2>1. SUFFICES ASSUME <<a.expires, t, 1>> \in warnings[d] PROVE FALSE
    OBVIOUS
  <2> DEFINE w == <<a.expires, t, 1>>
  <2>2. w[1] = a.expires /\ w[2] = t /\ w \in warnings[d]
    BY <2>1
  <2> HIDE DEF w
  <2>3. AfterAnswer(w, rows[d], a, r) /\ row.expires = rows[d].expires /\ row.warned = rows[d].warned
    BY <1>8, <1>10, <2>2 DEF SameRegistration
  <2>4. row.expires = a.expires /\ row.warned # Undated /\ row.warned <= t
    BY <1>5, <1>6, <1>10, <2>2, <2>3 DEF AfterAnswer
  <2>5. QED
    BY <1>5, <1>6, <1>10, <2>4
<1>11. ASSUME d \notin blurred', NEW w \in warnings'[d] PROVE OfTerm(w, rows'[d], r) /\ w[3] = 1
  <2>1. CASE w \in warnings[d]
    BY <1>2, <1>8, <1>9, <1>11, <2>1 DEF WatchInv, WarnedOncePerTerm
  <2>2. CASE w \notin warnings[d]
    <3>1. crossed # {}
      BY <1>told, <1>11, <2>2
    <3>2. w = <<a.expires, t, 1>>
      BY <1>told, <1>10, <1>11, <2>2, <3>1
    <3>3. w[1] = a.expires /\ w[2] = t /\ w[3] = 1
      BY <3>2
    <3>4. rows'[d].expires = a.expires /\ rows'[d].warned = t
      BY <1>1, <1>6, <1>11, <3>1 DEF crossed, row, a, t
    <3>5. QED
      BY <1>5, <1>6, <3>1, <3>3, <3>4 DEF OfTerm
  <2>3. QED
    BY <2>1, <2>2
<1>12. TermsKept' /\ WarnedOncePerTerm'
  <2>1. \A e \in Watched \ {d} : e \notin blurred' => e \notin blurred /\ rows'[e] = rows[e] /\ warnings'[e] = warnings[e]
    BY <1>1
  <2>2. QED
    BY <1>1, <1>11, <2>1 DEF WatchInv, TermsKept, WarnedOncePerTerm, r
\* Whoever tells of another domain still does.
<1>13. ASSUME NEW b \in Lookers, b # c
       PROVE  looking'[b].step = looking[b].step /\ looking'[b].domain = looking[b].domain /\ looking'[b].answer = looking[b].answer
  <2>1. looking[b] \in Looking
    BY DEF WatchInv, WatchTyped
  <2>2. looking'[b] = looking[b] \/ looking'[b] = [looking[b] EXCEPT !.late = @ \cup {d}]
    BY <1>1, <1>13
  <2>3. QED
    BY <2>1, <2>2 DEF Looking
<1>14. NewPhase(row, a.phase) => looking'[c] = [looking[c] EXCEPT !.step = "stored"]
  BY <1>1 DEF row, a
<1>15. looking'[c].step \in Telling => NewPhase(row, a.phase)
  BY <1>1, EndedSound DEF row, a
<1>16. NewPhase(row, a.phase) => looking'[c].step = "stored" /\ looking'[c].domain = d /\ looking'[c].answer = a
  BY <1>2, <1>14 DEF Looking, a
<1>17. ToldIsStored'
  <2>1. ASSUME NEW e \in Watched, e # d
        PROVE  /\ ToLog(e) => ToLog(e)'
               /\ ToSend(e) => ToSend(e)'
               /\ logged'[e] = logged[e] /\ believed'[e] = believed[e] /\ rows'[e] = rows[e]
               /\ e \in unlogged => e \in unlogged'
               /\ e \in untold => e \in untold'
               /\ e \notin blurred' => e \notin blurred
    <3>1. (ToLog(e) => ToLog(e)') /\ (ToSend(e) => ToSend(e)')
      BY <1>2, <1>13, <2>1 DEF ToLog, ToSend
    <3>2. logged'[e] = logged[e] /\ believed'[e] = believed[e] /\ (e \in unlogged => e \in unlogged') /\ (e \in untold => e \in untold')
      BY <1>1, <2>1 DEF Baseline, toldVars, WatchInv, WatchTyped
    <3>3. QED
      BY <1>1, <2>1, <3>1, <3>2
  <2>2. ASSUME NEW e \in Watched, e = d, e \notin blurred', rows'[e].phase # "unmeasured"
        PROVE  /\ logged'[e] = rows'[e].phase \/ e \in unlogged' \/ ToLog(e)'
               /\ believed'[e] = rows'[e].phase \/ e \in untold' \/ ToSend(e)'
    <3>1. rows'[e].phase = a.phase /\ row.phase = rows[e].phase /\ e \notin blurred /\ ~ToSend(e) /\ ~ToLog(e)
      BY <1>1, <1>8, <2>2 DEF SameRegistration, row, a, ToSend, ToLog
    <3>2. CASE row.phase = "unmeasured"
      <4>1. logged'[e] = a.phase /\ believed'[e] = a.phase
        BY <1>1, <2>2, <3>2 DEF Baseline, WatchInv, WatchTyped, row, a
      <4>2. QED
        BY <3>1, <4>1
    <3>3. CASE NewPhase(row, a.phase)
      <4>1. looking'[c].step = "stored" /\ looking'[c].domain = e
        BY <1>16, <2>2, <3>3
      <4>2. QED
        BY <4>1 DEF ToLog, ToSend
    <3>4. CASE row.phase # "unmeasured" /\ ~NewPhase(row, a.phase)
      <4>1. row.phase = a.phase
        BY <3>4 DEF NewPhase
      <4>2. UNCHANGED <<logged, believed, unlogged, untold>>
        BY <1>1, <3>4 DEF Baseline, toldVars, row
      <4>3. QED
        BY <2>2, <3>1, <3>4, <4>1, <4>2 DEF WatchInv, ToldIsStored
    <3>5. QED
      BY <3>2, <3>3, <3>4
  <2>3. QED
    BY <2>1, <2>2 DEF WatchInv, ToldIsStored
<1>18. TellsStored'
  <2>1. ASSUME NEW b \in Lookers, looking'[b].step \in Telling
        PROVE  /\ looking'[b].answer.phase \in RegistryPhases
               /\ looking'[b].domain \notin blurred' /\ rows'[looking'[b].domain].phase # "unmeasured"
                      => rows'[looking'[b].domain].phase = looking'[b].answer.phase
    <3>1. CASE b = c
      <4>1. looking'[b].domain = d /\ looking'[b].answer = a
        BY <1>15, <1>16, <2>1, <3>1
      <4>2. a.phase \in RegistryPhases
        BY <1>2 DEF Sound, Answered, a
      <4>3. d \notin blurred' => rows'[d].phase = a.phase
        BY <1>1 DEF a
      <4>4. QED
        BY <4>1, <4>2, <4>3
    <3>2. CASE b # c
      <4>1. looking[b].step \in Telling /\ TellsIn(looking[b]) /\ looking[b].domain \in Watched
        BY <1>13, <2>1, <3>2 DEF WatchInv, WatchTyped, TellsStored, Looking
      <4>2. looking[b].domain = d => d \in blurred'
        <5>1. looking[b].domain = d => ToSend(d)
          BY <4>1 DEF ToSend, Telling
        <5>2. QED
          BY <1>1, <5>1
      <4>3. QED
        BY <1>1, <1>13, <3>2, <4>1, <4>2 DEF TellsIn
    <3>3. QED
      BY <3>1, <3>2
  <2>2. QED
    BY <2>1 DEF TellsStored, TellsIn
<1>19. QED
  BY <1>1, <1>4, <1>12, <1>17, <1>18 DEF WatchInv, ChecksSound

\* A check that tells goes on, or any check ends: nothing is stored, and what
\* another is to tell of stays to be told.
LEMMA CheckTells ==
    ASSUME WatchInv, NEW c \in Lookers, NEW new \in Looking, Sound(new), TellsIn(new),
           NEW d \in Watched, d = looking[c].domain,
           looking' = [looking EXCEPT ![c] = new],
           UNCHANGED <<rows, registry, calendar, warnings, blurred>>,
           logged' \in [Watched -> RegistryPhases \cup {"unmeasured"}],
           believed' \in [Watched -> RegistryPhases \cup {"unmeasured"}],
           unlogged' \subseteq Watched, untold' \subseteq Watched,
           \A e \in Watched : e # d =>
               /\ logged'[e] = logged[e] /\ believed'[e] = believed[e]
               /\ e \in unlogged => e \in unlogged'
               /\ e \in untold => e \in untold',
           rows[d].phase # "unmeasured" /\ d \notin blurred =>
               /\ logged'[d] = rows[d].phase \/ d \in unlogged' \/ ToLog(d)'
               /\ believed'[d] = rows[d].phase \/ d \in untold' \/ ToSend(d)'
    PROVE  WatchInv'
<1>1. looking \in [Lookers -> Looking] /\ looking'[c] = new /\ \A b \in Lookers \ {c} : looking'[b] = looking[b]
  BY DEF WatchInv, WatchTyped
<1>2. WatchTyped' /\ TermsKept' /\ WarnedOncePerTerm'
  BY <1>1 DEF WatchInv, WatchTyped, TermsKept, WarnedOncePerTerm
<1>3. ASSUME NEW l, Sound(l) PROVE Sound(l)'
  BY <1>3 DEF Sound, PinnedIn, Pins, Same, Answered
<1>4. ChecksSound'
  BY <1>1, <1>3 DEF WatchInv, ChecksSound
<1>5. TellsStored'
  <2>1. ASSUME NEW b \in Lookers PROVE TellsIn(looking'[b])
    BY <1>1 DEF WatchInv, TellsStored
  <2>2. QED
    BY <2>1 DEF TellsStored, TellsIn
<1>6. ToldIsStored'
  <2>1. ASSUME NEW e \in Watched, e # d PROVE (ToLog(e) => ToLog(e)') /\ (ToSend(e) => ToSend(e)')
    BY <1>1, <2>1 DEF ToLog, ToSend
  <2>2. QED
    BY <2>1 DEF WatchInv, ToldIsStored
<1>7. QED
  BY <1>2, <1>4, <1>5, <1>6 DEF WatchInv

LEMMA LogKeeps == ASSUME WatchInv, NEW c \in Lookers, LogChange(c) PROVE WatchInv'
<1> DEFINE old == looking[c]
<1>0. PICK d \in Watched : d = old.domain
  BY DEF WatchInv, WatchTyped, Looking
<1> DEFINE new == [old EXCEPT !.step = "logged"]
<1>1. /\ old \in Looking /\ old.step = "stored" /\ Sound(old) /\ TellsIn(old)
      /\ logged' = [logged EXCEPT ![d] = old.answer.phase] /\ unlogged' = unlogged \ {d}
      /\ UNCHANGED <<rows, registry, calendar, believed, untold, warnings, blurred>>
  BY <1>0 DEF LogChange, WatchInv, WatchTyped, Looking, ChecksSound, TellsStored
<1>2. looking' = [looking EXCEPT ![c] = new] /\ looking'[c] = new
  BY <1>0 DEF LogChange, WatchInv, WatchTyped
<1>3. /\ new \in Looking /\ new.step = "logged" /\ new.domain = d /\ new.todo = old.todo /\ new.rows = old.rows
      /\ new.late = old.late /\ new.answer = old.answer
  BY <1>0, <1>1 DEF Looking, Steps
<1> HIDE DEF new, old
<1>4. Sound(new) /\ TellsIn(new)
  BY <1>0, <1>1, <1>3 DEF Sound, PinnedIn, Pins, Same, Underway, TellsIn, Telling
<1>5. ToSend(d)'
  BY <1>0, <1>2, <1>3 DEF ToSend
<1>6. /\ logged' \in [Watched -> RegistryPhases \cup {"unmeasured"}] /\ unlogged' \subseteq Watched
      /\ logged'[d] = old.answer.phase /\ \A e \in Watched : e # d => logged'[e] = logged[e]
  BY <1>0, <1>1 DEF TellsIn, Telling, WatchInv, WatchTyped
<1>7. rows[d].phase # "unmeasured" /\ d \notin blurred => logged'[d] = rows[d].phase
  BY <1>0, <1>1, <1>6 DEF TellsIn, Telling
<1>8. believed' \in [Watched -> RegistryPhases \cup {"unmeasured"}] /\ untold' \subseteq Watched
  BY <1>1 DEF WatchInv, WatchTyped
<1>9. QED
  BY <1>0, <1>1, <1>2, <1>3, <1>4, <1>5, <1>6, <1>7, <1>8, CheckTells DEF old

\* A message that is not sent leaves its change among the untold.
LEMMA NotifyKeeps == ASSUME WatchInv, NEW c \in Lookers, Notify(c) PROVE WatchInv'
<1> DEFINE old == looking[c]
<1>0. PICK d \in Watched : d = old.domain
  BY DEF WatchInv, WatchTyped, Looking
<1>1. /\ old \in Looking /\ old.step = "logged" /\ TellsIn(old)
      /\ \/ believed' = [believed EXCEPT ![d] = old.answer.phase] /\ untold' = untold \ {d}
         \/ untold' = untold \cup {d} /\ UNCHANGED believed
      /\ looking' = [looking EXCEPT ![c] = Ended(c)]
      /\ UNCHANGED <<rows, registry, calendar, logged, unlogged, warnings, blurred>>
  BY <1>0 DEF Notify, WatchInv, WatchTyped, Looking, TellsStored
<1>2. Ended(c) \in Looking /\ Sound(Ended(c)) /\ TellsIn(Ended(c))
  BY EndedSound DEF TellsIn
<1> HIDE DEF old
<1>3. /\ believed' \in [Watched -> RegistryPhases \cup {"unmeasured"}] /\ untold' \subseteq Watched
      /\ \A e \in Watched : e # d => believed'[e] = believed[e] /\ (e \in untold => e \in untold')
      /\ believed'[d] = old.answer.phase \/ d \in untold'
  BY <1>0, <1>1 DEF TellsIn, Telling, WatchInv, WatchTyped
<1>4. rows[d].phase # "unmeasured" /\ d \notin blurred => believed'[d] = rows[d].phase \/ d \in untold'
  BY <1>0, <1>1, <1>3 DEF TellsIn, Telling
<1>5. rows[d].phase # "unmeasured" /\ d \notin blurred => logged'[d] = rows[d].phase \/ d \in unlogged' \/ ToLog(d)'
  <2>1. ToLog(d) => ToLog(d)'
    BY <1>0, <1>1 DEF ToLog, old, WatchInv, WatchTyped
  <2>2. QED
    BY <1>0, <1>1, <2>1 DEF WatchInv, ToldIsStored
<1>6. logged' \in [Watched -> RegistryPhases \cup {"unmeasured"}] /\ unlogged' \subseteq Watched
  BY <1>1 DEF WatchInv, WatchTyped
<1>7. QED
  BY <1>0, <1>1, <1>2, <1>3, <1>4, <1>5, <1>6, CheckTells DEF old

\* So does a check that fails before its message.
LEMMA FailsKeep == ASSUME WatchInv, NEW c \in Lookers, CheckFails(c) PROVE WatchInv'
<1> DEFINE old == looking[c]
<1>0. PICK d \in Watched : d = old.domain
  BY DEF WatchInv, WatchTyped, Looking
<1>1. /\ old \in Looking /\ d \in Watched
      /\ unlogged' = IF old.step = "stored" THEN unlogged \cup {d} ELSE unlogged
      /\ untold' = IF old.step \in {"stored", "logged"} THEN untold \cup {d} ELSE untold
      /\ looking' = [looking EXCEPT ![c] = Ended(c)]
      /\ UNCHANGED <<rows, registry, calendar, logged, believed, warnings, blurred>>
  BY <1>0 DEF CheckFails, WatchInv, WatchTyped, Looking
<1>2. Ended(c) \in Looking /\ Sound(Ended(c)) /\ TellsIn(Ended(c))
  BY EndedSound DEF TellsIn
<1>3. (ToLog(d) => ToLog(d)' \/ d \in unlogged') /\ (ToSend(d) => ToSend(d)' \/ d \in untold')
  BY <1>0, <1>1 DEF ToLog, ToSend, WatchInv, WatchTyped
<1> HIDE DEF old
<1>4. rows[d].phase # "unmeasured" /\ d \notin blurred =>
          /\ logged'[d] = rows[d].phase \/ d \in unlogged' \/ ToLog(d)'
          /\ believed'[d] = rows[d].phase \/ d \in untold' \/ ToSend(d)'
  BY <1>0, <1>1, <1>3 DEF WatchInv, ToldIsStored
<1>5. /\ logged' \in [Watched -> RegistryPhases \cup {"unmeasured"}] /\ unlogged' \subseteq Watched
      /\ believed' \in [Watched -> RegistryPhases \cup {"unmeasured"}] /\ untold' \subseteq Watched
  BY <1>1 DEF WatchInv, WatchTyped
<1>6. QED
  BY <1>0, <1>1, <1>2, <1>4, <1>5, CheckTells DEF old

LEMMA EndOfProgramKeeps == ASSUME WatchInv, ProgramEnds PROVE WatchInv'
<1>1. /\ looking' = [c \in Lookers |-> NotLooking]
      /\ unlogged' = unlogged \cup {d \in Watched : ToLog(d)}
      /\ untold' = untold \cup {d \in Watched : ToSend(d)}
      /\ UNCHANGED <<rows, registry, calendar, logged, believed, warnings, blurred>>
  BY DEF ProgramEnds
<1>2. WatchTyped' /\ TermsKept' /\ WarnedOncePerTerm'
  BY <1>1, NotLookingTyped DEF WatchInv, WatchTyped, TermsKept, WarnedOncePerTerm
<1>3. \A c \in Lookers : Pins(looking'[c]) = {} /\ looking'[c].step = "idle" /\ looking'[c].todo = {}
  BY <1>1 DEF NotLooking, Pins, Underway
<1>4. ChecksSound' /\ TellsStored'
  BY <1>3, Zenon DEF ChecksSound, Sound, PinnedIn, Pins, Underway, TellsStored, TellsIn, Telling
<1>5. ToldIsStored'
  BY <1>1 DEF WatchInv, ToldIsStored
<1>6. QED
  BY <1>2, <1>4, <1>5 DEF WatchInv

LEMMA WatchKeeps == ASSUME WatchInv, [WatchNext]_watchVars PROVE WatchInv'
<1>1. CASE UNCHANGED watchVars
  <2>1. UNCHANGED <<rows, registry, looking, calendar, toldVars, warnings, blurred>>
    BY <1>1 DEF watchVars
  <2>2. ASSUME NEW l, Sound(l) PROVE Sound(l)'
    BY <2>1, <2>2 DEF Sound, PinnedIn, Pins, Same, Answered
  <2>3. QED
    BY <2>1, <2>2, StaysTold DEF WatchInv, WatchTyped, ChecksSound, TermsKept, WarnedOncePerTerm, toldVars
<1>2. ASSUME NEW d \in Watched, RegistryChanges(d) \/ AddDomain(d) \/ SetLifecycle(d) \/ RemoveDomain(d) \/ Press(d)
      PROVE  WatchInv'
  BY <1>2, RegistryKeeps, PeopleKeep, PressKeeps
<1>3. ASSUME NEW c \in Lookers, AnswerComes(c) \/ Store(c) \/ LogChange(c) \/ Notify(c) \/ CheckFails(c)
      PROVE  WatchInv'
  BY <1>3, AnswerKeeps, StoreFailed, StoreAnswered, LogKeeps, NotifyKeeps, FailsKeep
<1>4. CASE BeginLookups \/ NextOfRun \/ DayBegins \/ ProgramEnds
  BY <1>4, BeginKeeps, NextKeeps, DaysKeep, EndOfProgramKeeps
<1>5. QED
  BY <1>1, <1>2, <1>3, <1>4 DEF WatchNext

LEMMA WatchAlways == WatchSpec => []WatchInv
<1>1. WatchInit => WatchInv
  BY WatchBegins
<1>2. WatchInv /\ [WatchNext]_watchVars => WatchInv'
  BY WatchKeeps
<1>3. QED
  BY <1>1, <1>2, PTL DEF WatchSpec

\* Who reads the messages about a domain knows what is stored of it, for any
\* number of domains and however checks, decisions and removals are ordered
\* (domain_portfolio.py, check and maybe_run).
THEOREM MessagesTellTheRow == WatchSpec => []ToldIsStored
<1>1. WatchInv => ToldIsStored
  BY DEF WatchInv
<1>2. QED
  BY <1>1, WatchAlways, PTL

\* At each threshold of each term there is one warning (domain_portfolio.py,
\* _expiry_warning), for any thresholds and terms.
THEOREM OneWarningEach == WatchSpec => []WarnedOncePerTerm
<1>1. WatchInv => WarnedOncePerTerm
  BY DEF WatchInv
<1>2. QED
  BY <1>1, WatchAlways, PTL

(***************************************************************************)
(* Part II.  MonitorHistory: the inductive invariant.                      *)
(***************************************************************************)
\* A baseline is a scan that is there; a monitor that never was has nothing.
Refers ==
    \A m \in Monitors :
        /\ monitor[m].base # None => Kept(monitor[m].base)
        /\ monitor[m].stored = "no" => monitor[m].hash = Nothing /\ Scanning(m) = {}

\* A run knows scans there were, and its own by what it measured.
OwnScans ==
    \A w \in Workers :
        /\ run[w].base <= Len(scan) /\ run[w].id <= Len(scan)
        /\ run[w].phase \in {"saved"} \cup AfterMark =>
               run[w].id # None /\ (Kept(run[w].id) => scan[run[w].id].value = run[w].value)

\* Where no runs overlapped, none do.
Alone == \A m \in Monitors : "overlap" \notin gap[m] => \A w, x \in Scanning(m) : w = x

\* What was last told of a monitor is what its baseline shows.
Settled(m) ==
    monitor[m].hash # Nothing =>
        /\ told[m] = monitor[m].hash
        /\ monitor[m].base # None => scan[monitor[m].base].value = told[m]

\* It is, but while a run that has moved the baseline has still to report.
AllSettled ==
    \A m \in Monitors :
        (IsStored(m) /\ gap[m] = {} /\ \A w \in Scanning(m) : run[w].phase \notin AfterMark) => Settled(m)

\* A run that no other overlapped, and its monitor.
Agrees(r, m) ==
    /\ r.phase \in {"begun", "measured"} =>
           /\ r.hash = monitor[m].hash
           /\ monitor[m].base = r.base \/ (monitor[m].base = None /\ ~Kept(r.base))
    /\ r.phase \in AfterMark => monitor[m].base \in {None, r.id}
    /\ r.phase \in {"hashed", "noting", "noted"} => monitor[m].hash = r.value
    /\ (r.phase \in {"compared", "saved"} \cup AfterMark /\ gap[m] = {} /\ r.kind = "scan_unchanged")
           => told[m] = r.value

RunsAgree ==
    \A m \in Monitors, w \in Workers, r \in Run :
        (r = run[w] /\ w \in Scanning(m) /\ IsStored(m) /\ "overlap" \notin gap[m]) => Agrees(r, m)

HistoryInv == HistoryTypeOK /\ Refers /\ OwnScans /\ Alone /\ AllSettled /\ RunsAgree

(***************************************************************************)
(* The steps.                                                              *)
(***************************************************************************)
LEMMA HistoryNumbers ==
    /\ MaxScans \in Nat /\ MaxScans >= 1 /\ MaxDays \in Nat /\ None \in 0..MaxScans
    /\ NoRun \in Run /\ NoRun.phase = "idle" /\ NoRun.base = None /\ NoRun.id = None
    /\ Unmeasured \in Values /\ Unmeasured \notin States /\ Gone \in ScanRow /\ ~Gone.kept
<1>1. MaxScans \in Nat /\ MaxScans >= 1 /\ MaxDays \in Nat /\ None \in 0..MaxScans
  BY HistoryConstants DEF None
<1>2. Unmeasured \in Values /\ Unmeasured \notin States /\ Gone \in ScanRow /\ ~Gone.kept
  BY HistoryConstants DEF Values, Gone, ScanRow
<1>3. (CHOOSE m \in Monitors : TRUE) \in Monitors
  BY HistoryConstants
<1>4. NoRun \in Run /\ NoRun.phase = "idle" /\ NoRun.base = None /\ NoRun.id = None
  BY <1>1, <1>2, <1>3 DEF NoRun, Run, Phases, Kinds
<1>5. QED
  BY <1>1, <1>2, <1>4

LEMMA HistoryBegins == ASSUME HistoryInit PROVE HistoryInv
<1> USE DEF HistoryInit
<1>1. HistoryTypeOK
  BY HistoryNumbers DEF HistoryTypeOK, MonitorRow, ScanRow
<1>2. \A m \in Monitors : Scanning(m) = {} /\ monitor[m].base = None /\ monitor[m].hash = Nothing
  BY HistoryNumbers DEF Scanning
<1>3. \A w \in Workers : run[w] = NoRun
  OBVIOUS
<1>4. Len(scan) = 0
  OBVIOUS
<1>5. Refers /\ Alone /\ AllSettled /\ RunsAgree
  BY <1>2 DEF Refers, Alone, AllSettled, Settled, RunsAgree
<1>6. OwnScans
  BY <1>3, <1>4, HistoryNumbers DEF OwnScans, AfterMark, None
<1>7. QED
  BY <1>1, <1>5, <1>6 DEF HistoryInv

\* What the steps use of the types.
LEMMA RunFields ==
    ASSUME HistoryTypeOK, NEW w \in Workers
    PROVE  /\ run[w] \in Run /\ run[w].of \in Monitors /\ run[w].base \in Nat /\ run[w].id \in Nat
           /\ run[w].value \in Values /\ monitor[run[w].of] \in MonitorRow /\ Len(scan) \in Nat
           /\ gap[run[w].of] \subseteq Reasons
BY HistoryNumbers DEF HistoryTypeOK, Run

\* Where runs only end or go on, none begins to overlap another.
LEMMA NoNewRun ==
    ASSUME HistoryInv,
           \A m \in Monitors : "overlap" \in gap[m] => "overlap" \in gap'[m],
           \A w \in Workers : run'[w].phase # "idle" => run[w].phase # "idle" /\ run'[w].of = run[w].of
    PROVE  /\ Alone'
           /\ \A m \in Monitors : Scanning(m)' \subseteq Scanning(m)
BY DEF HistoryInv, Alone, Scanning

\* A run of a monitor no other run overlapped is the only one.
LEMMA OnlyRun ==
    ASSUME HistoryInv, NEW w \in Workers, run[w].phase # "idle", "overlap" \notin gap[run[w].of]
    PROVE  Scanning(run[w].of) = {w}
BY RunFields DEF HistoryInv, Alone, Scanning

\* A run ends with an exception.
LEMMA AbortKeeps ==
    ASSUME HistoryInv, NEW w \in Workers, run[w].phase # "idle", Abort(w),
           UNCHANGED <<monitor, scan, domain, days, told>>
    PROVE  HistoryInv'
<1> DEFINE m0 == run[w].of
<1>1. /\ HistoryTypeOK /\ run \in [Workers -> Run] /\ gap \in [Monitors -> SUBSET Reasons] /\ m0 \in Monitors
      /\ run' = [run EXCEPT ![w] = NoRun]
      /\ gap' = [gap EXCEPT ![m0] = IF run[w].phase \in AfterMark THEN @ \cup {"died"} ELSE @]
  BY RunFields DEF HistoryInv, HistoryTypeOK, Abort
<1>2. HistoryTypeOK'
  BY <1>1, HistoryNumbers DEF HistoryTypeOK, Reasons
<1>3. /\ \A x \in Workers : x # w => run'[x] = run[x]
      /\ run'[w] = NoRun
      /\ \A m \in Monitors : gap[m] \subseteq gap'[m] /\ ("overlap" \in gap'[m] => "overlap" \in gap[m])
      /\ run[w].phase \in AfterMark => gap'[m0] # {}
  BY <1>1
<1>4. Alone' /\ \A m \in Monitors : Scanning(m)' \subseteq Scanning(m)
  BY <1>3, NoNewRun, HistoryNumbers
<1>5. Refers' /\ OwnScans'
  BY <1>3, <1>4, HistoryNumbers, RunFields DEF HistoryInv, Refers, OwnScans, Kept, AfterMark, None
<1>6. ASSUME NEW m \in Monitors, NEW x \in Scanning(m)' PROVE x # w /\ x \in Scanning(m) /\ run'[x] = run[x]
  BY <1>3, <1>6, HistoryNumbers DEF Scanning
<1>7. AllSettled'
  <2>1. SUFFICES ASSUME NEW m \in Monitors, IsStored(m), gap'[m] = {},
                        \A x \in Scanning(m)' : run'[x].phase \notin AfterMark
                 PROVE  Settled(m)
    BY DEF AllSettled, Settled, IsStored
  <2>2. gap[m] = {}
    BY <1>3, <2>1
  <2>3. \A x \in Scanning(m) : run[x].phase \notin AfterMark
    BY <1>1, <1>3, <2>1 DEF Scanning
  <2>4. QED
    BY <2>1, <2>2, <2>3 DEF HistoryInv, AllSettled
<1>8. RunsAgree'
  BY <1>3, <1>6 DEF HistoryInv, RunsAgree, Agrees, IsStored, Kept
<1>9. QED
  BY <1>2, <1>4, <1>5, <1>7, <1>8 DEF HistoryInv

LEMMA BeginRunKeeps == ASSUME HistoryInv, NEW w \in Workers, NEW m0 \in Monitors, BeginRun(w, m0) PROVE HistoryInv'
<1> DEFINE new == [NoRun EXCEPT !.phase = "begun", !.of = m0, !.base = monitor[m0].base, !.hash = monitor[m0].hash]
<1>1. /\ HistoryTypeOK /\ run \in [Workers -> Run] /\ gap \in [Monitors -> SUBSET Reasons] /\ monitor[m0] \in MonitorRow
      /\ run[w].phase = "idle" /\ IsStored(m0)
      /\ run' = [run EXCEPT ![w] = new]
      /\ gap' = [gap EXCEPT ![m0] = IF Scanning(m0) # {} THEN @ \cup {"overlap"} ELSE @]
      /\ UNCHANGED <<monitor, scan, domain, days, told>>
  BY DEF HistoryInv, HistoryTypeOK, BeginRun
<1>2. /\ new \in Run /\ new.phase = "begun" /\ new.of = m0 /\ new.base = monitor[m0].base /\ new.hash = monitor[m0].hash
      /\ new.id = None
  BY <1>1, HistoryNumbers DEF Run, MonitorRow, Phases, NoRun
<1> HIDE DEF new
<1>3. /\ run'[w] = new /\ \A x \in Workers : x # w => run'[x] = run[x]
      /\ \A m \in Monitors : m # m0 => gap'[m] = gap[m]
      /\ gap'[m0] = IF Scanning(m0) # {} THEN gap[m0] \cup {"overlap"} ELSE gap[m0]
  BY <1>1
<1>4. /\ \A m \in Monitors : m # m0 => Scanning(m)' = Scanning(m)
      /\ Scanning(m0)' = Scanning(m0) \cup {w} /\ w \notin Scanning(m0)
  BY <1>1, <1>2, <1>3 DEF Scanning
<1>5. HistoryTypeOK'
  BY <1>1, <1>2 DEF HistoryTypeOK, Reasons
<1>6. monitor[m0].base \in Nat /\ monitor[m0].base <= Len(scan)
  <2>1. monitor[m0].base \in 0..MaxScans /\ Len(scan) \in Nat
    BY <1>1, LenProperties DEF MonitorRow, HistoryTypeOK
  <2>2. monitor[m0].base # None => monitor[m0].base \in 1..Len(scan)
    BY DEF HistoryInv, Refers, Kept
  <2>3. QED
    BY <2>1, <2>2, HistoryNumbers DEF None
<1>7. Refers' /\ OwnScans'
  BY <1>1, <1>2, <1>3, <1>4, <1>6, HistoryNumbers DEF HistoryInv, HistoryTypeOK, Refers, OwnScans, Kept, IsStored, None, AfterMark
<1>8. Alone'
  BY <1>3, <1>4 DEF HistoryInv, Alone
<1>9. AllSettled'
  <2>1. ASSUME NEW m \in Monitors, IsStored(m), gap'[m] = {}, \A x \in Scanning(m)' : run'[x].phase \notin AfterMark
        PROVE  Settled(m)
    <3>1. gap[m] = {} /\ \A x \in Scanning(m) : run[x].phase \notin AfterMark
      BY <1>1, <1>3, <1>4, <2>1 DEF Scanning
    <3>2. QED
      BY <2>1, <3>1 DEF HistoryInv, AllSettled
  <2>2. QED
    BY <1>1, <2>1 DEF AllSettled, Settled, IsStored
<1>10. RunsAgree'
  <2>1. SUFFICES ASSUME NEW m \in Monitors, NEW x \in Workers, NEW r \in Run, r = run'[x], x \in Scanning(m)',
                        IsStored(m), "overlap" \notin gap'[m]
                 PROVE  Agrees(r, m)'
    BY <1>1 DEF RunsAgree, IsStored
  <2>2. CASE x # w
    <3>1. x \in Scanning(m) /\ r = run[x] /\ gap'[m] = gap[m]
      BY <1>1, <1>3, <1>4, <2>1, <2>2 DEF Scanning
    <3>2. Agrees(r, m)
      BY <2>1, <3>1 DEF HistoryInv, RunsAgree
    <3>3. QED
      BY <1>1, <3>1, <3>2 DEF Agrees, Kept
  <2>3. CASE x = w
    <3>1. m = m0 /\ r.phase = "begun" /\ r.base = monitor[m].base /\ r.hash = monitor[m].hash
      BY <1>2, <1>3, <2>1, <2>3 DEF Scanning
    <3>2. QED
      BY <1>1, <3>1 DEF Agrees, AfterMark
  <2>4. QED
    BY <2>2, <2>3
<1>11. QED
  BY <1>5, <1>7, <1>8, <1>9, <1>10 DEF HistoryInv

\* A run goes on.
LEMMA GoesOn ==
    ASSUME HistoryInv, NEW w \in Workers, NEW new \in Run, run' = [run EXCEPT ![w] = new],
           run[w].phase # "idle", new.phase # "idle", new.of = run[w].of,
           \A m \in Monitors : "overlap" \in gap'[m] <=> "overlap" \in gap[m]
    PROVE  /\ run' \in [Workers -> Run] /\ run'[w] = new /\ \A x \in Workers : x # w => run'[x] = run[x]
           /\ \A m \in Monitors : Scanning(m)' = Scanning(m)
           /\ Alone'
<1>1. run \in [Workers -> Run]
  BY DEF HistoryInv, HistoryTypeOK
<1>2. run' \in [Workers -> Run] /\ run'[w] = new /\ \A x \in Workers : x # w => run'[x] = run[x]
  BY <1>1
<1>3. \A m \in Monitors : Scanning(m)' = Scanning(m)
  BY <1>2 DEF Scanning
<1>4. Alone'
  BY <1>3 DEF HistoryInv, Alone
<1>5. QED
  BY <1>2, <1>3, <1>4

LEMMA MeasureKeeps == ASSUME HistoryInv, NEW w \in Workers, Measure(w) PROVE HistoryInv'
<1>1. PICK v \in {domain[run[w].of], Unmeasured} : run' = [run EXCEPT ![w].phase = "measured", ![w].value = v]
  BY DEF Measure
<1> DEFINE new == [run[w] EXCEPT !.phase = "measured", !.value = v]
<1>2. /\ HistoryTypeOK /\ run[w] \in Run /\ run[w].phase = "begun"
      /\ UNCHANGED <<monitor, scan, domain, days, told, gap>>
  BY RunFields DEF HistoryInv, Measure
<1>3. v \in Values
  BY <1>2, RunFields, HistoryNumbers DEF HistoryTypeOK, Values
<1>4. /\ new \in Run /\ new.phase = "measured" /\ new.of = run[w].of /\ new.base = run[w].base /\ new.id = run[w].id
      /\ new.hash = run[w].hash
  BY <1>2, <1>3 DEF Run, Phases
<1>5. run' = [run EXCEPT ![w] = new]
  BY <1>1, <1>2 DEF HistoryTypeOK
<1> HIDE DEF new
<1>6. /\ run' \in [Workers -> Run] /\ run'[w] = new /\ \A x \in Workers : x # w => run'[x] = run[x]
      /\ \A m \in Monitors : Scanning(m)' = Scanning(m)
      /\ Alone'
  BY <1>2, <1>4, <1>5, GoesOn
<1>7. HistoryTypeOK'
  BY <1>2, <1>6 DEF HistoryTypeOK
<1>8. Refers' /\ OwnScans'
  BY <1>2, <1>4, <1>6 DEF HistoryInv, Refers, OwnScans, Kept, AfterMark
<1>9. AllSettled'
  <2>1. \A x \in Workers : run'[x].phase \notin AfterMark => run[x].phase \notin AfterMark
    BY <1>2, <1>6 DEF AfterMark
  <2>2. \A m \in Monitors : \A x \in Scanning(m) : x \in Workers
    BY DEF Scanning
  <2>3. QED
    BY <1>2, <1>6, <2>1, <2>2 DEF HistoryInv, AllSettled, Settled, IsStored
<1>10. RunsAgree'
  <2>1. SUFFICES ASSUME NEW m \in Monitors, NEW x \in Workers, NEW r \in Run, r = run'[x], x \in Scanning(m),
                        IsStored(m), "overlap" \notin gap[m]
                 PROVE  Agrees(r, m)'
    BY <1>2, <1>6 DEF RunsAgree, IsStored
  <2>2. Agrees(run[x], m)
    BY <1>2, <2>1 DEF HistoryInv, HistoryTypeOK, RunsAgree
  <2>3. CASE x # w
    BY <1>2, <1>6, <2>1, <2>2, <2>3 DEF Agrees, Kept
  <2>4. CASE x = w
    BY <1>2, <1>4, <1>6, <2>1, <2>2, <2>4 DEF Agrees, Kept, AfterMark
  <2>5. QED
    BY <2>3, <2>4
<1>11. QED
  BY <1>6, <1>7, <1>8, <1>9, <1>10 DEF HistoryInv

\* A scan that says nothing changed saw what its monitor compares with.
LEMMA UnchangedIsSame ==
    ASSUME NEW hash, NEW prev, NEW v \in Values, prev = Nothing \/ prev \in Values,
           hash # Nothing, (prev = Unmeasured) = (v = Unmeasured), EventKind(hash, prev, v) = "scan_unchanged"
    PROVE  IF prev # Nothing THEN v = prev ELSE v = hash
<1>1. ~(IF prev # Nothing THEN Changes(prev, v) ELSE hash # v)
  BY DEF EventKind
<1>2. QED
  BY <1>1 DEF Changes, Values

LEMMA CompareKeeps == ASSUME HistoryInv, NEW w \in Workers, Compare(w) PROVE HistoryInv'
<1> DEFINE r == run[w]
<1> DEFINE m0 == r.of
<1> DEFINE kind == EventKind(r.hash, Before(w), r.value)
<1> DEFINE blind == r.hash # Nothing /\ (Before(w) = Unmeasured) # (r.value = Unmeasured)
<1> DEFINE new == [NoRun EXCEPT !.phase = "compared", !.of = r.of, !.value = r.value, !.kind = kind]
<1>1. /\ HistoryTypeOK /\ r \in Run /\ r.phase = "measured" /\ m0 \in Monitors
      /\ run' = [run EXCEPT ![w] = new]
      /\ gap' = [gap EXCEPT ![m0] = IF blind THEN @ \cup {"unmeasured"} ELSE @]
      /\ UNCHANGED <<monitor, scan, domain, days, told>>
  BY RunFields DEF HistoryInv, Compare
<1>2. kind \in Kinds
  BY DEF EventKind, Kinds
<1>3. Before(w) = Nothing \/ Before(w) \in Values
  <2>1. scan \in Seq(ScanRow)
    BY <1>1 DEF HistoryTypeOK
  <2>2. \A i \in 1..Len(scan) : scan[i] \in ScanRow
    BY <2>1
  <2>3. \A row \in ScanRow : row.value \in Values
    BY DEF ScanRow
  <2>4. QED
    BY <2>2, <2>3 DEF Before, Kept
<1>4. kind = "scan_unchanged" /\ ~blind =>
          r.hash # Nothing /\ IF Before(w) # Nothing THEN r.value = Before(w) ELSE r.value = r.hash
  <2>1. r.value \in Values /\ (kind = "scan_unchanged" => r.hash # Nothing)
    BY <1>1, RunFields DEF EventKind
  <2>2. QED
    BY <1>3, <2>1, UnchangedIsSame
<1> HIDE DEF kind, blind
<1>5. /\ new \in Run /\ new.phase = "compared" /\ new.of = m0 /\ new.value = r.value /\ new.kind = kind
      /\ new.base = None /\ new.id = None
  BY <1>1, <1>2, HistoryNumbers, RunFields DEF NoRun, Run, Phases
<1> HIDE DEF new
<1>6. /\ gap' \in [Monitors -> SUBSET Reasons]
      /\ \A m \in Monitors : gap[m] \subseteq gap'[m] /\ ("overlap" \in gap'[m] <=> "overlap" \in gap[m])
      /\ blind => gap'[m0] # {}
  BY <1>1 DEF HistoryTypeOK, Reasons
<1>7. /\ run' \in [Workers -> Run] /\ run'[w] = new /\ \A x \in Workers : x # w => run'[x] = run[x]
      /\ \A m \in Monitors : Scanning(m)' = Scanning(m)
      /\ Alone'
  BY <1>1, <1>5, <1>6, GoesOn
<1>8. HistoryTypeOK'
  BY <1>1, <1>6, <1>7 DEF HistoryTypeOK
<1>9. Refers' /\ OwnScans'
  BY <1>1, <1>5, <1>7, RunFields DEF HistoryInv, Refers, OwnScans, Kept, AfterMark, None
<1>10. ASSUME NEW m \in Monitors, IsStored(m), gap[m] = {}, \A x \in Scanning(m) : run'[x].phase \notin AfterMark
       PROVE  Settled(m)
  <2>1. \A x \in Scanning(m) : run[x].phase \notin AfterMark
    BY <1>1, <1>7, <1>10 DEF AfterMark, Scanning
  <2>2. QED
    BY <1>10, <2>1 DEF HistoryInv, AllSettled
<1>11. AllSettled'
  BY <1>1, <1>6, <1>7, <1>10 DEF AllSettled, Settled, IsStored
<1>12. ASSUME IsStored(m0), gap'[m0] = {}, kind = "scan_unchanged" PROVE told[m0] = r.value
  <2>1. gap[m0] = {} /\ ~blind /\ w \in Scanning(m0)
    BY <1>1, <1>6, <1>12 DEF Scanning
  <2>2. Scanning(m0) = {w}
    BY <1>1, <2>1, OnlyRun
  <2>3. Settled(m0)
    BY <1>1, <1>5, <1>7, <1>10, <1>12, <2>1, <2>2 DEF AfterMark
  <2>4. /\ r.hash = monitor[m0].hash
        /\ monitor[m0].base = r.base \/ (monitor[m0].base = None /\ ~Kept(r.base))
    BY <1>1, <1>12, <2>1 DEF HistoryInv, RunsAgree, Agrees
  <2>5. Before(w) # Nothing => Kept(r.base) /\ Before(w) = scan[r.base].value /\ r.base # None
    BY DEF Before, Kept, None
  <2>6. QED
    BY <1>4, <1>12, <2>1, <2>3, <2>4, <2>5 DEF Settled
<1>13. RunsAgree'
  <2>1. SUFFICES ASSUME NEW m \in Monitors, NEW x \in Workers, NEW q \in Run, q = run'[x], x \in Scanning(m),
                        IsStored(m), "overlap" \notin gap'[m]
                 PROVE  Agrees(q, m)'
    BY <1>1, <1>7 DEF RunsAgree, IsStored
  <2>2. CASE x # w
    <3>1. Agrees(q, m)
      BY <1>6, <1>7, <2>1, <2>2 DEF HistoryInv, RunsAgree
    <3>2. gap'[m] = {} => gap[m] = {}
      BY <1>6, <2>1
    <3>3. QED
      BY <1>1, <3>1, <3>2 DEF Agrees, Kept
  <2>3. CASE x = w
    <3>1. m = m0 /\ q = new
      BY <1>7, <2>1, <2>3 DEF Scanning
    <3>2. QED
      BY <1>1, <1>5, <1>12, <2>1, <3>1 DEF Agrees, AfterMark
  <2>4. QED
    BY <2>2, <2>3
<1>14. QED
  BY <1>7, <1>8, <1>9, <1>11, <1>13 DEF HistoryInv

\* The scans there are stay as they are when one more is saved.
LEMMA ScanSaved ==
    ASSUME HistoryTypeOK, NEW row \in ScanRow, scan' = Append(scan, row), Len(scan) < MaxScans
    PROVE  /\ scan' \in Seq(ScanRow) /\ Len(scan') = Len(scan) + 1 /\ Len(scan') <= MaxScans /\ Len(scan) \in Nat
           /\ scan'[Len(scan) + 1] = row
           /\ \A i \in 1..Len(scan) : scan'[i] = scan[i]
<1>1. scan \in Seq(ScanRow) /\ Len(scan) \in Nat /\ MaxScans \in Nat
  BY HistoryNumbers DEF HistoryTypeOK
<1>2. QED
  BY <1>1

LEMMA SaveKeeps == ASSUME HistoryInv, NEW w \in Workers, SaveScan(w) PROVE HistoryInv'
<1> DEFINE r == run[w]
<1> DEFINE m0 == r.of
<1>1. HistoryTypeOK /\ r \in Run /\ r.phase = "compared" /\ m0 \in Monitors /\ Len(scan) < MaxScans /\ UNCHANGED <<monitor, domain, days, told>>
  BY RunFields DEF HistoryInv, SaveScan
<1>2. CASE ~IsStored(m0)
  <2>1. Abort(w) /\ UNCHANGED scan
    BY <1>2 DEF SaveScan
  <2>2. QED
    BY <1>1, <2>1, AbortKeeps
<1>3. CASE IsStored(m0)
  <2> DEFINE row == [kept |-> TRUE, value |-> r.value, aged |-> FALSE]
  <2> DEFINE new == [r EXCEPT !.phase = "saved", !.id = Len(scan) + 1]
  <2>1. scan' = Append(scan, row) /\ UNCHANGED gap
    BY <1>3 DEF SaveScan
  <2>2. run' = [run EXCEPT ![w] = new]
    BY <1>1, <1>3 DEF SaveScan, HistoryTypeOK
  <2>3. row \in ScanRow
    BY <1>1, RunFields DEF ScanRow
  <2>4. /\ scan' \in Seq(ScanRow) /\ Len(scan') = Len(scan) + 1 /\ Len(scan') <= MaxScans /\ Len(scan) \in Nat
        /\ scan'[Len(scan) + 1] = row
        /\ \A i \in 1..Len(scan) : scan'[i] = scan[i]
    BY <1>1, <2>1, <2>3, ScanSaved
  <2>5. Len(scan) + 1 \in 0..MaxScans
    BY <2>4, HistoryNumbers
  <2>6. /\ new \in Run /\ new.phase = "saved" /\ new.of = m0 /\ new.value = r.value /\ new.kind = r.kind
        /\ new.base = r.base /\ new.id = Len(scan) + 1
    BY <1>1, <2>5 DEF Run, Phases
  <2> HIDE DEF new
  <2>7. /\ run' \in [Workers -> Run] /\ run'[w] = new /\ \A x \in Workers : x # w => run'[x] = run[x]
        /\ \A m \in Monitors : Scanning(m)' = Scanning(m)
        /\ Alone'
    BY <1>1, <2>1, <2>2, <2>6, GoesOn
  <2>8. HistoryTypeOK'
    BY <1>1, <2>1, <2>4, <2>7 DEF HistoryTypeOK
  <2>9. \A i \in Nat : i <= Len(scan) => (Kept(i)' <=> Kept(i)) /\ (Kept(i) => scan'[i] = scan[i])
    BY <2>4 DEF Kept
  <2>10. \A m \in Monitors : monitor[m].base \in Nat /\ monitor[m].base <= Len(scan)
    BY <1>1, <2>4 DEF HistoryInv, HistoryTypeOK, Refers, Kept, None, MonitorRow
  <2>11. Refers'
    BY <1>1, <2>7, <2>9, <2>10 DEF HistoryInv, Refers
  <2>12. OwnScans'
    <3>1. SUFFICES ASSUME NEW x \in Workers, NEW i, i = run'[x].id
                   PROVE  /\ run'[x].base <= Len(scan') /\ i <= Len(scan')
                          /\ run'[x].phase \in {"saved"} \cup AfterMark =>
                                 i # None /\ (Kept(i)' => scan'[i].value = run'[x].value)
      BY DEF OwnScans, Kept
    <3>2. run[x].base \in Nat /\ run[x].id \in Nat /\ run[x].base <= Len(scan) /\ run[x].id <= Len(scan)
      BY <1>1, RunFields DEF HistoryInv, OwnScans
    <3>3. CASE x = w
      BY <2>3, <2>4, <2>6, <2>7, <3>1, <3>2, <3>3 DEF None
    <3>4. CASE x # w
      <4>1. run'[x] = run[x] /\ i = run[x].id /\ i <= Len(scan) /\ i \in Nat
        BY <2>7, <3>1, <3>2, <3>4
      <4>2. run[x].phase \in {"saved"} \cup AfterMark => i # None /\ (Kept(i) => scan[i].value = run[x].value)
        BY <3>1, <4>1 DEF HistoryInv, OwnScans
      <4>3. (Kept(i)' <=> Kept(i)) /\ (Kept(i) => scan'[i] = scan[i])
        BY <2>9, <4>1
      <4>4. QED
        BY <2>4, <3>2, <4>1, <4>2, <4>3
    <3>5. QED
      BY <3>3, <3>4
  <2>13. \A m \in Monitors : Settled(m) => Settled(m)'
    <3>1. \A m \in Monitors : monitor[m].base # None => scan'[monitor[m].base] = scan[monitor[m].base]
      BY <2>4, <2>10 DEF None
    <3>2. QED
      BY <1>1, <3>1 DEF Settled
  <2>14. AllSettled'
    <3>1. \A x \in Workers : run'[x].phase \notin AfterMark => run[x].phase \notin AfterMark
      BY <1>1, <2>6, <2>7 DEF AfterMark
    <3>2. \A m \in Monitors : \A x \in Scanning(m) : x \in Workers
      BY DEF Scanning
    <3>3. QED
      BY <1>1, <2>1, <2>7, <2>13, <3>1, <3>2 DEF HistoryInv, AllSettled, IsStored
  <2>15. RunsAgree'
    <3>1. SUFFICES ASSUME NEW m \in Monitors, NEW x \in Workers, NEW q \in Run, q = run'[x], x \in Scanning(m),
                          IsStored(m), "overlap" \notin gap[m]
                   PROVE  Agrees(q, m)'
      BY <1>1, <2>1, <2>7 DEF RunsAgree, IsStored
    <3>2. Agrees(run[x], m)
      BY <1>1, <3>1 DEF HistoryInv, HistoryTypeOK, RunsAgree
    <3>3. CASE x # w
      <4>1. q = run[x] /\ q.base \in Nat /\ q.base <= Len(scan)
        BY <1>1, <2>7, <3>1, <3>3, RunFields DEF HistoryInv, OwnScans
      <4>2. Kept(q.base)' <=> Kept(q.base)
        BY <2>9, <4>1
      <4>3. QED
        BY <1>1, <2>1, <3>2, <4>1, <4>2 DEF Agrees
    <3>4. CASE x = w
      BY <1>1, <2>1, <2>6, <2>7, <3>1, <3>2, <3>4 DEF Agrees, AfterMark
    <3>5. QED
      BY <3>3, <3>4
  <2>16. QED
    BY <2>7, <2>8, <2>11, <2>12, <2>14, <2>15 DEF HistoryInv
<1>4. QED
  BY <1>2, <1>3

\* A run that has moved its baseline, or goes on after it, while nothing was told.
LEMMA MarkedKeeps ==
    ASSUME HistoryInv, NEW w \in Workers, NEW new \in Run, NEW row \in MonitorRow,
           run[w].phase \in {"saved"} \cup AfterMark, new.phase \in AfterMark,
           run' = [run EXCEPT ![w] = new], new.of = run[w].of, new.base = run[w].base, new.id = run[w].id,
           new.value = run[w].value, new.kind = run[w].kind,
           UNCHANGED <<scan, domain, days, told, gap>>,
           monitor' = [monitor EXCEPT ![run[w].of] = row],
           row.stored = monitor[run[w].of].stored,
           row.stored = "no" => row.hash = Nothing,
           row.base # None => Kept(row.base),
           (row.stored = "yes" /\ "overlap" \notin gap[run[w].of]) =>
               /\ row.base \in {None, new.id}
               /\ new.phase \in {"hashed", "noting", "noted"} => row.hash = new.value
    PROVE  HistoryInv'
<1> DEFINE m0 == run[w].of
<1>1. HistoryTypeOK /\ run[w] \in Run /\ m0 \in Monitors /\ run[w].phase # "idle" /\ new.phase # "idle"
  BY RunFields DEF HistoryInv, AfterMark
<1>2. /\ run' \in [Workers -> Run] /\ run'[w] = new /\ \A x \in Workers : x # w => run'[x] = run[x]
      /\ \A m \in Monitors : Scanning(m)' = Scanning(m)
      /\ Alone'
  BY <1>1, GoesOn
<1>3. monitor' \in [Monitors -> MonitorRow] /\ monitor'[m0] = row /\ \A m \in Monitors : m # m0 => monitor'[m] = monitor[m]
  BY <1>1 DEF HistoryTypeOK
<1>4. HistoryTypeOK'
  BY <1>1, <1>2, <1>3 DEF HistoryTypeOK
<1>5. Refers'
  <2>1. row.stored = "no" => Scanning(m0) = {}
    BY <1>1 DEF HistoryInv, Refers
  <2>2. QED
    BY <1>1, <1>2, <1>3, <2>1 DEF HistoryInv, Refers, Kept
<1>6. OwnScans'
  BY <1>2 DEF HistoryInv, OwnScans, Kept
<1>7. AllSettled'
  <2>1. SUFFICES ASSUME NEW m \in Monitors, IsStored(m)', gap[m] = {}, \A x \in Scanning(m) : run'[x].phase \notin AfterMark
                 PROVE  Settled(m)'
    BY <1>2 DEF AllSettled
  <2>2. w \in Scanning(m0)
    BY <1>1 DEF Scanning
  <2>3. m # m0
    BY <1>2, <2>1, <2>2
  <2>4. IsStored(m) /\ \A x \in Scanning(m) : x \in Workers /\ x # w
    BY <1>3, <2>1, <2>3 DEF Scanning, IsStored
  <2>5. Settled(m)
    BY <1>2, <2>1, <2>4 DEF HistoryInv, AllSettled
  <2>6. QED
    BY <1>3, <2>3, <2>5 DEF Settled
<1>8. RunsAgree'
  <2>1. SUFFICES ASSUME NEW m \in Monitors, NEW x \in Workers, NEW q \in Run, q = run'[x], x \in Scanning(m),
                        IsStored(m)', "overlap" \notin gap[m]
                 PROVE  Agrees(q, m)'
    BY <1>2 DEF RunsAgree
  <2>2. IsStored(m)
    BY <1>3, <2>1 DEF IsStored
  <2>3. CASE m # m0
    <3>1. x # w /\ q = run[x]
      BY <1>2, <2>1, <2>3 DEF Scanning
    <3>2. Agrees(q, m)
      BY <2>1, <2>2, <3>1 DEF HistoryInv, RunsAgree
    <3>3. QED
      BY <1>3, <2>3, <3>2 DEF Agrees, Kept
  <2>4. CASE m = m0
    <3>1. Scanning(m0) = {w} /\ x = w /\ q = new
      <4>1. "overlap" \notin gap[run[w].of] /\ run[w].phase # "idle"
        BY <1>1, <2>1, <2>4
      <4>2. Scanning(m0) = {w}
        BY <4>1, OnlyRun
      <4>3. x \in Scanning(m0)
        BY <1>2, <2>1, <2>4
      <4>4. QED
        BY <1>2, <2>1, <4>2, <4>3
    <3>2. Agrees(run[w], m0)
      <4>1. RunsAgree
        BY DEF HistoryInv
      <4>2. run[w] \in Run /\ w \in Workers /\ w \in Scanning(m0) /\ IsStored(m0) /\ "overlap" \notin gap[m0]
        BY <1>1, <2>1, <2>2, <2>4, <3>1
      <4>3. PICK r \in Run, own \in Monitors : r = run[w] /\ own = m0
        BY <2>1, <2>4, <4>2
      <4>4. Agrees(r, own)
        BY <4>1, <4>2, <4>3 DEF RunsAgree
      <4>5. QED
        BY <4>3, <4>4
    <3>3. gap[m0] = {} /\ new.kind = "scan_unchanged" => told[m0] = new.value
      BY <3>2 DEF Agrees, AfterMark
    <3>4. row.base \in {None, new.id} /\ (new.phase \in {"hashed", "noting", "noted"} => row.hash = new.value)
      BY <1>3, <2>1, <2>4 DEF IsStored
    <3>5. QED
      BY <1>3, <2>4, <3>1, <3>3, <3>4 DEF Agrees, AfterMark
  <2>5. QED
    BY <2>3, <2>4
<1>9. QED
  BY <1>2, <1>4, <1>5, <1>6, <1>7, <1>8 DEF HistoryInv

LEMMA MarkKeeps == ASSUME HistoryInv, NEW w \in Workers, MarkScanned(w) PROVE HistoryInv'
<1> DEFINE m0 == run[w].of
<1> DEFINE new == [run[w] EXCEPT !.phase = "marked"]
<1>1. HistoryTypeOK /\ run[w] \in Run /\ m0 \in Monitors /\ run[w].phase = "saved" /\ UNCHANGED <<scan, domain, days, told>>
  BY RunFields DEF HistoryInv, MarkScanned
<1>2. /\ new \in Run /\ new.phase = "marked" /\ new.of = m0 /\ new.value = run[w].value /\ new.kind = run[w].kind
      /\ new.base = run[w].base /\ new.id = run[w].id
  BY <1>1 DEF Run, Phases
<1>3. monitor[m0] \in MonitorRow /\ run[w].id \in 0..MaxScans
  BY <1>1 DEF HistoryTypeOK, Run
<1>4. CASE IsStored(m0) /\ ~Kept(run[w].id)
  <2>1. Abort(w) /\ UNCHANGED monitor
    BY <1>4 DEF MarkScanned
  <2>2. QED
    BY <1>1, <2>1, AbortKeeps
<1>5. CASE IsStored(m0) /\ Kept(run[w].id)
  <2> DEFINE row == [monitor[m0] EXCEPT !.base = run[w].id]
  <2>1. row \in MonitorRow /\ row.base = run[w].id /\ row.stored = "yes"
    BY <1>3, <1>5 DEF MonitorRow, IsStored
  <2>2. monitor' = [monitor EXCEPT ![m0] = row] /\ run' = [run EXCEPT ![w] = new] /\ UNCHANGED gap
    BY <1>5 DEF MarkScanned
  <2> HIDE DEF row, new
  <2>3. QED
    BY <1>1, <1>2, <1>5, <2>1, <2>2, MarkedKeeps DEF AfterMark, IsStored
<1>6. CASE ~IsStored(m0)
  <2> DEFINE row == monitor[m0]
  <2>1. run' = [run EXCEPT ![w] = new] /\ UNCHANGED <<monitor, gap>>
    BY <1>6 DEF MarkScanned
  <2>2. monitor' = [monitor EXCEPT ![m0] = row]
    BY <1>1, <2>1 DEF HistoryTypeOK
  <2>3. /\ row.stored # "yes" /\ (row.stored = "no" => row.hash = Nothing)
        /\ row.base # None => Kept(row.base)
    BY <1>1, <1>6 DEF HistoryInv, Refers, IsStored
  <2> HIDE DEF new
  <2>4. QED
    BY <1>1, <1>2, <1>3, <2>1, <2>2, <2>3, MarkedKeeps DEF AfterMark
<1>7. QED
  BY <1>4, <1>5, <1>6

LEMMA HashKeeps == ASSUME HistoryInv, NEW w \in Workers, StoreHash(w) PROVE HistoryInv'
<1> DEFINE m0 == run[w].of
<1> DEFINE new == [run[w] EXCEPT !.phase = "hashed"]
<1> DEFINE row == IF IsStored(m0) THEN [monitor[m0] EXCEPT !.hash = run[w].value] ELSE monitor[m0]
<1>1. HistoryTypeOK /\ run[w] \in Run /\ m0 \in Monitors /\ run[w].phase = "marked" /\ UNCHANGED <<scan, domain, days, told, gap>>
  BY RunFields DEF HistoryInv, StoreHash
<1>2. /\ new \in Run /\ new.phase = "hashed" /\ new.of = m0 /\ new.value = run[w].value /\ new.kind = run[w].kind
      /\ new.base = run[w].base /\ new.id = run[w].id
  BY <1>1 DEF Run, Phases
<1>3. monitor[m0] \in MonitorRow /\ run[w].value \in Values
  BY <1>1, RunFields
<1>4. /\ row \in MonitorRow /\ row.base = monitor[m0].base /\ row.stored = monitor[m0].stored
      /\ row.stored = "yes" => row.hash = run[w].value
      /\ row.stored # "yes" => row.hash = monitor[m0].hash
  BY <1>3 DEF MonitorRow, IsStored
<1>5. monitor' = [monitor EXCEPT ![m0] = row] /\ run' = [run EXCEPT ![w] = new]
  BY <1>1 DEF StoreHash, HistoryTypeOK
<1> HIDE DEF row, new
<1>6. row.base # None => Kept(row.base)
  BY <1>1, <1>4 DEF HistoryInv, Refers
<1>7. row.stored = "no" => row.hash = Nothing
  BY <1>1, <1>4 DEF HistoryInv, Refers
<1>8. row.stored = "yes" /\ "overlap" \notin gap[m0] => row.base \in {None, new.id}
  <2> SUFFICES ASSUME row.stored = "yes", "overlap" \notin gap[m0] PROVE row.base \in {None, new.id}
    OBVIOUS
  <2>1. w \in Scanning(m0) /\ IsStored(m0)
    BY <1>1, <1>4 DEF Scanning, IsStored
  <2>2. Agrees(run[w], m0)
    BY <1>1, <2>1 DEF HistoryInv, RunsAgree
  <2>3. monitor[m0].base \in {None, run[w].id}
    BY <1>1, <2>2 DEF Agrees, AfterMark
  <2>4. QED
    BY <1>2, <1>4, <2>3
<1>9. QED
  BY <1>1, <1>2, <1>4, <1>5, <1>6, <1>7, <1>8, MarkedKeeps DEF AfterMark

\* note_scan, as CveAlerts has it: the run goes on.
NotingStep(w) ==
    /\ run[w].phase \in {"hashed", "noting"}
    /\ \E p \in {"noting", "noted"} : run' = [run EXCEPT ![w].phase = p]
    /\ UNCHANGED <<monitor, scan, domain, days, told, gap>>

LEMMA NotingKeeps == ASSUME HistoryInv, NEW w \in Workers, NotingStep(w) PROVE HistoryInv'
<1> DEFINE m0 == run[w].of
<1> DEFINE row == monitor[m0]
<1>1. PICK p \in {"noting", "noted"} : run' = [run EXCEPT ![w].phase = p]
  BY DEF NotingStep
<1> DEFINE new == [run[w] EXCEPT !.phase = p]
<1>2. /\ HistoryTypeOK /\ run[w] \in Run /\ m0 \in Monitors /\ run[w].phase \in {"hashed", "noting"} /\ row \in MonitorRow
      /\ UNCHANGED <<monitor, scan, domain, days, told, gap>>
  BY RunFields DEF HistoryInv, NotingStep
<1>3. /\ new \in Run /\ new.phase = p /\ new.of = m0 /\ new.value = run[w].value /\ new.kind = run[w].kind
      /\ new.base = run[w].base /\ new.id = run[w].id
  BY <1>2 DEF Run, Phases
<1>4. monitor' = [monitor EXCEPT ![m0] = row] /\ run' = [run EXCEPT ![w] = new]
  BY <1>1, <1>2 DEF HistoryTypeOK
<1> HIDE DEF new
<1>5. /\ row.base # None => Kept(row.base)
      /\ row.stored = "no" => row.hash = Nothing
  BY <1>2 DEF HistoryInv, Refers
<1>6. row.stored = "yes" /\ "overlap" \notin gap[m0] => row.base \in {None, new.id} /\ row.hash = new.value
  BY <1>2, <1>3 DEF HistoryInv, RunsAgree, Agrees, AfterMark, Scanning, IsStored
<1>7. QED
  BY <1>2, <1>3, <1>4, <1>5, <1>6, MarkedKeeps DEF AfterMark

LEMMA ReportKeeps == ASSUME HistoryInv, NEW w \in Workers, Report(w) PROVE HistoryInv'
<1> DEFINE r == run[w]
<1> DEFINE m0 == r.of
<1>1. /\ HistoryTypeOK /\ r \in Run /\ m0 \in Monitors /\ r.phase = "noted" /\ w \in Scanning(m0)
      /\ UNCHANGED <<monitor, scan, domain, days>>
  BY RunFields DEF HistoryInv, Report, Scanning
<1>2. CASE ~(IsStored(m0) /\ Kept(r.id))
  <2>1. Abort(w) /\ UNCHANGED told
    BY <1>2 DEF Report
  <2>2. QED
    BY <1>1, <2>1, AbortKeeps
<1>3. CASE IsStored(m0) /\ Kept(r.id)
  <2>1. /\ run' = [run EXCEPT ![w] = NoRun]
        /\ IF r.kind = "scan_unchanged" THEN UNCHANGED <<told, gap>>
           ELSE /\ told' = [told EXCEPT ![m0] = r.value]
                /\ gap' = [gap EXCEPT ![m0] = IF Scanning(m0) = {w} /\ "overlap" \notin @ THEN {} ELSE @]
    BY <1>3 DEF Report
  <2>2. /\ run' \in [Workers -> Run] /\ run'[w] = NoRun /\ \A x \in Workers : x # w => run'[x] = run[x]
        /\ told' \in [Monitors -> Values \cup {Nothing}] /\ gap' \in [Monitors -> SUBSET Reasons]
    BY <1>1, <2>1, RunFields, HistoryNumbers DEF HistoryTypeOK
  <2>3. \A m \in Monitors : m # m0 => told'[m] = told[m] /\ gap'[m] = gap[m]
    BY <1>1, <2>1 DEF HistoryTypeOK
  <2>4. /\ told'[m0] = IF r.kind = "scan_unchanged" THEN told[m0] ELSE r.value
        /\ gap'[m0] = gap[m0] \/ (gap'[m0] = {} /\ Scanning(m0) = {w} /\ "overlap" \notin gap[m0])
    BY <1>1, <2>1 DEF HistoryTypeOK
  <2>5. HistoryTypeOK'
    BY <1>1, <2>2 DEF HistoryTypeOK
  <2>6. \A m \in Monitors : "overlap" \in gap[m] => "overlap" \in gap'[m]
    BY <2>3, <2>4
  <2>7. \A x \in Workers : run'[x].phase # "idle" => x # w /\ run[x].phase # "idle" /\ run'[x] = run[x]
    BY <2>2, HistoryNumbers
  <2>8. Alone' /\ \A m \in Monitors : Scanning(m)' \subseteq Scanning(m)
    BY <2>6, <2>7, NoNewRun
  <2>9. Refers' /\ OwnScans'
    BY <1>1, <2>2, <2>8, HistoryNumbers, RunFields DEF HistoryInv, Refers, OwnScans, Kept, AfterMark, None
  \* Without an overlap this run was the only one, and has told what it stored.
  <2>10. ASSUME NEW m \in Monitors, m = m0, "overlap" \notin gap[m0], gap'[m0] = {} PROVE Settled(m)'
    <3>1. Agrees(r, m0)
      BY <1>1, <1>3, <2>10 DEF HistoryInv, RunsAgree
    <3>2. monitor[m0].base \in {None, r.id} /\ monitor[m0].hash = r.value /\ scan[r.id].value = r.value
      BY <1>1, <1>3, <3>1 DEF Agrees, AfterMark, HistoryInv, OwnScans
    <3>3. told'[m0] = r.value
      <4>1. CASE r.kind = "scan_unchanged"
        BY <1>1, <2>1, <2>10, <3>1, <4>1 DEF Agrees, AfterMark
      <4>2. CASE r.kind # "scan_unchanged"
        BY <2>4, <4>2
      <4>3. QED
        BY <4>1, <4>2
    <3>4. QED
      BY <1>1, <2>10, <3>2, <3>3 DEF Settled
  <2>11. AllSettled'
    <3>1. SUFFICES ASSUME NEW m \in Monitors, IsStored(m), gap'[m] = {},
                          \A x \in Scanning(m)' : run'[x].phase \notin AfterMark
                   PROVE  Settled(m)'
      BY <1>1 DEF AllSettled, IsStored
    <3>2. CASE m = m0
      BY <2>4, <2>10, <3>1, <3>2
    <3>3. CASE m # m0
      <4>1. \A x \in Scanning(m) : x \in Scanning(m)' /\ run'[x] = run[x]
        BY <1>1, <2>2, <3>3 DEF Scanning
      <4>2. Settled(m)
        BY <2>3, <3>1, <3>3, <4>1 DEF HistoryInv, AllSettled
      <4>3. QED
        BY <1>1, <2>3, <3>3, <4>2 DEF Settled
    <3>4. QED
      BY <3>2, <3>3
  <2>12. RunsAgree'
    <3>1. SUFFICES ASSUME NEW m \in Monitors, NEW x \in Workers, NEW q \in Run, q = run'[x], x \in Scanning(m)',
                          IsStored(m), "overlap" \notin gap'[m]
                   PROVE  Agrees(q, m)'
      BY <1>1 DEF RunsAgree, IsStored
    <3>2. x # w /\ q = run[x] /\ x \in Scanning(m)
      BY <2>7, <2>8, <3>1 DEF Scanning
    <3>3. "overlap" \notin gap[m]
      BY <2>6, <3>1
    <3>4. m # m0
      BY <1>1, <3>2, <3>3 DEF HistoryInv, Alone
    <3>5. Agrees(q, m)
      BY <3>1, <3>2, <3>3 DEF HistoryInv, RunsAgree
    <3>6. QED
      BY <1>1, <2>3, <3>4, <3>5 DEF Agrees, Kept
  <2>13. QED
    BY <2>5, <2>8, <2>9, <2>11, <2>12 DEF HistoryInv
<1>4. QED
  BY <1>2, <1>3

LEMMA CrashKeeps == ASSUME HistoryInv, Crash PROVE HistoryInv'
<1>1. /\ HistoryTypeOK /\ run' = [w \in Workers |-> NoRun] /\ UNCHANGED <<monitor, scan, domain, days, told>>
      /\ gap' = [m \in Monitors |-> IF \E w \in Scanning(m) : run[w].phase \in AfterMark
                                    THEN gap[m] \cup {"died"} ELSE gap[m]]
  BY DEF HistoryInv, Crash
<1>2. HistoryTypeOK'
  BY <1>1, HistoryNumbers DEF HistoryTypeOK, Reasons
<1>3. \A w \in Workers : run'[w] = NoRun
  BY <1>1
<1>4. Alone' /\ \A m \in Monitors : Scanning(m)' = {}
  BY <1>1, <1>3, HistoryNumbers DEF Alone, Scanning
<1>5. Refers' /\ OwnScans'
  BY <1>1, <1>3, <1>4, HistoryNumbers DEF HistoryInv, HistoryTypeOK, Refers, OwnScans, Kept, AfterMark, None
<1>6. AllSettled'
  BY <1>1, <1>4 DEF HistoryInv, AllSettled, Settled, IsStored
<1>7. RunsAgree'
  BY <1>4 DEF RunsAgree
<1>8. QED
  BY <1>2, <1>4, <1>5, <1>6, <1>7 DEF HistoryInv

LEMMA CreateKeeps == ASSUME HistoryInv, NEW m0 \in Monitors, CreateMonitor(m0) PROVE HistoryInv'
<1> DEFINE row == [monitor[m0] EXCEPT !.stored = "yes"]
<1>1. /\ HistoryTypeOK /\ monitor[m0].stored = "no" /\ monitor[m0] \in MonitorRow
      /\ UNCHANGED <<scan, run, domain, days, told, gap>>
  BY DEF HistoryInv, HistoryTypeOK, CreateMonitor
<1>2. row \in MonitorRow /\ row.stored = "yes" /\ row.base = monitor[m0].base /\ row.hash = monitor[m0].hash
  BY <1>1 DEF MonitorRow
<1>3. monitor' = [monitor EXCEPT ![m0] = row]
  BY <1>1 DEF CreateMonitor, HistoryTypeOK
<1> HIDE DEF row
<1>4. monitor' \in [Monitors -> MonitorRow] /\ monitor'[m0] = row /\ \A m \in Monitors : m # m0 => monitor'[m] = monitor[m]
  BY <1>1, <1>2, <1>3 DEF HistoryTypeOK
<1>5. monitor[m0].hash = Nothing /\ Scanning(m0) = {}
  BY <1>1 DEF HistoryInv, Refers
<1>6. \A m \in Monitors : Scanning(m)' = Scanning(m)
  BY <1>1 DEF Scanning
<1>7. HistoryTypeOK' /\ Alone' /\ OwnScans'
  BY <1>1, <1>4, <1>6 DEF HistoryInv, HistoryTypeOK, Alone, OwnScans, Kept
<1>8. Refers'
  BY <1>1, <1>2, <1>4, <1>6 DEF HistoryInv, Refers, Kept
<1>9. AllSettled'
  BY <1>1, <1>2, <1>4, <1>5, <1>6 DEF HistoryInv, AllSettled, Settled, IsStored
<1>10. RunsAgree'
  <2>1. SUFFICES ASSUME NEW m \in Monitors, NEW x \in Workers, NEW q \in Run, q = run[x], x \in Scanning(m),
                        IsStored(m)', "overlap" \notin gap[m]
                 PROVE  Agrees(q, m)'
    BY <1>1, <1>6 DEF RunsAgree
  <2>2. m # m0 /\ IsStored(m)
    BY <1>4, <1>5, <2>1 DEF IsStored
  <2>3. Agrees(q, m)
    BY <2>1, <2>2 DEF HistoryInv, RunsAgree
  <2>4. QED
    BY <1>1, <1>4, <2>2, <2>3 DEF Agrees, Kept
<1>11. QED
  BY <1>7, <1>8, <1>9, <1>10 DEF HistoryInv

LEMMA DeleteMonitorKeeps == ASSUME HistoryInv, NEW m0 \in Monitors, DeleteMonitor(m0) PROVE HistoryInv'
<1> DEFINE row == [stored |-> "deleted", base |-> None, hash |-> Nothing]
<1>1. /\ HistoryTypeOK /\ row \in MonitorRow /\ monitor' = [monitor EXCEPT ![m0] = row]
      /\ UNCHANGED <<scan, run, domain, days, told, gap>>
  BY HistoryNumbers DEF HistoryInv, DeleteMonitor, MonitorRow
<1>2. monitor' \in [Monitors -> MonitorRow] /\ monitor'[m0] = row /\ \A m \in Monitors : m # m0 => monitor'[m] = monitor[m]
  BY <1>1 DEF HistoryTypeOK
<1>3. row.stored = "deleted" /\ row.base = None
  OBVIOUS
<1> HIDE DEF row
<1>4. \A m \in Monitors : Scanning(m)' = Scanning(m)
  BY <1>1 DEF Scanning
<1>5. HistoryTypeOK' /\ Alone' /\ OwnScans'
  BY <1>1, <1>2, <1>4 DEF HistoryInv, HistoryTypeOK, Alone, OwnScans, Kept
<1>6. Refers'
  BY <1>1, <1>2, <1>3, <1>4 DEF HistoryInv, Refers, Kept
<1>7. AllSettled'
  BY <1>1, <1>2, <1>3, <1>4 DEF HistoryInv, AllSettled, Settled, IsStored
<1>8. RunsAgree'
  <2>1. SUFFICES ASSUME NEW m \in Monitors, NEW x \in Workers, NEW q \in Run, q = run[x], x \in Scanning(m),
                        IsStored(m)', "overlap" \notin gap[m]
                 PROVE  Agrees(q, m)'
    BY <1>1, <1>4 DEF RunsAgree
  <2>2. m # m0 /\ IsStored(m)
    BY <1>2, <1>3, <2>1 DEF IsStored
  <2>3. Agrees(q, m)
    BY <2>1, <2>2 DEF HistoryInv, RunsAgree
  <2>4. QED
    BY <1>1, <1>2, <2>2, <2>3 DEF Agrees, Kept
<1>9. QED
  BY <1>5, <1>6, <1>7, <1>8 DEF HistoryInv

\* Scans go from the history, and with them the baselines that are among them.
LEMMA ScansForgotten ==
    ASSUME HistoryTypeOK, NEW ids \in SUBSET (1..Len(scan)), Forgetting(ids)
    PROVE  /\ scan' \in Seq(ScanRow) /\ Len(scan') = Len(scan) /\ Len(scan) \in Nat
           /\ monitor' \in [Monitors -> MonitorRow]
           /\ \A i : Kept(i)' <=> Kept(i) /\ i \notin ids
           /\ \A i : Kept(i)' => scan'[i] = scan[i]
           /\ \A m \in Monitors :
                  /\ monitor'[m].stored = monitor[m].stored /\ monitor'[m].hash = monitor[m].hash
                  /\ monitor'[m].base = IF monitor[m].base \in ids THEN None ELSE monitor[m].base
<1>1. scan \in Seq(ScanRow) /\ Len(scan) \in Nat /\ monitor \in [Monitors -> MonitorRow]
  BY DEF HistoryTypeOK
<1>2. scan' = [i \in 1..Len(scan) |-> IF i \in ids THEN Gone ELSE scan[i]]
  BY DEF Forgetting
<1>3. \A i \in 1..Len(scan) : scan[i] \in ScanRow
  BY <1>1
<1>4. scan' \in [1..Len(scan) -> ScanRow]
  BY <1>2, <1>3, HistoryNumbers
<1>5. scan' \in Seq(ScanRow) /\ Len(scan') = Len(scan)
  BY <1>1, <1>4
<1>6. \A i : Kept(i)' <=> Kept(i) /\ i \notin ids
  BY <1>2, <1>5, HistoryNumbers DEF Kept
<1>7. \A i : Kept(i)' => scan'[i] = scan[i]
  BY <1>2, <1>5, <1>6 DEF Kept
<1>8. ASSUME NEW m \in Monitors
      PROVE  /\ monitor'[m] \in MonitorRow
             /\ monitor'[m].stored = monitor[m].stored /\ monitor'[m].hash = monitor[m].hash
             /\ monitor'[m].base = IF monitor[m].base \in ids THEN None ELSE monitor[m].base
  <2> DEFINE row == monitor[m]
  <2>1. row \in MonitorRow /\ None \in 0..MaxScans
    BY <1>1, HistoryNumbers
  <2>2. monitor'[m] = IF row.base \in ids THEN [row EXCEPT !.base = None] ELSE row
    BY DEF Forgetting
  <2> HIDE DEF row
  <2>3. /\ [row EXCEPT !.base = None] \in MonitorRow
        /\ [row EXCEPT !.base = None].base = None
        /\ [row EXCEPT !.base = None].stored = row.stored /\ [row EXCEPT !.base = None].hash = row.hash
    BY <2>1 DEF MonitorRow
  <2>4. QED
    BY <2>1, <2>2, <2>3 DEF row
<1>9. monitor' \in [Monitors -> MonitorRow]
  <2>1. monitor' = [m \in Monitors |-> IF monitor[m].base \in ids THEN [monitor[m] EXCEPT !.base = None] ELSE monitor[m]]
    BY DEF Forgetting
  <2>2. QED
    BY <1>8, <2>1
<1>10. QED
  BY <1>1, <1>5, <1>6, <1>7, <1>8, <1>9

LEMMA ForgettingKeeps ==
    ASSUME HistoryInv, NEW ids \in SUBSET (1..Len(scan)), Forgetting(ids), UNCHANGED <<run, domain, days, told, gap>>
    PROVE  HistoryInv'
<1>1. HistoryTypeOK /\ None \notin ids
  BY DEF HistoryInv, None
<1>2. /\ scan' \in Seq(ScanRow) /\ Len(scan') = Len(scan) /\ Len(scan) \in Nat
      /\ monitor' \in [Monitors -> MonitorRow]
      /\ \A i : Kept(i)' <=> Kept(i) /\ i \notin ids
      /\ \A i : Kept(i)' => scan'[i] = scan[i]
      /\ \A m \in Monitors :
             /\ monitor'[m].stored = monitor[m].stored /\ monitor'[m].hash = monitor[m].hash
             /\ monitor'[m].base = IF monitor[m].base \in ids THEN None ELSE monitor[m].base
  BY <1>1, ScansForgotten
<1>3. \A m \in Monitors : Scanning(m)' = Scanning(m) /\ (IsStored(m)' <=> IsStored(m))
  BY <1>2 DEF Scanning, IsStored
<1>4. HistoryTypeOK' /\ Alone'
  BY <1>1, <1>2, <1>3 DEF HistoryInv, HistoryTypeOK, Alone
<1>5. ASSUME NEW m \in Monitors, NEW i, i = monitor'[m].base
      PROVE  i # None => i = monitor[m].base /\ Kept(i)' /\ scan'[i] = scan[i]
  BY <1>2, <1>5 DEF HistoryInv, Refers
<1>6. Refers'
  <2>1. ASSUME NEW m \in Monitors, NEW i, i = monitor'[m].base PROVE i # None => Kept(i)'
    BY <1>5, <2>1
  <2>2. QED
    BY <1>2, <1>3, <2>1 DEF HistoryInv, Refers, Kept
<1>7. OwnScans'
  <2>1. SUFFICES ASSUME NEW x \in Workers, NEW i, i = run[x].id, run[x].phase \in {"saved"} \cup AfterMark, Kept(i)'
                 PROVE  scan'[i].value = run[x].value
    BY <1>2 DEF HistoryInv, OwnScans, Kept
  <2>2. Kept(i) /\ scan'[i] = scan[i]
    BY <1>2, <2>1
  <2>3. QED
    BY <2>1, <2>2 DEF HistoryInv, OwnScans
<1>8. AllSettled'
  <2>1. ASSUME NEW m \in Monitors, Settled(m) PROVE Settled(m)'
    BY <1>2, <1>5, <2>1 DEF Settled
  <2>2. QED
    BY <1>3, <2>1 DEF HistoryInv, AllSettled
<1>9. RunsAgree'
  <2>1. SUFFICES ASSUME NEW m \in Monitors, NEW x \in Workers, NEW q \in Run, q = run[x], x \in Scanning(m),
                        IsStored(m), "overlap" \notin gap[m]
                 PROVE  Agrees(q, m)'
    BY <1>3 DEF RunsAgree
  <2>2. Agrees(q, m)
    BY <2>1 DEF HistoryInv, RunsAgree
  <2>3. monitor'[m].base = monitor[m].base \/ (monitor'[m].base = None /\ monitor[m].base \in ids)
    BY <1>2
  <2>4. Kept(q.base)' <=> Kept(q.base) /\ q.base \notin ids
    BY <1>2
  <2>5. QED
    BY <1>1, <1>2, <2>2, <2>3, <2>4 DEF Agrees
<1>10. QED
  BY <1>4, <1>6, <1>7, <1>8, <1>9 DEF HistoryInv

LEMMA TimeKeeps == ASSUME HistoryInv, TimePasses PROVE HistoryInv'
<1>1. /\ HistoryTypeOK /\ days < MaxDays /\ days' = days + 1 /\ UNCHANGED <<monitor, run, domain, told, gap>>
      /\ scan' = [i \in 1..Len(scan) |-> [scan[i] EXCEPT !.aged = scan[i].kept]]
  BY DEF HistoryInv, TimePasses
<1>2. scan \in Seq(ScanRow) /\ Len(scan) \in Nat /\ \A i \in 1..Len(scan) : scan[i] \in ScanRow
  BY <1>1 DEF HistoryTypeOK
<1>3. ASSUME NEW row \in ScanRow
      PROVE  /\ [row EXCEPT !.aged = row.kept] \in ScanRow
             /\ [row EXCEPT !.aged = row.kept].kept = row.kept /\ [row EXCEPT !.aged = row.kept].value = row.value
  BY DEF ScanRow
<1>4. scan' \in [1..Len(scan) -> ScanRow]
  BY <1>1, <1>2, <1>3
<1>5. /\ scan' \in Seq(ScanRow) /\ Len(scan') = Len(scan)
      /\ \A i \in 1..Len(scan) : scan'[i].kept = scan[i].kept /\ scan'[i].value = scan[i].value
  <2>1. scan' \in Seq(ScanRow) /\ Len(scan') = Len(scan)
    BY <1>2, <1>4
  <2>2. \A i \in 1..Len(scan) : scan'[i] = [scan[i] EXCEPT !.aged = scan[i].kept]
    BY <1>1
  <2>3. QED
    BY <1>2, <1>3, <2>1, <2>2
<1>6. \A i : Kept(i)' <=> Kept(i)
  BY <1>5 DEF Kept
<1>7. \A m \in Monitors : Scanning(m)' = Scanning(m)
  BY <1>1 DEF Scanning
<1>8. days' \in 0..MaxDays
  BY <1>1, HistoryNumbers DEF HistoryTypeOK
<1>9. HistoryTypeOK' /\ Alone'
  BY <1>1, <1>5, <1>7, <1>8 DEF HistoryInv, HistoryTypeOK, Alone
<1>10. Refers' /\ OwnScans'
  BY <1>1, <1>5, <1>7 DEF HistoryInv, Refers, OwnScans, Kept
<1>11. ASSUME NEW m \in Monitors, Settled(m) PROVE Settled(m)'
  <2>1. monitor[m].base # None => monitor[m].base \in 1..Len(scan)
    BY DEF HistoryInv, Refers, Kept
  <2>2. QED
    BY <1>1, <1>5, <1>11, <2>1 DEF Settled
<1>12. AllSettled'
  BY <1>1, <1>7, <1>11 DEF HistoryInv, AllSettled, IsStored
<1>13. RunsAgree'
  BY <1>1, <1>6, <1>7 DEF HistoryInv, RunsAgree, Agrees, IsStored
<1>14. QED
  BY <1>9, <1>10, <1>12, <1>13 DEF HistoryInv

LEMMA DriftKeeps == ASSUME HistoryInv, NEW m0 \in Monitors, Drift(m0) PROVE HistoryInv'
<1>1. PICK s \in States : domain' = [domain EXCEPT ![m0] = s]
  BY DEF Drift
<1>2. UNCHANGED <<monitor, scan, run, days, told, gap>>
  BY DEF Drift
<1>3. QED
  BY <1>1, <1>2 DEF HistoryInv, HistoryTypeOK, Refers, OwnScans, Alone, AllSettled, Settled, RunsAgree, Agrees,
                     Kept, Scanning, IsStored

LEMMA HistoryStays == ASSUME HistoryInv, UNCHANGED historyVars PROVE HistoryInv'
<1>1. UNCHANGED <<monitor, scan, run, domain, days, told, gap>>
  BY DEF historyVars
<1>2. QED
  BY <1>1 DEF HistoryInv, HistoryTypeOK, Refers, OwnScans, Alone, AllSettled, Settled, RunsAgree, Agrees,
              Kept, Scanning, IsStored

\* The steps of a scan, of people and of the purge.
LEMMA StepKeeps == ASSUME HistoryInv, HistoryStep PROVE HistoryInv'
<1>1. ASSUME NEW w \in Workers, RunStep(w) PROVE HistoryInv'
  <2>1. CASE FailRun(w)
    BY <2>1, AbortKeeps DEF FailRun
  <2>2. QED
    BY <1>1, <2>1, BeginRunKeeps, MeasureKeeps, CompareKeeps, SaveKeeps, MarkKeeps, HashKeeps, ReportKeeps DEF RunStep
<1>2. ASSUME NEW m \in Monitors, CreateMonitor(m) \/ DeleteMonitor(m) \/ Drift(m) PROVE HistoryInv'
  BY <1>2, CreateKeeps, DeleteMonitorKeeps, DriftKeeps
<1>3. ASSUME NEW i \in 1..Len(scan), DeleteScan(i) PROVE HistoryInv'
  BY <1>3, ForgettingKeeps DEF DeleteScan
<1>4. CASE ClearHistory
  BY <1>4, ForgettingKeeps DEF ClearHistory
<1>5. CASE Purge
  <2>1. Purgeable \in SUBSET (1..Len(scan))
    BY DEF Purgeable
  <2>2. QED
    BY <1>5, <2>1, ForgettingKeeps DEF Purge
<1>6. CASE TimePasses
  BY <1>6, TimeKeeps
<1>7. QED
  BY <1>1, <1>2, <1>3, <1>4, <1>5, <1>6 DEF HistoryStep

\* Whatever happens to the history, with CveAlerts or without.
HistoryMove ==
    HistoryStep \/ Crash \/ (\E w \in Workers : NotingStep(w)) \/ UNCHANGED historyVars

LEMMA MoveKeeps == ASSUME HistoryInv, HistoryMove PROVE HistoryInv'
BY StepKeeps, CrashKeeps, NotingKeeps, HistoryStays DEF HistoryMove

LEMMA NextMoves == ASSUME [HistoryNext]_historyVars PROVE HistoryMove
BY DEF HistoryNext, HistoryMove, NoteScan, NotingStep

LEMMA HistoryAlways == HistorySpec => []HistoryInv
<1>1. HistoryInit => HistoryInv
  BY HistoryBegins
<1>2. HistoryInv /\ [HistoryNext]_historyVars => HistoryInv'
  BY NextMoves, MoveKeeps
<1>3. QED
  BY <1>1, <1>2, PTL DEF HistorySpec

LEMMA InvReports == HistoryInv => ReportsFollowBaseline
BY DEF HistoryInv, AllSettled, Settled, ReportsFollowBaseline

\* What was last told of a monitor is what its baseline shows, for any number of
\* monitors, workers and scans (app.py, _scan_monitor).
THEOREM ReportsFollow == HistorySpec => []ReportsFollowBaseline
BY HistoryAlways, InvReports, PTL

\* No purge takes a baseline.
LEMMA PurgeSpares ==
    ASSUME HistoryInv, Purge, NEW m \in Monitors, Kept(monitor[m].base)
    PROVE  Kept(monitor[m].base)'
<1>1. HistoryTypeOK /\ Purgeable \in SUBSET (1..Len(scan)) /\ Forgetting(Purgeable)
  BY DEF HistoryInv, Purge, Purgeable
<1>2. monitor[m].base \notin Purgeable
  BY DEF Purgeable
<1>3. /\ \A i : Kept(i)' <=> Kept(i) /\ i \notin Purgeable
      /\ monitor'[m].base = monitor[m].base
  BY <1>1, <1>2, ScansForgotten
<1>4. QED
  BY <1>2, <1>3, Zenon DEF Kept

\* The steps of a run that only prepare.
LEMMA QuietSteps ==
    ASSUME NEW w \in Workers, RunStep(w)
    PROVE  UNCHANGED <<scan, monitor>> \/ SaveScan(w) \/ MarkScanned(w) \/ StoreHash(w)
<1>1. ASSUME NEW m \in Monitors, BeginRun(w, m) PROVE UNCHANGED <<scan, monitor>>
  BY <1>1 DEF BeginRun
<1>2. ASSUME Measure(w) \/ Report(w) \/ FailRun(w) PROVE UNCHANGED <<scan, monitor>>
  BY <1>2 DEF Measure, Report, FailRun
<1>3. ASSUME Compare(w) PROVE UNCHANGED <<scan, monitor>>
  BY <1>3 DEF Compare
<1>4. QED
  BY <1>1, <1>2, <1>3, Zenon DEF RunStep

\* A run moves the baseline to a scan that is there, and nothing but a deletion
\* takes that scan away.
LEMMA RunSpares ==
    ASSUME HistoryInv, HistoryMove, ~Purge, ~ClearHistory, \A i \in 1..Len(scan) : ~DeleteScan(i),
           NEW m \in Monitors, IsStored(m), IsStored(m)', Kept(monitor[m].base)
    PROVE  Kept(monitor[m].base)'
<1>1. HistoryTypeOK /\ scan \in Seq(ScanRow) /\ Len(scan) \in Nat /\ monitor \in [Monitors -> MonitorRow]
  BY DEF HistoryInv, HistoryTypeOK
<1>2. CASE UNCHANGED <<scan, monitor>>
  BY <1>2 DEF Kept
<1>3. ASSUME NEW o \in Monitors, CreateMonitor(o) \/ DeleteMonitor(o) PROVE Kept(monitor[m].base)'
  <2>1. UNCHANGED scan
    BY <1>3 DEF CreateMonitor, DeleteMonitor
  <2>2. CASE CreateMonitor(o)
    <3>1. monitor'[m].base = monitor[m].base
      BY <1>1, <2>2 DEF CreateMonitor, MonitorRow
    <3>2. QED
      BY <2>1, <3>1 DEF Kept
  <2>3. CASE DeleteMonitor(o)
    <3>1. monitor' = [monitor EXCEPT ![o] = [stored |-> "deleted", base |-> None, hash |-> Nothing]]
      BY <2>3 DEF DeleteMonitor
    <3>2. m # o
      BY <1>1, <3>1 DEF IsStored
    <3>3. monitor'[m] = monitor[m]
      BY <1>1, <3>1, <3>2
    <3>4. QED
      BY <2>1, <3>3 DEF Kept
  <2>4. QED
    BY <1>3, <2>2, <2>3
<1>4. CASE TimePasses
  BY <1>1, <1>4 DEF TimePasses, Kept
<1>5. ASSUME NEW w \in Workers, SaveScan(w) PROVE Kept(monitor[m].base)'
  <2>1. UNCHANGED monitor /\ (scan' = scan \/ scan' = Append(scan, [kept |-> TRUE, value |-> run[w].value, aged |-> FALSE]))
    BY <1>5 DEF SaveScan
  <2>2. QED
    BY <1>1, <2>1 DEF Kept
<1>6. ASSUME NEW w \in Workers, MarkScanned(w) \/ StoreHash(w) PROVE Kept(monitor[m].base)'
  <2>1. run[w].of \in Monitors /\ UNCHANGED scan
    BY <1>1, <1>6, RunFields DEF MarkScanned, StoreHash
  <2>2. \/ monitor' = monitor
        \/ monitor' = [monitor EXCEPT ![run[w].of].base = run[w].id] /\ Kept(run[w].id)
        \/ monitor' = [monitor EXCEPT ![run[w].of].hash = run[w].value]
    BY <1>6 DEF MarkScanned, StoreHash
  <2>3. monitor'[m].base = monitor[m].base \/ (monitor'[m].base = run[w].id /\ Kept(run[w].id))
    BY <1>1, <2>1, <2>2 DEF MonitorRow
  <2>4. QED
    BY <2>1, <2>3 DEF Kept
<1>7. ASSUME NEW w \in Workers, RunStep(w) PROVE Kept(monitor[m].base)'
  <2>1. UNCHANGED <<scan, monitor>> \/ SaveScan(w) \/ MarkScanned(w) \/ StoreHash(w)
    BY <1>7, QuietSteps
  <2>2. QED
    BY <1>2, <1>5, <1>6, <2>1, Zenon
<1>8. CASE Crash \/ (\E w \in Workers : NotingStep(w)) \/ (\E o \in Monitors : Drift(o)) \/ UNCHANGED historyVars
  BY <1>2, <1>8 DEF Crash, NotingStep, Drift, historyVars
<1>9. QED
  BY <1>3, <1>4, <1>7, <1>8, Zenon DEF HistoryMove, HistoryStep

LEMMA BaselinesStay ==
    ASSUME HistoryInv, HistoryMove
    PROVE  \A m \in Monitors :
               (IsStored(m) /\ Kept(monitor[m].base) /\ IsStored(m)' /\ ~Kept(monitor[m].base)')
                   => ~Purge /\ (ClearHistory \/ DeleteScan(monitor[m].base))
<1>1. SUFFICES ASSUME NEW m \in Monitors, IsStored(m), Kept(monitor[m].base), IsStored(m)', ~Kept(monitor[m].base)'
               PROVE  ~Purge /\ (ClearHistory \/ DeleteScan(monitor[m].base))
  OBVIOUS
<1>2. ~Purge
  BY <1>1, PurgeSpares
<1>3. ASSUME NEW i \in 1..Len(scan), DeleteScan(i), i # monitor[m].base PROVE FALSE
  <2>1. HistoryTypeOK /\ {i} \in SUBSET (1..Len(scan)) /\ Forgetting({i})
    BY <1>3 DEF HistoryInv, DeleteScan
  <2>2. /\ \A j : Kept(j)' <=> Kept(j) /\ j \notin {i}
        /\ monitor'[m].base = monitor[m].base
    BY <1>3, <2>1, ScansForgotten
  <2>3. Kept(monitor[m].base)'
    BY <1>1, <1>3, <2>2, Zenon DEF Kept
  <2>4. QED
    BY <1>1, <2>3
<1>4. QED
  BY <1>1, <1>2, <1>3, RunSpares

\* No purge, and no run, takes away what a monitor compares with: only a person
\* does (maintenance.purge; app.py, _scan_monitor).
THEOREM BaselinesOutliveThePurge == HistorySpec => PurgeKeepsBaselines
<1>1. HistoryInv /\ [HistoryNext]_historyVars =>
          [\A m \in Monitors :
              (IsStored(m) /\ Kept(monitor[m].base) /\ IsStored(m)' /\ ~Kept(monitor[m].base)')
                  => ~Purge /\ (ClearHistory \/ DeleteScan(monitor[m].base))]_historyVars
  BY NextMoves, BaselinesStay
<1>2. QED
  BY <1>1, HistoryAlways, PTL DEF HistorySpec, PurgeKeepsBaselines

(***************************************************************************)
(* Part III.  CveAlerts: the inductive invariant.                          *)
(***************************************************************************)
About == {"stock", "compared", "told"}

\* Nothing is known or told of a monitor that never was.
NotYet ==
    \A m \in Monitors : monitor[m].stored = "no" =>
        /\ known[m] = NoneKnown /\ alerted[m] = NoneKnown
        /\ m \notin check.todo /\ (check.phase \in About => check.of # m)

\* What a comparison told, or found known, when it goes on to remember it.
TellsWhatItKnows ==
    /\ check.phase \in {"compared", "told"} => check.version \in Shown
    /\ (check.phase = "told" /\ IsStored(check.of)) =>
           \A c \in Cves : \/ check.read[c] <= alerted[check.of][check.version][c]
                           \/ check.read[c] <= quiet[check.of][check.version][c] \/ check.read[c] <= missed[check.of][check.version][c]

\* The event is out, and what it told is not remembered yet.
Pending(m, v, c) ==
    check.phase = "told" /\ check.of = m /\ check.version = v /\ alerted[m][v][c] <= check.read[c]

\* What was told is known, but for what may be told again.
ToldIsKnown ==
    \A m \in Monitors, v \in Shown, c \in Cves :
        (IsStored(m) /\ alerted[m][v][c] > known[m][v][c]) => c \in again[m][v] \/ Pending(m, v, c)

\* What a worker and a sync have in hand, and what is stored of the CVEs.
CveTyped ==
    /\ data \in Level /\ fresh \in {"never", "stale", "current"}
    /\ known \in [Monitors -> PerVersion] /\ noted \in [Monitors -> 0..MaxScans]
    /\ assessed \in [Workers -> Level] /\ found \in [Workers -> Level]
    /\ check \in Check
    /\ alerted \in [Monitors -> PerVersion]
    /\ quiet \in [Monitors -> PerVersion] /\ missed \in [Monitors -> PerVersion]
    /\ again \in [Monitors -> [Shown -> SUBSET Cves]]

CveInv == HistoryInv /\ CveTyped /\ NotYet /\ TellsWhatItKnows /\ ToldIsKnown /\ KnownWasTold

(***************************************************************************)
(* The steps.                                                              *)
(***************************************************************************)
\* What the functions hold, one value at a time.
LEMMA CveLevels ==
    ASSUME CveTyped
    PROVE  /\ \A m \in Monitors, v \in Shown, c \in Cves :
                  known[m][v][c] \in 0..2 /\ alerted[m][v][c] \in 0..2 /\ quiet[m][v][c] \in 0..2 /\ missed[m][v][c] \in 0..2
           /\ \A c \in Cves : check.read[c] \in 0..2
           /\ check.of \in Monitors /\ check.todo \subseteq Monitors /\ check.read \in Level /\ check.version \in Values
           /\ check.base \in [Monitors -> 0..MaxScans] /\ check.current \in BOOLEAN
BY DEF CveTyped, PerVersion, Level, Levels, Check

LEMMA NoneOfAny ==
    /\ NoCves \in Level /\ NoneKnown \in PerVersion
    /\ \A v \in Shown, c \in Cves : NoneKnown[v][c] = 0
    /\ \A c \in Cves : NoCves[c] = 0
BY DEF NoCves, NoneKnown, Level, Levels, PerVersion

LEMMA NoCheckTyped ==
    /\ NoCheck \in Check /\ NoCheck.phase = "idle" /\ NoCheck.todo = {}
    /\ NoCheck.of \in Monitors /\ NoBase \in [Monitors -> 0..MaxScans]
<1>1. (CHOOSE m \in Monitors : TRUE) \in Monitors
  BY HistoryConstants
<1>2. NoBase \in [Monitors -> 0..MaxScans]
  BY HistoryNumbers DEF NoBase
<1>3. NoCheck \in Check
  BY <1>1, <1>2, HistoryNumbers, NoneOfAny DEF NoCheck, Check
<1>4. QED
  BY <1>1, <1>2, <1>3 DEF NoCheck

LEMMA CveBegins == ASSUME CveInit PROVE CveInv
<1>1. HistoryInv
  BY HistoryBegins DEF CveInit
<1>2. CveTyped
  BY NoneOfAny, NoCheckTyped, HistoryNumbers DEF CveInit, CveTyped
<1>3. NotYet /\ TellsWhatItKnows
  BY NoCheckTyped DEF CveInit, NotYet, TellsWhatItKnows, About
<1>4. ToldIsKnown /\ KnownWasTold
  BY NoneOfAny DEF CveInit, ToldIsKnown, KnownWasTold
<1>5. QED
  BY <1>1, <1>2, <1>3, <1>4 DEF CveInv

\* With CveAlerts the history goes on as without, but that noting takes two
\* steps.
LEMMA CveMoves == ASSUME [CveNext]_alertVars PROVE HistoryMove
<1>1. CASE UNCHANGED alertVars
  <2>1. UNCHANGED historyVars
    BY <1>1 DEF alertVars
  <2>2. QED
    BY <2>1 DEF HistoryMove
<1>2. CASE OtherStep
  <2>1. HistoryStep
    BY <1>2, Zenon DEF OtherStep, HistoryStep, RunStep
  <2>2. QED
    BY <2>1 DEF HistoryMove
<1>3. ASSUME NEW w \in Workers, MeasureCves(w) PROVE HistoryMove
  <2>1. Measure(w)
    BY <1>3 DEF MeasureCves
  <2>2. QED
    BY <2>1, Zenon DEF HistoryMove, HistoryStep, RunStep
<1>4. ASSUME NEW w \in Workers, NoteRead(w) \/ NoteWrite(w) \/ NoteFails(w) PROVE HistoryMove
  <2>1. UNCHANGED <<monitor, scan, domain, days, told, gap>> /\ run[w].phase \in {"hashed", "noting"}
    BY <1>4 DEF NoteRead, NoteWrite, NoteFails
  <2>2. \E p \in {"noting", "noted"} : run' = [run EXCEPT ![w].phase = p]
    BY <1>4 DEF NoteRead, NoteWrite, NoteFails
  <2>3. NotingStep(w)
    BY <2>1, <2>2, Zenon DEF NotingStep
  <2>4. QED
    BY <2>3, Zenon DEF HistoryMove
<1>5. ASSUME NEW m \in Monitors, DeleteMonitorOnly(m) PROVE HistoryMove
  <2>1. DeleteMonitor(m)
    BY <1>5 DEF DeleteMonitorOnly
  <2>2. QED
    BY <2>1, Zenon DEF HistoryMove, HistoryStep
<1>6. CASE CrashAll
  <2>1. Crash \/ UNCHANGED historyVars
    BY <1>6 DEF CrashAll
  <2>2. QED
    BY <2>1, Zenon DEF HistoryMove
<1>7. CASE Sync \/ SyncFails \/ Ages \/ Listed \/ Stock \/ Tell \/ Remember \/ Skip \/ SyncEnds \/ \E m \in Monitors : Look(m)
  <2>1. (Sync \/ SyncFails \/ Ages \/ Listed \/ Stock) => UNCHANGED historyVars
    <3>1. Sync => UNCHANGED historyVars
      BY DEF Sync
    <3>2. Listed => UNCHANGED historyVars
      BY DEF Listed
    <3>3. (SyncFails \/ Ages \/ Stock) => UNCHANGED historyVars
      BY DEF SyncFails, Ages, Stock
    <3>4. QED
      BY <3>1, <3>2, <3>3
  <2>2. (Tell \/ Remember \/ Skip \/ SyncEnds) => UNCHANGED historyVars
    BY DEF Tell, Remember, Skip, SyncEnds
  <2>3. \A m \in Monitors : Look(m) => UNCHANGED historyVars
    BY DEF Look
  <2>4. QED
    BY <1>7, <2>1, <2>2, <2>3, Zenon DEF HistoryMove
<1>8. QED
  BY <1>1, <1>2, <1>3, <1>4, <1>5, <1>6, <1>7, Zenon DEF CveNext

\* A monitor is stored once, and what is deleted does not come back.
LEMMA MonitorsMove ==
    ASSUME HistoryInv, HistoryMove, NEW m \in Monitors
    PROVE  /\ monitor'[m].stored = "no" => monitor[m].stored = "no"
           /\ IsStored(m)' => monitor[m].stored \in {"no", "yes"}
<1>1. HistoryTypeOK /\ monitor \in [Monitors -> MonitorRow] /\ monitor[m] \in MonitorRow
  BY DEF HistoryInv, HistoryTypeOK
<1>2. CASE UNCHANGED monitor
  BY <1>1, <1>2 DEF IsStored, MonitorRow
<1>3. ASSUME NEW o \in Monitors, CreateMonitor(o) \/ DeleteMonitor(o)
      PROVE  /\ monitor'[m].stored = "no" => monitor[m].stored = "no"
             /\ IsStored(m)' => monitor[m].stored \in {"no", "yes"}
  <2>1. CASE m # o
    <3>1. monitor'[m] = monitor[m]
      BY <1>1, <1>3, <2>1 DEF CreateMonitor, DeleteMonitor
    <3>2. QED
      BY <1>1, <3>1 DEF IsStored, MonitorRow
  <2>2. CASE m = o /\ CreateMonitor(o)
    BY <1>1, <2>2 DEF CreateMonitor
  <2>3. CASE m = o /\ DeleteMonitor(o)
    BY <1>1, <2>3 DEF DeleteMonitor, IsStored
  <2>4. QED
    BY <1>3, <2>1, <2>2, <2>3
<1>4. ASSUME NEW w \in Workers, MarkScanned(w) \/ StoreHash(w) PROVE monitor'[m].stored = monitor[m].stored
  <2>1. run[w].of \in Monitors
    BY <1>1, RunFields
  <2>2. \/ monitor' = monitor
        \/ monitor' = [monitor EXCEPT ![run[w].of].base = run[w].id]
        \/ monitor' = [monitor EXCEPT ![run[w].of].hash = run[w].value]
    BY <1>4 DEF MarkScanned, StoreHash
  <2>3. QED
    BY <1>1, <2>1, <2>2 DEF MonitorRow
<1>5. ASSUME NEW ids \in SUBSET (1..Len(scan)), Forgetting(ids) PROVE monitor'[m].stored = monitor[m].stored
  BY <1>1, <1>5, ScansForgotten
<1>6. Purgeable \in SUBSET (1..Len(scan))
  BY DEF Purgeable
<1>7. CASE monitor'[m].stored = monitor[m].stored
  BY <1>1, <1>7 DEF IsStored, MonitorRow
<1>8. CASE Purge \/ ClearHistory \/ \E i \in 1..Len(scan) : DeleteScan(i)
  BY <1>5, <1>6, <1>7, <1>8 DEF Purge, ClearHistory, DeleteScan
<1>9. ASSUME NEW w \in Workers, RunStep(w) PROVE UNCHANGED monitor \/ monitor'[m].stored = monitor[m].stored
  <2>1. SaveScan(w) => UNCHANGED monitor
    BY DEF SaveScan
  <2>2. QED
    BY <1>4, <1>9, <2>1, QuietSteps
<1>10. CASE Crash \/ (\E w \in Workers : NotingStep(w)) \/ (\E o \in Monitors : Drift(o)) \/ UNCHANGED historyVars \/ TimePasses
  BY <1>2, <1>10 DEF Crash, NotingStep, Drift, historyVars, TimePasses
<1>11. QED
  BY <1>2, <1>3, <1>7, <1>8, <1>9, <1>10, Zenon DEF HistoryMove, HistoryStep

\* A step that touches nothing of what is known and told.
LEMMA KnowledgeStays ==
    ASSUME CveInv, HistoryMove, UNCHANGED <<data, fresh, known, noted, check, alerted, quiet, missed, again>>,
           assessed' \in [Workers -> Level], found' \in [Workers -> Level]
    PROVE  CveInv'
<1>1. HistoryInv'
  BY MoveKeeps DEF CveInv
<1>2. CveTyped'
  BY DEF CveInv, CveTyped
<1>3. ASSUME NEW m \in Monitors
      PROVE  /\ monitor'[m].stored = "no" => monitor[m].stored = "no"
             /\ IsStored(m)' => IsStored(m) \/ (monitor[m].stored = "no" /\ known[m] = NoneKnown /\ alerted[m] = NoneKnown)
  BY MonitorsMove DEF CveInv, NotYet, IsStored
<1>4. NotYet'
  BY <1>3 DEF CveInv, NotYet
<1>5. ASSUME check.phase = "told", IsStored(check.of)' PROVE IsStored(check.of)
  <2>1. check.of \in Monitors /\ monitor[check.of].stored # "no"
    BY <1>5, CveLevels DEF CveInv, NotYet, About
  <2>2. QED
    BY <1>3, <1>5, <2>1
<1>6. TellsWhatItKnows'
  <2>1. check' = check /\ alerted' = alerted /\ quiet' = quiet /\ missed' = missed
    OBVIOUS
  <2>2. ASSUME NEW m, m = check.of, check.phase = "told", IsStored(m)' PROVE IsStored(m)
    BY <1>5, <2>2, <2>1
  <2>3. QED
    BY <2>1, <2>2 DEF CveInv, TellsWhatItKnows, IsStored
<1>7. ToldIsKnown' /\ KnownWasTold'
  <2>1. ASSUME NEW m \in Monitors, NEW v \in Shown, NEW c \in Cves, IsStored(m)'
        PROVE  /\ alerted[m][v][c] > known[m][v][c] => c \in again[m][v] \/ Pending(m, v, c)
               /\ known[m][v][c] <= alerted[m][v][c] \/ known[m][v][c] <= quiet[m][v][c] \/ known[m][v][c] <= missed[m][v][c]
    <3>1. CASE IsStored(m)
      BY <3>1 DEF CveInv, ToldIsKnown, KnownWasTold
    <3>2. CASE known[m] = NoneKnown /\ alerted[m] = NoneKnown
      BY <3>2, NoneOfAny
    <3>3. QED
      BY <1>3, <2>1, <3>1, <3>2
  <2>2. QED
    BY <2>1 DEF ToldIsKnown, KnownWasTold, Pending, IsStored
<1>8. QED
  BY <1>1, <1>2, <1>4, <1>6, <1>7 DEF CveInv

LEMMA InUseTyped == ASSUME NEW f \in [Workers -> Level] PROVE InUse(f) \in [Workers -> Level]
BY NoneOfAny DEF InUse

LEMMA AppliesTyped == ASSUME CveTyped, NEW v PROVE Applicable(v) \in Level
BY NoneOfAny DEF CveTyped, Applicable

LEMMA ScansKeepKnowledge ==
    ASSUME CveInv, OtherStep \/ \E w \in Workers : MeasureCves(w) \/ NoteRead(w) \/ NoteFails(w)
    PROVE  CveInv'
<1>1. CveTyped /\ assessed \in [Workers -> Level] /\ found \in [Workers -> Level]
  BY DEF CveInv, CveTyped
<1>2. HistoryMove
  BY CveMoves, Zenon DEF CveNext
<1>3. CASE OtherStep
  BY <1>1, <1>2, <1>3, InUseTyped, KnowledgeStays DEF OtherStep
<1>4. ASSUME NEW w \in Workers, MeasureCves(w) PROVE CveInv'
  <2>1. assessed' \in [Workers -> Level]
    BY <1>1, <1>4, AppliesTyped, NoneOfAny DEF MeasureCves
  <2>2. QED
    BY <1>1, <1>2, <1>4, <2>1, KnowledgeStays DEF MeasureCves
<1>5. ASSUME NEW w \in Workers, NoteRead(w) PROVE CveInv'
  <2>1. found' \in [Workers -> Level] /\ assessed' \in [Workers -> Level]
    BY <1>1, <1>5, AppliesTyped, InUseTyped DEF NoteRead
  <2>2. QED
    BY <1>1, <1>2, <1>5, <2>1, KnowledgeStays DEF NoteRead
<1>6. ASSUME NEW w \in Workers, NoteFails(w) PROVE CveInv'
  BY <1>1, <1>2, <1>6, InUseTyped, KnowledgeStays DEF NoteFails
<1>7. QED
  BY <1>3, <1>4, <1>5, <1>6

\* The monitors stay, and so does what is known and told of them; only the
\* sync goes on.
LEMMA CheckMoves ==
    ASSUME CveInv, HistoryMove, UNCHANGED <<monitor, known, noted, assessed, found, alerted, quiet, missed, again>>,
           data' \in Level, fresh' \in {"never", "stale", "current"}, check' \in Check,
           check'.phase \notin {"told"}, check.phase # "told",
           check'.phase = "compared" => check'.version \in Shown,
           \A m \in Monitors : monitor[m].stored = "no" =>
               m \notin check'.todo /\ (check'.phase \in About => check'.of # m)
    PROVE  CveInv'
<1>1. HistoryInv'
  BY MoveKeeps DEF CveInv
<1>2. CveTyped'
  BY DEF CveInv, CveTyped
<1>3. NotYet'
  BY DEF CveInv, NotYet
<1>4. TellsWhatItKnows'
  BY DEF TellsWhatItKnows
<1>5. ToldIsKnown' /\ KnownWasTold'
  BY DEF CveInv, ToldIsKnown, KnownWasTold, Pending, IsStored
<1>6. QED
  BY <1>1, <1>2, <1>3, <1>4, <1>5 DEF CveInv

\* The rest of the loop, with one monitor done.
LEMMA WithoutIs ==
    ASSUME CveTyped, NEW m \in Monitors
    PROVE  /\ Without(m) \in Check /\ Without(m).phase = "listed" /\ Without(m).todo = check.todo \ {m}
BY CveLevels, NoCheckTyped, NoneOfAny, HistoryNumbers DEF Without, CveTyped, Check

\* The monitor a sync looks at now, and the version its last scan measured.
LookedAt(m, phase, version) ==
    [check EXCEPT !.phase = phase, !.of = m, !.version = version, !.read = Applicable(version)]

LEMMA LookedAtIs ==
    ASSUME CveTyped, NEW m \in Monitors, NEW phase \in {"stock", "compared"}, NEW version \in Values
    PROVE  LET now == LookedAt(m, phase, version)
           IN now \in Check /\ now.phase = phase /\ now.of = m /\ now.todo = check.todo /\ now.version = version
BY AppliesTyped DEF LookedAt, CveTyped, Check

LEMMA LookEffects ==
    ASSUME CveInv, NEW m \in Monitors, Look(m)
    PROVE  \/ check' = Without(m)
           \/ \E version \in Values : check' = LookedAt(m, "stock", version)
           \/ \E version \in Values : version \in Shown /\ check' = LookedAt(m, "compared", version)
<1> DEFINE id == check.base[m]
<1> DEFINE now == IF Kept(id) THEN scan[id].value ELSE Unmeasured
<1>1. now \in Values
  <2>1. CASE Kept(id)
    <3>1. scan \in Seq(ScanRow) /\ id \in 1..Len(scan)
      BY <2>1 DEF CveInv, HistoryInv, HistoryTypeOK, Kept
    <3>2. scan[id] \in ScanRow
      BY <3>1
    <3>3. QED
      BY <2>1, <3>2 DEF ScanRow
  <2>2. QED
    BY <2>1, HistoryNumbers
<1>2. check' = IF ~Kept(id) THEN Without(m)
               ELSE IF noted[m] # id THEN LookedAt(m, "stock", now)
               ELSE IF now \in Shown /\ check.current THEN LookedAt(m, "compared", now)
               ELSE Without(m)
  BY Zenon DEF Look, LookedAt
<1> HIDE DEF id, now
<1>3. QED
  BY <1>1, <1>2

LEMMA SyncGoesOn ==
    ASSUME CveInv,
           \/ SyncFails \/ Ages \/ SyncEnds \/ \E m \in Monitors : Look(m)
           \/ Skip /\ check.phase # "told"
           \/ Tell /\ check'.phase # "told"
    PROVE  CveInv'
<1>1. CveTyped /\ check \in Check /\ data \in Level /\ fresh \in {"never", "stale", "current"}
  BY DEF CveInv, CveTyped
<1>2. HistoryMove
  BY CveMoves, Zenon DEF CveNext
<1>3. \A m \in Monitors : monitor[m].stored = "no" => m \notin check.todo /\ (check.phase \in About => check.of # m)
  BY DEF CveInv, NotYet
<1>4. CASE SyncFails
  <2>1. check' \in Check /\ check'.phase = "synced" /\ check'.todo = check.todo /\ check.phase = "idle"
    BY <1>1, <1>4 DEF SyncFails, Check
  <2>2. UNCHANGED <<monitor, known, noted, assessed, found, alerted, quiet, missed, again, data, fresh>>
    BY <1>4 DEF SyncFails, historyVars
  <2>3. QED
    BY <1>1, <1>2, <1>3, <2>1, <2>2, CheckMoves DEF About
<1>5. CASE Ages
  <2>1. UNCHANGED <<monitor, known, noted, assessed, found, alerted, quiet, missed, again, data, check>>
    BY <1>5 DEF Ages, historyVars
  <2>2. check.phase = "idle" /\ fresh' = "stale"
    BY <1>5 DEF Ages
  <2>3. QED
    BY <1>1, <1>2, <1>3, <2>1, <2>2, CheckMoves
<1>6. CASE SyncEnds
  <2>1. UNCHANGED <<monitor, known, noted, assessed, found, alerted, quiet, missed, again, data, fresh>>
    BY <1>6 DEF SyncEnds, historyVars
  <2>2. check.phase = "listed" /\ check' = NoCheck
    BY <1>6 DEF SyncEnds
  <2>3. QED
    BY <1>1, <1>2, <2>1, <2>2, NoCheckTyped, CheckMoves DEF About
<1>7. CASE (Skip /\ check.phase # "told") \/ (Tell /\ check'.phase # "told")
  <2>1. /\ UNCHANGED <<monitor, known, noted, assessed, found, alerted, quiet, missed, again, data, fresh>>
        /\ check' = Without(check.of) /\ check.phase # "told"
    <3>1. CASE Skip /\ check.phase # "told"
      BY <3>1 DEF Skip, historyVars
    <3>2. CASE Tell /\ check'.phase # "told"
      <4>1. [check EXCEPT !.phase = "told"].phase = "told"
        BY <1>1 DEF Check
      <4>2. QED
        BY <3>2, <4>1 DEF Tell, historyVars
    <3>3. QED
      BY <1>7, <3>1, <3>2
  <2>2. check' \in Check /\ check'.phase = "listed" /\ check'.todo \subseteq check.todo
    BY <1>1, <2>1, CveLevels, WithoutIs
  <2>3. QED
    BY <1>1, <1>2, <1>3, <2>1, <2>2, CheckMoves DEF About
<1>8. ASSUME NEW m \in Monitors, Look(m) PROVE CveInv'
  <2>1. UNCHANGED <<monitor, known, noted, assessed, found, alerted, quiet, missed, again, data, fresh>>
    <3>1. UNCHANGED <<historyVars, data, fresh, known, noted, assessed, found, alerted, quiet, missed, again>>
      BY <1>8, Zenon DEF Look
    <3>2. QED
      BY <3>1 DEF historyVars
  <2>3. m \in check.todo /\ check.phase = "listed" /\ monitor[m].stored # "no"
    <3>1. check.phase = "listed" /\ m \in check.todo
      BY <1>8, Zenon DEF Look
    <3>2. QED
      BY <1>3, <3>1
  <2>4. CASE check' = Without(m)
    <3>1. check' \in Check /\ check'.phase = "listed" /\ check'.todo \subseteq check.todo
      BY <1>1, <2>4, WithoutIs
    <3>2. QED
      BY <1>1, <1>2, <1>3, <2>1, <2>3, <3>1, CheckMoves DEF About
  <2>5. ASSUME NEW phase \in {"stock", "compared"}, NEW version \in Values, phase = "compared" => version \in Shown,
               check' = LookedAt(m, phase, version)
        PROVE  CveInv'
    <3>1. /\ check' \in Check /\ check'.phase = phase /\ check'.of = m /\ check'.todo = check.todo
          /\ check'.version = version
      BY <1>1, <2>5, LookedAtIs
    <3>2. QED
      BY <1>1, <1>2, <1>3, <2>1, <2>3, <2>5, <3>1, CheckMoves DEF About
  <2>6. QED
    BY <1>8, <2>4, <2>5, LookEffects
<1>9. QED
  BY <1>4, <1>5, <1>6, <1>7, <1>8

\* What is forgotten may be told again.
LEMMA ForgottenIs ==
    ASSUME CveTyped, again' = Forgotten(again)
    PROVE  /\ again' \in [Monitors -> [Shown -> SUBSET Cves]]
           /\ \A m \in Monitors, v \in Shown, c \in Cves :
                  c \in again[m][v] \/ known'[m][v][c] < known[m][v][c] => c \in again'[m][v]
BY DEF CveTyped, Forgotten

\* What is told, or passed over in silence, only grows, and holds what is added.
LEMMA RaisedIs ==
    ASSUME NEW f \in [Monitors -> PerVersion], NEW m0 \in Monitors, NEW v0, NEW cves \in Level,
           NEW g, g = Raised(f, m0, v0, cves)
    PROVE  /\ g \in [Monitors -> PerVersion] /\ \A m \in Monitors : m # m0 => g[m] = f[m]
           /\ \A m \in Monitors, v \in Shown, c \in Cves :
                  /\ f[m][v][c] \in 0..2 /\ g[m][v][c] \in 0..2 /\ f[m][v][c] <= g[m][v][c]
                  /\ m = m0 /\ v = v0 => cves[c] <= g[m][v][c]
                  /\ g[m][v][c] = f[m][v][c] \/ (m = m0 /\ v = v0 /\ g[m][v][c] = cves[c])
<1>1. \A m \in Monitors, v \in Shown, c \in Cves : f[m][v][c] \in 0..2 /\ f[m][v][c] <= f[m][v][c]
  BY DEF PerVersion, Level, Levels
<1>2. CASE v0 \notin Shown
  <2>1. g = f
    BY <1>2 DEF Raised
  <2>2. QED
    BY <1>1, <1>2, <2>1
<1>3. CASE v0 \in Shown
  <2> DEFINE more == Higher(f[m0][v0], cves)
  <2>1. f[m0] \in PerVersion /\ f[m0][v0] \in Level
    BY <1>3 DEF PerVersion
  <2>2. /\ more \in Level
        /\ \A c \in Cves : /\ f[m0][v0][c] <= more[c] /\ cves[c] <= more[c] /\ more[c] \in 0..2
                           /\ (more[c] = f[m0][v0][c] \/ more[c] = cves[c])
    BY <2>1 DEF Higher, Level, Levels
  <2>3. g = [f EXCEPT ![m0] = [f[m0] EXCEPT ![v0] = more]]
    BY <1>3 DEF Raised
  <2> HIDE DEF more
  <2>4. [f[m0] EXCEPT ![v0] = more] \in PerVersion
    BY <2>1, <2>2 DEF PerVersion
  <2>5. /\ g \in [Monitors -> PerVersion] /\ \A m \in Monitors : m # m0 => g[m] = f[m]
        /\ \A m \in Monitors, v \in Shown : g[m][v] = IF m = m0 /\ v = v0 THEN more ELSE f[m][v]
    BY <2>1, <2>3, <2>4 DEF PerVersion
  <2>6. ASSUME NEW m \in Monitors, NEW v \in Shown, NEW c \in Cves
        PROVE  /\ f[m][v][c] \in 0..2 /\ g[m][v][c] \in 0..2 /\ f[m][v][c] <= g[m][v][c]
               /\ m = m0 /\ v = v0 => cves[c] <= g[m][v][c]
               /\ g[m][v][c] = f[m][v][c] \/ (m = m0 /\ v = v0 /\ g[m][v][c] = cves[c])
    <3>1. CASE m = m0 /\ v = v0
      <4>1. g[m][v] = more /\ f[m][v] = f[m0][v0]
        BY <2>5, <3>1
      <4>2. QED
        BY <1>1, <2>2, <3>1, <4>1
    <3>2. CASE ~(m = m0 /\ v = v0)
      <4>1. g[m][v] = f[m][v]
        BY <2>5, <3>2
      <4>2. QED
        BY <1>1, <3>2, <4>1
    <3>3. QED
      BY <3>1, <3>2
  <2>7. QED
    BY <2>5, <2>6
<1>4. QED
  BY <1>2, <1>3

\* Taking stock: what was known of the monitor goes, what was read is known.
LEMMA StockedIs ==
    ASSUME CveTyped, NEW m0 \in Monitors, NEW id \in 0..MaxScans, NEW v0, NEW cves \in Level, Stocked(m0, id, v0, cves)
    PROVE  /\ known' \in [Monitors -> PerVersion] /\ noted' \in [Monitors -> 0..MaxScans]
           /\ again' \in [Monitors -> [Shown -> SUBSET Cves]]
           /\ \A m \in Monitors : m # m0 => known'[m] = known[m]
           /\ \A v \in Shown, c \in Cves : known'[m0][v][c] = IF v = v0 THEN cves[c] ELSE 0
           /\ \A m \in Monitors, v \in Shown, c \in Cves :
                  c \in again[m][v] \/ known'[m][v][c] < known[m][v][c] => c \in again'[m][v]
<1> DEFINE new == [v \in Shown |-> IF v = v0 THEN cves ELSE NoCves]
<1>1. new \in PerVersion /\ \A v \in Shown, c \in Cves : new[v][c] = IF v = v0 THEN cves[c] ELSE 0
  BY NoneOfAny DEF PerVersion
<1>2. known' = [known EXCEPT ![m0] = new] /\ noted' = [noted EXCEPT ![m0] = id] /\ again' = Forgotten(again)
  BY DEF Stocked
<1> HIDE DEF new
<1>3. /\ known' \in [Monitors -> PerVersion] /\ noted' \in [Monitors -> 0..MaxScans]
      /\ known'[m0] = new /\ \A m \in Monitors : m # m0 => known'[m] = known[m]
  BY <1>1, <1>2 DEF CveTyped
<1>4. QED
  BY <1>1, <1>2, <1>3, ForgottenIs

\* What is told and what is passed over grow.
Grows(f, g) ==
    /\ g \in [Monitors -> PerVersion]
    /\ \A m \in Monitors, v \in Shown, c \in Cves :
           f[m][v][c] \in 0..2 /\ g[m][v][c] \in 0..2 /\ f[m][v][c] <= g[m][v][c]

LEMMA SameGrows == ASSUME NEW f \in [Monitors -> PerVersion] PROVE Grows(f, f)
BY DEF Grows, PerVersion, Level, Levels

\* What stays right when stock is taken of one monitor, whoever takes it and
\* whatever it shows of what it notes.
LEMMA StockedKeeps ==
    ASSUME CveInv, NEW m0 \in Monitors, NEW id \in 0..MaxScans, NEW v0, NEW cves \in Level, Stocked(m0, id, v0, cves),
           UNCHANGED monitor, Grows(alerted, alerted'), Grows(quiet, quiet'), Grows(missed, missed'),
           \A m \in Monitors, v \in Shown, c \in Cves :
               alerted'[m][v][c] = alerted[m][v][c] \/ (m = m0 /\ v = v0 /\ alerted'[m][v][c] <= cves[c]),
           v0 \in Shown => \A c \in Cves :
               cves[c] <= alerted'[m0][v0][c] \/ cves[c] <= quiet'[m0][v0][c] \/ cves[c] <= missed'[m0][v0][c],
           check' = check \/ (check'.phase = "listed" /\ check.phase # "told")
    PROVE  ToldIsKnown' /\ KnownWasTold'
<1>1. /\ \A m \in Monitors : m # m0 => known'[m] = known[m]
      /\ \A v \in Shown, c \in Cves : known'[m0][v][c] = IF v = v0 THEN cves[c] ELSE 0
      /\ \A m \in Monitors, v \in Shown, c \in Cves :
             c \in again[m][v] \/ known'[m][v][c] < known[m][v][c] => c \in again'[m][v]
  BY StockedIs DEF CveInv
<1>2. \A m \in Monitors, v \in Shown, c \in Cves :
          /\ known[m][v][c] \in 0..2 /\ alerted[m][v][c] \in 0..2 /\ alerted'[m][v][c] \in 0..2
          /\ alerted[m][v][c] <= alerted'[m][v][c]
  BY CveLevels DEF CveInv, Grows
<1>3. \A c \in Cves : cves[c] \in 0..2
  BY DEF Level, Levels
<1>4. ToldIsKnown'
  <2>1. SUFFICES ASSUME NEW m \in Monitors, NEW v \in Shown, NEW c \in Cves, IsStored(m),
                        alerted'[m][v][c] > known'[m][v][c], c \notin again'[m][v]
                 PROVE  Pending(m, v, c)'
    BY DEF ToldIsKnown, IsStored
  <2>2. known'[m][v][c] >= known[m][v][c] /\ c \notin again[m][v] /\ known'[m][v][c] \in 0..2
    BY <1>1, <1>2, <1>3, <2>1
  <2>3. alerted'[m][v][c] = alerted[m][v][c]
    BY <1>1, <1>2, <1>3, <2>1, <2>2
  <2>4. alerted[m][v][c] > known[m][v][c]
    BY <1>2, <2>1, <2>2, <2>3
  <2>5. Pending(m, v, c)
    BY <2>1, <2>2, <2>4 DEF CveInv, ToldIsKnown
  <2>6. QED
    BY <2>3, <2>5 DEF Pending
<1>5. KnownWasTold'
  <2>1. SUFFICES ASSUME NEW m \in Monitors, NEW v \in Shown, NEW c \in Cves, IsStored(m)
                 PROVE  \/ known'[m][v][c] <= alerted'[m][v][c] \/ known'[m][v][c] <= quiet'[m][v][c]
                        \/ known'[m][v][c] <= missed'[m][v][c]
    BY DEF KnownWasTold, IsStored
  <2>2. \/ known[m][v][c] <= alerted[m][v][c] \/ known[m][v][c] <= quiet[m][v][c]
        \/ known[m][v][c] <= missed[m][v][c]
    BY <2>1 DEF CveInv, KnownWasTold
  <2>3. /\ alerted'[m][v][c] \in 0..2 /\ quiet'[m][v][c] \in 0..2 /\ missed'[m][v][c] \in 0..2
        /\ alerted[m][v][c] \in 0..2 /\ quiet[m][v][c] \in 0..2 /\ missed[m][v][c] \in 0..2
        /\ alerted[m][v][c] <= alerted'[m][v][c] /\ quiet[m][v][c] <= quiet'[m][v][c]
        /\ missed[m][v][c] <= missed'[m][v][c] /\ known[m][v][c] \in 0..2
    BY <1>2 DEF Grows
  <2>4. CASE m # m0
    <3>1. known'[m][v][c] = known[m][v][c]
      BY <1>1, <2>4
    <3>2. QED
      BY <2>2, <2>3, <3>1
  <2>5. CASE m = m0 /\ v = v0
    <3>1. known'[m][v][c] = cves[c]
      BY <1>1, <2>5
    <3>2. QED
      BY <2>5, <3>1
  <2>6. CASE m = m0 /\ v # v0
    <3>1. known'[m][v][c] = 0
      BY <1>1, <2>6
    <3>2. QED
      BY <2>3, <3>1
  <2>7. QED
    BY <2>4, <2>5, <2>6
<1>6. QED
  BY <1>4, <1>5

\* A comparison takes stock: silence where it is meant, and where it is not.
LEMMA StockKeeps == ASSUME CveInv, Stock PROVE CveInv'
<1> DEFINE m0 == check.of
<1> DEFINE v0 == check.version
<1> DEFINE id == check.base[m0]
<1>1. /\ CveTyped /\ m0 \in Monitors /\ id \in 0..MaxScans /\ check.read \in Level /\ check.phase = "stock"
      /\ quiet \in [Monitors -> PerVersion] /\ missed \in [Monitors -> PerVersion] /\ alerted \in [Monitors -> PerVersion]
  BY CveLevels DEF CveInv, Stock, CveTyped
<1>2. Stocked(m0, id, v0, check.read) /\ check' = Without(m0)
  BY DEF Stock
<1>3. UNCHANGED <<monitor, data, fresh, assessed, found, alerted>>
  BY DEF Stock, historyVars
<1>4. \/ quiet' = Raised(quiet, m0, v0, check.read) /\ missed' = missed
      \/ missed' = Raised(missed, m0, v0, check.read) /\ quiet' = quiet
  BY DEF Stock
<1>5. /\ Grows(quiet, quiet') /\ Grows(missed, missed') /\ Grows(alerted, alerted')
      /\ v0 \in Shown => \A c \in Cves : check.read[c] <= quiet'[m0][v0][c] \/ check.read[c] <= missed'[m0][v0][c]
  <2>1. CASE quiet' = Raised(quiet, m0, v0, check.read) /\ missed' = missed
    <3>1. Grows(quiet, quiet') /\ (v0 \in Shown => \A c \in Cves : check.read[c] <= quiet'[m0][v0][c])
      BY <1>1, <2>1, RaisedIs DEF Grows
    <3>2. QED
      BY <1>1, <1>3, <2>1, <3>1, SameGrows
  <2>2. CASE missed' = Raised(missed, m0, v0, check.read) /\ quiet' = quiet
    <3>1. Grows(missed, missed') /\ (v0 \in Shown => \A c \in Cves : check.read[c] <= missed'[m0][v0][c])
      BY <1>1, <2>2, RaisedIs DEF Grows
    <3>2. QED
      BY <1>1, <1>3, <2>2, <3>1, SameGrows
  <2>3. QED
    BY <1>4, <2>1, <2>2
<1>6. HistoryInv'
  BY MoveKeeps, CveMoves, Zenon DEF CveInv, CveNext
<1>7. check' \in Check /\ check'.phase = "listed" /\ check'.todo \subseteq check.todo
  BY <1>1, <1>2, WithoutIs
<1>8. CveTyped'
  BY <1>1, <1>2, <1>3, <1>5, <1>7, StockedIs DEF CveTyped, Grows
<1>9. NotYet'
  <2>1. \A m \in Monitors : m # m0 => known'[m] = known[m]
    BY <1>1, <1>2, StockedIs
  <2>2. monitor[m0].stored # "no"
    BY <1>1 DEF CveInv, NotYet, About
  <2>3. QED
    BY <1>3, <1>7, <2>1, <2>2 DEF CveInv, NotYet, About
<1>10. TellsWhatItKnows'
  BY <1>7 DEF TellsWhatItKnows
<1>11. ToldIsKnown' /\ KnownWasTold'
  <2>1. \A m \in Monitors, v \in Shown, c \in Cves : alerted'[m][v][c] = alerted[m][v][c]
    BY <1>3
  <2>2. UNCHANGED monitor /\ check'.phase = "listed" /\ check.phase # "told"
    BY <1>1, <1>3, <1>7
  <2> HIDE DEF m0, v0, id
  <2>3. QED
    BY <1>1, <1>2, <1>5, <2>1, <2>2, StockedKeeps
<1>12. QED
  BY <1>6, <1>8, <1>9, <1>10, <1>11 DEF CveInv

\* A scan notes what the data says now, while a sync may be telling of the
\* same monitor: what its report shows is told, what is beyond it is missed.
LEMMA NoteWriteKeeps == ASSUME CveInv, NEW w \in Workers, NoteWrite(w) PROVE CveInv'
<1> DEFINE m0 == run[w].of
<1> DEFINE v0 == run[w].value
<1> DEFINE cves == found[w]
<1> DEFINE shown == Both(found[w], assessed[w])
<1> DEFINE beyond == Beyond(found[w], assessed[w])
<1>1. /\ CveTyped /\ HistoryInv /\ HistoryTypeOK /\ m0 \in Monitors /\ run[w].phase = "noting"
      /\ cves \in Level /\ assessed[w] \in Level
      /\ quiet \in [Monitors -> PerVersion] /\ missed \in [Monitors -> PerVersion] /\ alerted \in [Monitors -> PerVersion]
  BY RunFields DEF CveInv, CveTyped, HistoryInv, NoteWrite
<1>2. run[w].id \in 0..MaxScans
  BY <1>1 DEF HistoryTypeOK, Run
<1>3. Stocked(m0, run[w].id, v0, cves) /\ UNCHANGED <<monitor, data, fresh, check, quiet>>
  BY DEF NoteWrite
<1>4. /\ shown \in Level /\ beyond \in Level
      /\ \A c \in Cves : /\ cves[c] \in 0..2 /\ shown[c] \in 0..2 /\ shown[c] <= cves[c]
                         /\ (cves[c] <= shown[c] \/ cves[c] <= beyond[c])
  BY <1>1 DEF Level, Levels, Both, Beyond
<1>5. alerted' = Raised(alerted, m0, v0, shown) /\ missed' = Raised(missed, m0, v0, beyond)
  BY DEF NoteWrite
<1> HIDE DEF shown, beyond, m0, v0, cves
<1>6. /\ Grows(alerted, alerted') /\ \A m \in Monitors : m # m0 => alerted'[m] = alerted[m]
      /\ \A m \in Monitors, v \in Shown, c \in Cves :
             /\ m = m0 /\ v = v0 => shown[c] <= alerted'[m][v][c]
             /\ alerted'[m][v][c] = alerted[m][v][c] \/ (m = m0 /\ v = v0 /\ alerted'[m][v][c] = shown[c])
  BY <1>1, <1>4, <1>5, RaisedIs DEF Grows
<1>7. /\ Grows(missed, missed') /\ Grows(quiet, quiet')
      /\ \A m \in Monitors, v \in Shown, c \in Cves : m = m0 /\ v = v0 => beyond[c] <= missed'[m][v][c]
  <2>1. Grows(quiet, quiet')
    BY <1>1, <1>3, SameGrows
  <2>2. QED
    BY <1>1, <1>4, <1>5, <2>1, RaisedIs DEF Grows
<1>8. HistoryInv'
  BY MoveKeeps, CveMoves, Zenon DEF CveInv, CveNext
<1>9. CveTyped'
  <2>1. assessed' \in [Workers -> Level] /\ found' \in [Workers -> Level]
    BY <1>1, InUseTyped DEF NoteWrite, CveTyped
  <2>2. QED
    BY <1>1, <1>2, <1>3, <1>6, <1>7, <2>1, StockedIs DEF CveTyped, Grows
<1>10. NotYet'
  <2>1. \A m \in Monitors : m # m0 => known'[m] = known[m]
    BY <1>1, <1>2, <1>3, StockedIs
  <2>2. monitor[m0].stored # "no"
    BY <1>1 DEF HistoryInv, Refers, Scanning, m0
  <2>3. QED
    BY <1>3, <1>6, <2>1, <2>2 DEF CveInv, NotYet
<1>11. TellsWhatItKnows'
  <2>1. SUFFICES ASSUME NEW m, m = check.of, check.phase = "told", IsStored(m), NEW c \in Cves
                 PROVE  \/ check.read[c] <= alerted'[m][check.version][c]
                        \/ check.read[c] <= quiet'[m][check.version][c] \/ check.read[c] <= missed'[m][check.version][c]
    BY <1>3 DEF CveInv, TellsWhatItKnows, IsStored
  <2>2. m \in Monitors /\ check.version \in Shown /\ check.read[c] \in 0..2
    BY <1>1, <2>1, CveLevels DEF CveInv, TellsWhatItKnows
  <2>3. \/ check.read[c] <= alerted[m][check.version][c]
        \/ check.read[c] <= quiet[m][check.version][c] \/ check.read[c] <= missed[m][check.version][c]
    BY <2>1 DEF CveInv, TellsWhatItKnows
  <2> DEFINE v == check.version
  <2>4. /\ alerted[m][v][c] \in 0..2 /\ alerted'[m][v][c] \in 0..2 /\ alerted[m][v][c] <= alerted'[m][v][c]
        /\ quiet[m][v][c] \in 0..2 /\ quiet'[m][v][c] \in 0..2 /\ quiet[m][v][c] <= quiet'[m][v][c]
        /\ missed[m][v][c] \in 0..2 /\ missed'[m][v][c] \in 0..2 /\ missed[m][v][c] <= missed'[m][v][c]
    BY <1>6, <1>7, <2>2 DEF Grows
  <2>5. QED
    BY <2>2, <2>3, <2>4
<1>12. ToldIsKnown' /\ KnownWasTold'
  <2>1. \A m \in Monitors, v \in Shown, c \in Cves :
            alerted'[m][v][c] = alerted[m][v][c] \/ (m = m0 /\ v = v0 /\ alerted'[m][v][c] <= cves[c])
    BY <1>4, <1>6
  <2>2. v0 \in Shown => \A c \in Cves :
            cves[c] <= alerted'[m0][v0][c] \/ cves[c] <= quiet'[m0][v0][c] \/ cves[c] <= missed'[m0][v0][c]
    <3>1. SUFFICES ASSUME v0 \in Shown, NEW c \in Cves
                   PROVE  cves[c] <= alerted'[m0][v0][c] \/ cves[c] <= missed'[m0][v0][c]
      OBVIOUS
    <3>2. cves[c] = shown[c] \/ cves[c] <= beyond[c]
      BY <1>4
    <3>3. /\ shown[c] <= alerted'[m0][v0][c] /\ beyond[c] <= missed'[m0][v0][c]
          /\ missed'[m0][v0][c] \in 0..2 /\ beyond[c] \in 0..2 /\ cves[c] \in 0..2
      BY <1>1, <1>4, <1>6, <1>7, <3>1 DEF Grows, Level, Levels
    <3>4. QED
      BY <3>2, <3>3
  <2>3. QED
    BY <1>1, <1>2, <1>3, <1>6, <1>7, <2>1, <2>2, StockedKeeps
<1>13. QED
  BY <1>8, <1>9, <1>10, <1>11, <1>12 DEF CveInv

\* A sync lists the monitors, and the rows of deleted ones go.
LEMMA ListedKeeps == ASSUME CveInv, Listed PROVE CveInv'
<1>1. /\ CveTyped /\ HistoryTypeOK /\ check.phase = "synced"
      /\ known' = [m \in Monitors |-> IF IsStored(m) THEN known[m] ELSE NoneKnown]
      /\ noted' = [m \in Monitors |-> IF IsStored(m) THEN noted[m] ELSE None]
      /\ UNCHANGED <<monitor, data, fresh, assessed, found, alerted, quiet, missed, again>>
  BY DEF CveInv, HistoryInv, Listed, historyVars
<1>2. PICK enabled \in SUBSET {m \in Monitors : IsStored(m) /\ monitor[m].base # None} :
          check' = [NoCheck EXCEPT !.phase = "listed", !.todo = enabled, !.current = (fresh = "current"),
                                   !.base = [m \in Monitors |-> IF m \in enabled THEN monitor[m].base ELSE None]]
  BY Zenon DEF Listed
<1> DEFINE bases == [m \in Monitors |-> IF m \in enabled THEN monitor[m].base ELSE None]
<1>3. bases \in [Monitors -> 0..MaxScans]
  BY <1>1, HistoryNumbers DEF HistoryTypeOK, MonitorRow
<1>4. check' = [NoCheck EXCEPT !.phase = "listed", !.todo = enabled, !.current = (fresh = "current"), !.base = bases]
  BY <1>2
<1> HIDE DEF bases
<1>5. check' \in Check /\ check'.phase = "listed" /\ check'.todo = enabled
  BY <1>3, <1>4, NoCheckTyped DEF Check
<1>6. HistoryInv'
  BY MoveKeeps, CveMoves, Zenon DEF CveInv, CveNext
<1>7. CveTyped'
  BY <1>1, <1>5, NoneOfAny, HistoryNumbers DEF CveTyped
<1>8. NotYet'
  BY <1>1, <1>5 DEF CveInv, NotYet, About, IsStored
<1>9. TellsWhatItKnows'
  BY <1>5 DEF TellsWhatItKnows
<1>10. ToldIsKnown' /\ KnownWasTold'
  <2>1. \A m \in Monitors : IsStored(m) => known'[m] = known[m]
    BY <1>1
  <2>2. QED
    BY <1>1, <1>5, <2>1 DEF CveInv, ToldIsKnown, KnownWasTold, Pending, IsStored
<1>11. QED
  BY <1>6, <1>7, <1>8, <1>9, <1>10 DEF CveInv

\* The data changes; what it no longer has may be told again when it is back.
LEMMA SyncKeeps == ASSUME CveInv, Sync PROVE CveInv'
<1>1. /\ CveTyped /\ check.phase = "idle" /\ check' = [check EXCEPT !.phase = "synced"] /\ fresh' = "current"
      /\ UNCHANGED <<monitor, known, noted, assessed, found, quiet, missed, again>>
  BY DEF CveInv, Sync, historyVars
<1>2. PICK d \in Level :
          /\ data' = d
          /\ alerted' = [m \in Monitors |-> [v \in Shown |->
                            [c \in Cves |-> IF d[c] = 0 /\ known[m][v][c] < alerted[m][v][c] THEN known[m][v][c]
                                           ELSE alerted[m][v][c]]]]
  BY DEF Sync
<1>3. check' \in Check /\ check'.phase = "synced" /\ check'.todo = check.todo
  BY <1>1 DEF CveTyped, Check
<1>4. \A m \in Monitors, v \in Shown, c \in Cves :
          alerted'[m][v][c] = IF d[c] = 0 /\ known[m][v][c] < alerted[m][v][c] THEN known[m][v][c] ELSE alerted[m][v][c]
  BY <1>2
<1>5. alerted' \in [Monitors -> PerVersion]
  BY <1>1, <1>2, CveLevels DEF PerVersion, Level, Levels
<1>6. HistoryInv'
  BY MoveKeeps, CveMoves, Zenon DEF CveInv, CveNext
<1>7. CveTyped'
  BY <1>1, <1>2, <1>3, <1>5 DEF CveTyped
<1>8. NotYet'
  <2>1. ASSUME NEW m \in Monitors, known[m] = NoneKnown, alerted[m] = NoneKnown PROVE alerted'[m] = NoneKnown
    <3>1. \A v \in Shown, c \in Cves : alerted'[m][v][c] = 0
      BY <1>4, <2>1, NoneOfAny
    <3>2. alerted'[m] \in [Shown -> Level]
      BY <1>5 DEF PerVersion
    <3>3. \A v \in Shown : alerted'[m][v] = NoCves
      BY <3>1, <3>2 DEF Level, NoCves
    <3>4. QED
      BY <3>2, <3>3 DEF NoneKnown
  <2>2. QED
    BY <1>1, <1>3, <2>1 DEF CveInv, NotYet, About
<1>9. TellsWhatItKnows'
  BY <1>3 DEF TellsWhatItKnows
<1>10. ToldIsKnown'
  <2>1. SUFFICES ASSUME NEW m \in Monitors, NEW v \in Shown, NEW c \in Cves, IsStored(m), alerted'[m][v][c] > known[m][v][c]
                 PROVE  c \in again[m][v]
    BY <1>1 DEF ToldIsKnown, IsStored
  <2>2. alerted[m][v][c] > known[m][v][c]
    BY <1>1, <1>4, <2>1, CveLevels
  <2>3. QED
    BY <1>1, <2>1, <2>2 DEF CveInv, ToldIsKnown, Pending
<1>11. KnownWasTold'
  <2>1. SUFFICES ASSUME NEW m \in Monitors, NEW v \in Shown, NEW c \in Cves, IsStored(m)
                 PROVE  known[m][v][c] <= alerted'[m][v][c] \/ known[m][v][c] <= quiet[m][v][c] \/ known[m][v][c] <= missed[m][v][c]
    BY <1>1 DEF KnownWasTold, IsStored
  <2>2. known[m][v][c] <= alerted[m][v][c] \/ known[m][v][c] <= quiet[m][v][c] \/ known[m][v][c] <= missed[m][v][c]
    BY <2>1 DEF CveInv, KnownWasTold
  <2>3. QED
    BY <1>1, <1>4, <2>2, CveLevels
<1>12. QED
  BY <1>6, <1>7, <1>8, <1>9, <1>10, <1>11 DEF CveInv

\* One value of what was told, or what is known, is replaced.
AtVersion(f, m, v, cves) == [f EXCEPT ![m][v] = cves]

LEMMA OneVersion ==
    ASSUME NEW f \in [Monitors -> PerVersion], NEW m0 \in Monitors, NEW v0 \in Shown, NEW cves \in Level,
           NEW g, g = AtVersion(f, m0, v0, cves)
    PROVE  /\ g \in [Monitors -> PerVersion] /\ \A m \in Monitors : m # m0 => g[m] = f[m]
           /\ g[m0][v0] = cves
           /\ \A m \in Monitors, v \in Shown : (m # m0 \/ v # v0) => g[m][v] = f[m][v]
<1>1. f[m0] \in PerVersion /\ g = [f EXCEPT ![m0] = [f[m0] EXCEPT ![v0] = cves]]
  BY DEF AtVersion
<1>2. [f[m0] EXCEPT ![v0] = cves] \in PerVersion
  BY <1>1 DEF PerVersion
<1>3. QED
  BY <1>1, <1>2 DEF PerVersion

\* An event names what is known to be new.
LEMMA TellKeeps == ASSUME CveInv, Tell, check'.phase = "told" PROVE CveInv'
<1> DEFINE m0 == check.of
<1> DEFINE v0 == check.version
<1> DEFINE new == ToTell(known[m0][v0], check.read)
<1> DEFINE said == [c \in Cves |-> IF c \in new THEN check.read[c] ELSE alerted[m0][v0][c]]
<1>1. CveTyped /\ m0 \in Monitors /\ v0 \in Shown /\ check.phase = "compared" /\ check.read \in Level
  BY CveLevels DEF CveInv, TellsWhatItKnows, Tell
<1>2. UNCHANGED <<monitor, data, fresh, known, noted, assessed, found, quiet, missed>>
  BY DEF Tell, historyVars
<1>3. Without(m0).phase = "listed"
  BY <1>1, WithoutIs
<1>4. /\ check' = [check EXCEPT !.phase = "told"]
      /\ alerted' = [alerted EXCEPT ![m0][v0] = [c \in Cves |-> IF c \in new THEN check.read[c] ELSE @[c]]]
      /\ again' = [again EXCEPT ![m0][v0] = @ \ new]
  BY <1>3 DEF Tell
<1>5. said \in Level /\ \A c \in Cves : said[c] = IF c \in new THEN check.read[c] ELSE alerted[m0][v0][c]
  BY <1>1, CveLevels DEF Level, Levels
<1>6. \A c \in Cves : c \in new <=> check.read[c] > known[m0][v0][c]
  BY DEF ToTell
<1>7. alerted \in [Monitors -> PerVersion] /\ alerted' = AtVersion(alerted, m0, v0, said)
  BY <1>1, <1>4 DEF CveTyped, AtVersion, PerVersion
<1> DEFINE left == again[m0][v0] \ new
<1>8. left \in SUBSET Cves /\ again' = [again EXCEPT ![m0][v0] = left] /\ left = again[m0][v0] \ new
  BY <1>1, <1>4 DEF CveTyped
<1> HIDE DEF said, new, left
<1>9. /\ alerted' \in [Monitors -> PerVersion] /\ alerted'[m0][v0] = said
      /\ \A m \in Monitors : m # m0 => alerted'[m] = alerted[m]
      /\ \A m \in Monitors, v \in Shown : (m # m0 \/ v # v0) => alerted'[m][v] = alerted[m][v]
  BY <1>1, <1>5, <1>7, OneVersion
<1>10. /\ again' \in [Monitors -> [Shown -> SUBSET Cves]] /\ again'[m0][v0] = left
       /\ \A m \in Monitors, v \in Shown : (m # m0 \/ v # v0) => again'[m][v] = again[m][v]
  BY <1>1, <1>8 DEF CveTyped
<1>11. /\ check' \in Check /\ check'.of = m0 /\ check'.version = v0 /\ check'.read = check.read /\ check'.todo = check.todo
  BY <1>1, <1>4 DEF CveTyped, Check
<1>12. HistoryInv'
  BY MoveKeeps, CveMoves, Zenon DEF CveInv, CveNext
<1>13. CveTyped'
  BY <1>1, <1>2, <1>9, <1>10, <1>11 DEF CveTyped
<1>14. NotYet'
  <2>1. monitor[m0].stored # "no"
    BY <1>1 DEF CveInv, NotYet, About
  <2>2. QED
    BY <1>2, <1>9, <1>11, <2>1 DEF CveInv, NotYet
<1>15. TellsWhatItKnows'
  <2>1. SUFFICES ASSUME IsStored(m0), NEW c \in Cves
                 PROVE  check.read[c] <= alerted'[m0][v0][c] \/ check.read[c] <= quiet[m0][v0][c] \/ check.read[c] <= missed[m0][v0][c]
    BY <1>1, <1>2, <1>11 DEF TellsWhatItKnows, IsStored
  <2>2. known[m0][v0][c] <= alerted[m0][v0][c] \/ known[m0][v0][c] <= quiet[m0][v0][c] \/ known[m0][v0][c] <= missed[m0][v0][c]
    BY <1>1, <2>1 DEF CveInv, KnownWasTold
  <2>3. /\ known[m0][v0][c] \in 0..2 /\ alerted[m0][v0][c] \in 0..2 /\ quiet[m0][v0][c] \in 0..2 /\ missed[m0][v0][c] \in 0..2
        /\ check.read[c] \in 0..2
    BY <1>1, CveLevels
  <2>4. QED
    BY <1>5, <1>6, <1>9, <2>2, <2>3
<1>16. ToldIsKnown'
  <2>1. SUFFICES ASSUME NEW m \in Monitors, NEW v \in Shown, NEW c \in Cves, IsStored(m), alerted'[m][v][c] > known[m][v][c]
                 PROVE  c \in again'[m][v] \/ Pending(m, v, c)'
    BY <1>2 DEF ToldIsKnown, IsStored
  <2>2. CASE m = m0 /\ v = v0 /\ c \in new
    <3>1. alerted'[m][v][c] = check.read[c] /\ check.read[c] \in 0..2
      BY <1>1, <1>5, <1>9, <2>2, CveLevels
    <3>2. QED
      BY <1>11, <2>2, <3>1 DEF Pending
  <2>3. CASE ~(m = m0 /\ v = v0 /\ c \in new)
    <3>1. alerted'[m][v][c] = alerted[m][v][c] /\ (c \in again[m][v] => c \in again'[m][v])
      BY <1>5, <1>8, <1>9, <1>10, <2>3
    <3>2. QED
      BY <1>1, <2>1, <3>1 DEF CveInv, ToldIsKnown, Pending
  <2>4. QED
    BY <2>2, <2>3
<1>17. KnownWasTold'
  <2>1. SUFFICES ASSUME NEW m \in Monitors, NEW v \in Shown, NEW c \in Cves, IsStored(m)
                 PROVE  known[m][v][c] <= alerted'[m][v][c] \/ known[m][v][c] <= quiet[m][v][c] \/ known[m][v][c] <= missed[m][v][c]
    BY <1>2 DEF KnownWasTold, IsStored
  <2>2. known[m][v][c] <= alerted[m][v][c] \/ known[m][v][c] <= quiet[m][v][c] \/ known[m][v][c] <= missed[m][v][c]
    BY <2>1 DEF CveInv, KnownWasTold
  <2>3. CASE m = m0 /\ v = v0 /\ c \in new
    <3>1. alerted'[m][v][c] = check.read[c] /\ check.read[c] > known[m][v][c]
      BY <1>5, <1>6, <1>9, <2>3
    <3>2. known[m][v][c] \in 0..2 /\ check.read[c] \in 0..2
      BY <1>1, CveLevels
    <3>3. QED
      BY <3>1, <3>2
  <2>4. CASE ~(m = m0 /\ v = v0 /\ c \in new)
    BY <1>5, <1>9, <2>2, <2>4
  <2>5. QED
    BY <2>3, <2>4
<1>18. QED
  BY <1>12, <1>13, <1>14, <1>15, <1>16, <1>17 DEF CveInv

\* What was told is remembered, and the loop goes on.
LEMMA RememberKeeps == ASSUME CveInv, Remember PROVE CveInv'
<1> DEFINE m0 == check.of
<1> DEFINE v0 == check.version
<1> DEFINE kept == Remembered(known[m0][v0], check.read)
<1>1. CveTyped /\ m0 \in Monitors /\ v0 \in Shown /\ check.phase = "told" /\ check.read \in Level
  BY CveLevels DEF CveInv, TellsWhatItKnows, Remember
<1>2. /\ UNCHANGED <<monitor, data, fresh, noted, assessed, found, alerted, quiet, missed>>
      /\ check' = Without(m0) /\ again' = Forgotten(again)
  BY DEF Remember, historyVars
<1>3. known \in [Monitors -> PerVersion] /\ known' = AtVersion(known, m0, v0, kept)
  BY <1>1 DEF Remember, CveTyped, AtVersion, PerVersion
<1>4. kept \in Level /\ \A c \in Cves : kept[c] = IF check.read[c] > 0 THEN check.read[c] ELSE known[m0][v0][c]
  BY <1>1, CveLevels DEF Remembered, Level, Levels
<1> HIDE DEF kept
<1>5. /\ known' \in [Monitors -> PerVersion] /\ known'[m0][v0] = kept
      /\ \A m \in Monitors : m # m0 => known'[m] = known[m]
      /\ \A m \in Monitors, v \in Shown : (m # m0 \/ v # v0) => known'[m][v] = known[m][v]
  BY <1>1, <1>3, <1>4, OneVersion
<1>6. /\ again' \in [Monitors -> [Shown -> SUBSET Cves]]
      /\ \A m \in Monitors, v \in Shown, c \in Cves :
             c \in again[m][v] \/ known'[m][v][c] < known[m][v][c] => c \in again'[m][v]
  BY <1>1, <1>2, ForgottenIs
<1>7. check' \in Check /\ check'.phase = "listed" /\ check'.todo \subseteq check.todo
  BY <1>1, <1>2, WithoutIs
<1>8. HistoryInv'
  BY MoveKeeps, CveMoves, Zenon DEF CveInv, CveNext
<1>9. CveTyped'
  BY <1>1, <1>2, <1>5, <1>6, <1>7 DEF CveTyped
<1>10. NotYet'
  <2>1. monitor[m0].stored # "no"
    BY <1>1 DEF CveInv, NotYet, About
  <2>2. QED
    BY <1>2, <1>5, <1>7, <2>1 DEF CveInv, NotYet, About
<1>11. TellsWhatItKnows'
  BY <1>7 DEF TellsWhatItKnows
<1>12. ToldIsKnown'
  <2>1. SUFFICES ASSUME NEW m \in Monitors, NEW v \in Shown, NEW c \in Cves, IsStored(m),
                        alerted[m][v][c] > known'[m][v][c], c \notin again'[m][v]
                 PROVE  FALSE
    BY <1>2 DEF ToldIsKnown, IsStored
  <2>2. /\ known[m][v][c] \in 0..2 /\ alerted[m][v][c] \in 0..2 /\ check.read[c] \in 0..2
        /\ known'[m][v][c] \in 0..2
    BY <1>1, <1>5, CveLevels DEF PerVersion, Level, Levels
  <2>3. known'[m][v][c] >= known[m][v][c] /\ c \notin again[m][v]
    BY <1>6, <2>1, <2>2
  <2>4. Pending(m, v, c)
    BY <2>1, <2>2, <2>3 DEF CveInv, ToldIsKnown
  <2>5. known'[m][v][c] = kept[c] /\ alerted[m][v][c] <= check.read[c]
    BY <1>5, <2>4 DEF Pending
  <2>6. QED
    BY <1>4, <2>1, <2>2, <2>5
<1>13. KnownWasTold'
  <2>1. SUFFICES ASSUME NEW m \in Monitors, NEW v \in Shown, NEW c \in Cves, IsStored(m)
                 PROVE  known'[m][v][c] <= alerted[m][v][c] \/ known'[m][v][c] <= quiet[m][v][c] \/ known'[m][v][c] <= missed[m][v][c]
    BY <1>2 DEF KnownWasTold, IsStored
  <2>2. known[m][v][c] <= alerted[m][v][c] \/ known[m][v][c] <= quiet[m][v][c] \/ known[m][v][c] <= missed[m][v][c]
    BY <2>1 DEF CveInv, KnownWasTold
  <2>3. CASE m = m0 /\ v = v0
    <3>1. check.read[c] <= alerted[m][v][c] \/ check.read[c] <= quiet[m][v][c] \/ check.read[c] <= missed[m][v][c]
      BY <1>1, <2>1, <2>3 DEF CveInv, TellsWhatItKnows
    <3>2. known'[m][v][c] = check.read[c] \/ known'[m][v][c] = known[m][v][c]
      BY <1>4, <1>5, <2>3
    <3>3. QED
      BY <2>2, <3>1, <3>2
  <2>4. CASE ~(m = m0 /\ v = v0)
    <3>1. known'[m][v] = known[m][v]
      BY <1>5, <2>4
    <3>2. QED
      BY <2>2, <3>1
  <2>5. QED
    BY <2>3, <2>4
<1>14. QED
  BY <1>8, <1>9, <1>10, <1>11, <1>12, <1>13 DEF CveInv

\* All that was told of a version may come again.
AllOf(f, m0, v0) == [f EXCEPT ![m0][v0] = Cves]

LEMMA AllAgain ==
    ASSUME NEW f \in [Monitors -> [Shown -> SUBSET Cves]], NEW m0 \in Monitors, NEW v0 \in Shown,
           NEW g, g = AllOf(f, m0, v0)
    PROVE  /\ g \in [Monitors -> [Shown -> SUBSET Cves]]
           /\ g[m0][v0] = Cves
           /\ \A m \in Monitors, v \in Shown, c \in Cves : c \in f[m][v] => c \in g[m][v]
<1>1. f[m0] \in [Shown -> SUBSET Cves] /\ g = [f EXCEPT ![m0] = [f[m0] EXCEPT ![v0] = Cves]]
  BY DEF AllOf
<1>2. [f[m0] EXCEPT ![v0] = Cves] \in [Shown -> SUBSET Cves]
  BY <1>1
<1>3. QED
  BY <1>1, <1>2

\* The event was out, but what it told is not remembered: it may come again.
LEMMA LostKeeps ==
    ASSUME CveInv, HistoryMove, UNCHANGED <<monitor, data, fresh, known, noted, alerted, quiet, missed>>,
           assessed' \in [Workers -> Level], found' \in [Workers -> Level],
           check' \in Check, check'.phase \in {"idle", "listed"}, check'.todo \subseteq check.todo,
           again' = IF check.phase = "told" THEN AllOf(again, check.of, check.version) ELSE again
    PROVE  CveInv'
<1>1. CveTyped /\ check.of \in Monitors /\ (check.phase = "told" => check.version \in Shown)
  BY CveLevels DEF CveInv, TellsWhatItKnows
<1>2. /\ again' \in [Monitors -> [Shown -> SUBSET Cves]]
      /\ check.phase = "told" => again'[check.of][check.version] = Cves
      /\ \A m \in Monitors, v \in Shown, c \in Cves : c \in again[m][v] => c \in again'[m][v]
  <2>1. CASE check.phase # "told"
    BY <1>1, <2>1 DEF CveTyped
  <2>2. CASE check.phase = "told"
    <3>1. again' = AllOf(again, check.of, check.version) /\ again \in [Monitors -> [Shown -> SUBSET Cves]]
      BY <1>1, <2>2 DEF CveTyped
    <3>2. QED
      BY <1>1, <2>2, <3>1, AllAgain
  <2>3. QED
    BY <2>1, <2>2
<1>3. HistoryInv'
  BY MoveKeeps DEF CveInv
<1>4. CveTyped'
  BY <1>1, <1>2 DEF CveTyped
<1>5. NotYet' /\ TellsWhatItKnows' /\ KnownWasTold'
  BY DEF CveInv, NotYet, About, TellsWhatItKnows, KnownWasTold, IsStored
<1>6. ToldIsKnown'
  <2>1. SUFFICES ASSUME NEW m \in Monitors, NEW v \in Shown, NEW c \in Cves, IsStored(m), alerted[m][v][c] > known[m][v][c]
                 PROVE  c \in again'[m][v]
    BY DEF ToldIsKnown, IsStored
  <2>2. c \in again[m][v] \/ Pending(m, v, c)
    BY <2>1 DEF CveInv, ToldIsKnown
  <2>3. QED
    BY <1>2, <2>2 DEF Pending
<1>7. QED
  BY <1>3, <1>4, <1>5, <1>6 DEF CveInv

\* The end of the process takes the sync with it; an exception, a monitor.
LEMMA LossesKeep == ASSUME CveInv, CrashAll \/ (Skip /\ check.phase = "told") PROVE CveInv'
<1>1. /\ CveTyped /\ HistoryMove /\ check.of \in Monitors
      /\ assessed \in [Workers -> Level] /\ found \in [Workers -> Level]
  BY CveLevels, CveMoves, Zenon DEF CveInv, CveTyped, CveNext
<1>2. CASE CrashAll
  <2>1. Crash \/ UNCHANGED historyVars
    BY <1>2 DEF CrashAll
  <2>2. UNCHANGED monitor
    BY <2>1 DEF Crash, historyVars
  <2>3. /\ UNCHANGED <<data, fresh, known, noted, alerted, quiet, missed>>
        /\ check' = NoCheck /\ assessed' = InUse(assessed) /\ found' = InUse(found)
        /\ again' = IF check.phase = "told" THEN AllOf(again, check.of, check.version) ELSE again
    BY <1>2 DEF CrashAll, AllOf
  <2>4. assessed' \in [Workers -> Level] /\ found' \in [Workers -> Level]
    BY <1>1, <2>3, InUseTyped
  <2>5. check' \in Check /\ check'.phase \in {"idle", "listed"} /\ check'.todo \subseteq check.todo
    BY <2>3, NoCheckTyped
  <2>6. QED
    BY <1>1, <2>2, <2>3, <2>4, <2>5, LostKeeps
<1>3. CASE Skip /\ check.phase = "told"
  <2>1. UNCHANGED <<historyVars, data, fresh, known, noted, assessed, found, alerted, quiet, missed>>
    BY <1>3 DEF Skip
  <2>2. /\ check' = Without(check.of)
        /\ again' = IF check.phase = "told" THEN AllOf(again, check.of, check.version) ELSE again
    BY <1>3 DEF Skip, AllOf
  <2>3. UNCHANGED monitor
    BY <2>1 DEF historyVars
  <2>4. check' \in Check /\ check'.phase \in {"idle", "listed"} /\ check'.todo \subseteq check.todo
    BY <1>1, <2>2, WithoutIs
  <2>5. QED
    BY <1>1, <2>1, <2>2, <2>3, <2>4, LostKeeps
<1>4. QED
  BY <1>2, <1>3

\* What is known and told of a deleted monitor does not matter any more.
LEMMA ForgetMonitorKeeps == ASSUME CveInv, NEW m0 \in Monitors, DeleteMonitorOnly(m0) PROVE CveInv'
<1>1. /\ CveTyped /\ HistoryTypeOK /\ HistoryMove
      /\ UNCHANGED <<data, fresh, known, noted, assessed, found, check>>
      /\ alerted' = [alerted EXCEPT ![m0] = NoneKnown] /\ quiet' = [quiet EXCEPT ![m0] = NoneKnown]
      /\ missed' = [missed EXCEPT ![m0] = NoneKnown]
      /\ again' = [again EXCEPT ![m0] = [v \in Shown |-> Cves]]
  BY CveMoves, Zenon DEF CveInv, HistoryInv, CveNext, DeleteMonitorOnly
<1>2. monitor' = [monitor EXCEPT ![m0] = [stored |-> "deleted", base |-> None, hash |-> Nothing]]
  BY DEF DeleteMonitorOnly, DeleteMonitor
<1>3. monitor'[m0].stored = "deleted" /\ \A m \in Monitors : m # m0 => monitor'[m] = monitor[m]
  BY <1>1, <1>2 DEF HistoryTypeOK
<1>4. HistoryInv'
  BY <1>1, MoveKeeps DEF CveInv
<1>5. CveTyped'
  BY <1>1, NoneOfAny DEF CveTyped
<1>6. \A m \in Monitors : m # m0 => /\ alerted'[m] = alerted[m] /\ again'[m] = again[m]
                                    /\ quiet'[m] = quiet[m] /\ missed'[m] = missed[m]
  BY <1>1 DEF CveTyped
<1>7. NotYet'
  BY <1>1, <1>3, <1>6 DEF CveInv, NotYet
<1>8. TellsWhatItKnows'
  <2>1. ASSUME NEW m, m = check.of, check.phase = "told", IsStored(m)' PROVE m \in Monitors /\ m # m0 /\ IsStored(m)
    <3>1. m \in Monitors
      BY <1>1, <2>1, CveLevels
    <3>2. QED
      BY <1>3, <2>1, <3>1 DEF IsStored
  <2>2. QED
    BY <1>1, <1>6, <2>1 DEF CveInv, TellsWhatItKnows, IsStored
<1>9. ToldIsKnown' /\ KnownWasTold'
  <2>1. ASSUME NEW m \in Monitors, IsStored(m)' PROVE m # m0 /\ IsStored(m)
    BY <1>3, <2>1 DEF IsStored
  <2>2. QED
    BY <1>1, <1>6, <2>1 DEF CveInv, ToldIsKnown, KnownWasTold, Pending
<1>10. QED
  BY <1>4, <1>5, <1>7, <1>8, <1>9 DEF CveInv

LEMMA CveKeeps == ASSUME CveInv, [CveNext]_alertVars PROVE CveInv'
<1>1. CASE UNCHANGED alertVars
  <2>1. UNCHANGED <<data, fresh, known, noted, check, alerted, quiet, missed, again, assessed, found>>
    BY <1>1 DEF alertVars, cveVars
  <2>2. HistoryMove
    BY <1>1, CveMoves
  <2>3. assessed' \in [Workers -> Level] /\ found' \in [Workers -> Level]
    BY <2>1 DEF CveInv, CveTyped
  <2>4. QED
    BY <2>1, <2>2, <2>3, KnowledgeStays
<1>2. CASE OtherStep \/ \E w \in Workers : MeasureCves(w) \/ NoteRead(w) \/ NoteFails(w)
  BY <1>2, ScansKeepKnowledge
<1>3. CASE \E w \in Workers : NoteWrite(w)
  BY <1>3, NoteWriteKeeps
<1>4. CASE SyncFails \/ Ages \/ SyncEnds \/ \E m \in Monitors : Look(m)
  BY <1>4, SyncGoesOn
<1>5. CASE Tell
  BY <1>5, SyncGoesOn, TellKeeps
<1>6. CASE Skip
  BY <1>6, SyncGoesOn, LossesKeep
<1>7. CASE CrashAll
  BY <1>7, LossesKeep
<1>8. CASE \E m \in Monitors : DeleteMonitorOnly(m)
  BY <1>8, ForgetMonitorKeeps
<1>9. QED
  BY <1>1, <1>2, <1>3, <1>4, <1>5, <1>6, <1>7, <1>8, SyncKeeps, ListedKeeps, StockKeeps, RememberKeeps, Zenon DEF CveNext

LEMMA CveAlways == CveSpec => []CveInv
<1>1. CveInit => CveInv
  BY CveBegins
<1>2. CveInv /\ [CveNext]_alertVars => CveInv'
  BY CveKeeps
<1>3. QED
  BY <1>1, <1>2, PTL DEF CveSpec

\* Whatever the order of syncs, scans, deletions and crashes, no CVE is taken
\* as known that was neither told nor taken stock of (cve_alerts.py, recheck
\* and note_scan), for any number of monitors, workers, versions and CVEs.
THEOREM KnowledgeWasTold == CveSpec => []KnownWasTold
<1>1. CveInv => KnownWasTold
  BY DEF CveInv
<1>2. QED
  BY <1>1, CveAlways, PTL

\* An event repeats what was told only where what was told could not be
\* remembered, or was replaced by what a scan had read before
\* (cve_alerts.py, recheck and _take_stock).
THEOREM EventsToldOnce == CveSpec => ToldOnce
<1>1. ASSUME CveInv, NEW m \in Monitors, NEW v \in Shown, NEW c \in Cves,
             Tell, check.of = m, check.version = v, c \in ToTell(known[m][v], check.read),
             check.read[c] <= alerted[m][v][c], check'.phase = "told"
      PROVE  c \in again[m][v]
  <2>1. CveTyped /\ check.phase = "compared" /\ IsStored(m)
    <3>1. Without(m).phase = "listed"
      BY <1>1, WithoutIs DEF CveInv
    <3>2. QED
      BY <1>1, <3>1 DEF CveInv, Tell
  <2>2. check.read[c] > known[m][v][c]
    BY <1>1 DEF ToTell
  <2>3. alerted[m][v][c] > known[m][v][c]
    BY <1>1, <2>1, <2>2, CveLevels
  <2>4. QED
    BY <1>1, <2>1, <2>3 DEF CveInv, ToldIsKnown, Pending
<1>2. CveInv /\ [CveNext]_alertVars =>
        [\A m \in Monitors, v \in Shown, c \in Cves :
            (Tell /\ check.of = m /\ check.version = v /\ c \in ToTell(known[m][v], check.read)
               /\ check'.phase = "told" /\ check.read[c] <= alerted[m][v][c])
              => c \in again[m][v]]_alertVars
  BY <1>1
<1>3. QED
  BY <1>2, CveAlways, PTL DEF CveSpec, ToldOnce

\* With the CVE alerts, reports follow the baselines as without, and no purge
\* takes one: noting what a scan found touches neither.
THEOREM AlertsLeaveHistory == CveSpec => []ReportsFollowBaseline /\ PurgeKeepsBaselines
<1>1. CveInv => ReportsFollowBaseline
  BY InvReports DEF CveInv
<1>2. CveInv /\ [CveNext]_alertVars =>
          [\A m \in Monitors :
              (IsStored(m) /\ Kept(monitor[m].base) /\ IsStored(m)' /\ ~Kept(monitor[m].base)')
                  => ~Purge /\ (ClearHistory \/ DeleteScan(monitor[m].base))]_historyVars
  BY CveMoves, BaselinesStay DEF CveInv
<1>3. QED
  BY <1>1, <1>2, CveAlways, PTL DEF CveSpec, PurgeKeepsBaselines
=============================================================================
