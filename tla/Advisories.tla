----------------------------- MODULE Advisories -----------------------------
(***************************************************************************)
(* Known vulnerable versions (software_advisories.py, advisory_rules.py,   *)
(* routes/advisories.py): the rules administrators keep, and the check of  *)
(* a domain against the rules in force when it begins.                     *)
(*                                                                         *)
(* Every rule here is about the one product the servers run.  A branch is  *)
(* a number (8.2 before 8.3), and so is a patch release within it, with    *)
(* OpenSSL's letter if it has one.                                         *)
(***************************************************************************)
EXTENDS Integers, Sequences, FiniteSets

CONSTANTS
    RuleIds,        \* the ids an administrator may write
    BuiltinRules,   \* BUILTIN_RULES
    RawRules,       \* the rules that are written, those refused among them
    Admins,         \* request threads
    MaxRules,       \* MAX_RULES
    Hosts, Site,    \* hosts, and the registered domain of each
    Candidates,     \* the hosts asked, in order: https, http, https on www.
    Builds,         \* what runs on a host, and what its answers show of it
    MaxHops,        \* max_hops
    MaxChanges,     \* bound: changes of the rules
    NoRule, NoVersion

Places == {"header", "generator"}
Release == [branch : Nat, patch : Nat]
\* "release": PHP/8.2.7.  "branch": PHP/8.2.  "name": the product and no
\* more than a major version.
Kinds == {"release", "branch", "name", "nothing"}
Build == [branch : Nat, patch : Nat,
          vendor : BOOLEAN,       \* says that it is a distribution's own build
          backported : BOOLEAN,   \* has the fixes without the number
          header : Kinds, generator : Kinds,
          files : {"release", "name", "nothing"},  \* core files, paths on its own pages
          cookie : {"name", "nothing"}]
RawRule == [sources : Seq(Places), fixes : SUBSET Release,
            introduced : SUBSET Release,   \* none or one
            older : {"unfixed", "not_affected"}]

ASSUME AdvisoryConstants ==
    /\ RawRules \subseteq RawRule /\ BuiltinRules \subseteq RawRule
    /\ Builds \subseteq Build /\ IsFiniteSet(RuleIds) /\ RuleIds # {}
    /\ MaxRules \in Nat /\ MaxChanges \in Nat /\ MaxHops \in Nat
    /\ Site \in [Hosts -> Hosts] /\ Candidates \in Seq(Hosts) /\ Len(Candidates) > 0
    /\ NoRule \notin [rule : RawRule, enabled : BOOLEAN]
    /\ NoVersion \notin [branch : Nat, patch : Nat, patch_known : BOOLEAN, vendor : BOOLEAN]

VARIABLES
    rows,      \* advisory_rules: the stored rules
    changes,   \* history: the ids each committed change wrote, and whether it removed them
    logged,    \* the changes the audit log has
    cut,       \* history: the changes whose request the end of the program cut off
    unwritten, \* history: the changes whose request the database failed after the commit
    admin,     \* what each request thread does, and its change
    runs,      \* what runs on each host
    check      \* a check of a domain: the rules it read, the answers so far, the result

ruleVars == <<rows, changes, logged, cut, unwritten, admin>>
checkVars == <<runs, check>>
advisoryVars == <<rows, changes, logged, cut, unwritten, admin, runs, check>>

(***************************************************************************)
(* The engine: what a rule says of a version.                              *)
(***************************************************************************)
Precedes(a, b) == a.branch < b.branch \/ (a.branch = b.branch /\ a.patch < b.patch)

\* compile_rule refuses any other.
Compiles(rule) ==
    /\ rule.sources # << >> /\ rule.fixes # {}
    /\ \A f \in rule.fixes, g \in rule.fixes : f.branch = g.branch => f = g
    /\ \A r \in rule.introduced : \E f \in rule.fixes : Precedes(r, f)

FixOf(rule, branch) == CHOOSE f \in rule.fixes : f.branch = branch

Predates_AnyPatch(rule, v) ==
    \E r \in rule.introduced : Precedes(v, r)

\* Older than the release the flaw came in with, as far as what is shown says.
Predates(rule, v) ==
    \E r \in rule.introduced :
        v.branch < r.branch \/ (v.patch_known /\ Precedes(v, r))

\* verdict, of a branch for which the rule names no release.
OtherBranch(rule, v) ==
    IF \A f \in rule.fixes : v.branch > f.branch THEN "fixed"
    ELSE IF \E f \in rule.fixes : v.branch > f.branch THEN "cannot_tell"
    ELSE IF rule.older = "not_affected" THEN "not_affected"
    ELSE IF v.vendor THEN "cannot_tell" ELSE "vulnerable"

KnownBranch(rule, v) ==
    IF ~v.patch_known THEN "cannot_tell"
    ELSE IF ~Precedes(v, FixOf(rule, v.branch)) THEN "fixed"
    ELSE IF v.vendor THEN "cannot_tell" ELSE "vulnerable"

Verdict(rule, v) ==
    IF v = NoVersion THEN "cannot_tell"
    ELSE IF Predates(rule, v) THEN "not_affected"
    ELSE IF \E f \in rule.fixes : f.branch = v.branch THEN KnownBranch(rule, v)
    ELSE OtherBranch(rule, v)

(***************************************************************************)
(* What the answers on a side show.  A side is the hosts that answered, in *)
(* order, and whether the page belongs to it: the last answer's body.      *)
(***************************************************************************)
Shown(h, kind) ==
    [branch |-> runs[h].branch, patch |-> IF kind = "release" THEN runs[h].patch ELSE 0,
     patch_known |-> kind = "release", vendor |-> runs[h].vendor]

FinalHop(hops) == hops[Len(hops)]
Numbered == {"release", "branch"}

\* The first of places in order.
First(places) == CHOOSE i \in places : \A j \in places : i <= j

\* The first of the merged headers that has a number, else nothing.
InHeaders(side) ==
    LET with == {i \in 1..Len(side.hops) : runs[side.hops[i]].header \in Numbered}
    IN  IF with = {} THEN NoVersion
        ELSE LET h == side.hops[First(with)]
             IN  Shown(h, runs[h].header)

InGenerator(side) ==
    IF side.page /\ runs[FinalHop(side.hops)].generator \in Numbered
    THEN Shown(FinalHop(side.hops), runs[FinalHop(side.hops)].generator) ELSE NoVersion

InPlace(place, side) == IF place = "header" THEN InHeaders(side) ELSE InGenerator(side)

\* core_asset_version: the number alone, without what the vendor adds to it.
InFiles(side) ==
    IF side.page /\ runs[FinalHop(side.hops)].files = "release"
    THEN [Shown(FinalHop(side.hops), "release") EXCEPT !.vendor = FALSE] ELSE NoVersion

\* read_version.
ReadVersion(rule, side) ==
    LET with == {i \in 1..Len(rule.sources) : InPlace(rule.sources[i], side) # NoVersion}
    IN  IF with = {} THEN InFiles(side)
        ELSE InPlace(rule.sources[First(with)], side)

\* seen.
Seen(rule, side) ==
    \/ \E s \in 1..Len(rule.sources), i \in 1..Len(side.hops) :
           rule.sources[s] = "header" /\ runs[side.hops[i]].header # "nothing"
    \/ /\ side.page
       /\ \/ \E s \in 1..Len(rule.sources) :
                 rule.sources[s] = "generator" /\ runs[FinalHop(side.hops)].generator # "nothing"
          \/ runs[FinalHop(side.hops)].files # "nothing"
    \/ \E i \in 1..Len(side.hops) : runs[side.hops[i]].cookie # "nothing"

\* match.
Matches(rules, side) ==
    {[rule |-> r, verdict |-> Verdict(r, ReadVersion(r, side))] :
        r \in {q \in rules : ReadVersion(q, side) # NoVersion \/ Seen(q, side)}}

(***************************************************************************)
(* measure: the answers of the domain's own site, and those of the site    *)
(* the redirects end on.  A chain that comes back to the domain's own site *)
(* ends, for the code, on another.                                         *)
(***************************************************************************)
OwnCount(hops) ==
    CHOOSE n \in 1..Len(hops) :
        /\ \A i \in 2..n : Site[hops[i]] = Site[hops[1]]
        /\ n < Len(hops) => Site[hops[n + 1]] # Site[hops[1]]

TargetFrom(hops) ==
    CHOOSE n \in OwnCount(hops) + 1..Len(hops) :
        /\ \A i \in n..Len(hops) : Site[hops[i]] = Site[FinalHop(hops)]
        /\ n > OwnCount(hops) + 1 => Site[hops[n - 1]] # Site[FinalHop(hops)]

Redirected(hops) == OwnCount(hops) < Len(hops)

\* The page is read when a rule asks for its generator tag.
PageRead(rules) == \E r \in rules : \E i \in 1..Len(r.sources) : r.sources[i] = "generator"

OwnSide(rules, hops) ==
    [hops |-> SubSeq(hops, 1, OwnCount(hops)), page |-> PageRead(rules) /\ ~Redirected(hops)]
TargetSide(rules, hops) ==
    [hops |-> SubSeq(hops, TargetFrom(hops), Len(hops)), page |-> PageRead(rules)]

ResultOf(rules, hops) ==
    [own |-> Matches(rules, OwnSide(rules, hops)),
     target |-> IF Redirected(hops) THEN Matches(rules, TargetSide(rules, hops)) ELSE {}]

\* finding, redirect_finding.
Findings(result) ==
    {[side |-> "own", rule |-> m.rule] :
        m \in {e \in result.own : e.verdict \in {"vulnerable", "cannot_tell"}}} \cup
    {[side |-> "target", rule |-> m.rule] : m \in {e \in result.target : e.verdict = "vulnerable"}}

(***************************************************************************)
(* The requests of administrators.  A change is one transaction under      *)
(* db._lock; the handler then reads the rule again for its answer, in      *)
(* another, and records the change.  What is refused changes nothing.      *)
(***************************************************************************)
RuleRows == [rule : RawRule, enabled : BOOLEAN]
StoredIds == {i \in RuleIds : rows[i] # NoRule}
Changes == 1..Len(changes)
Requests == [at : {"idle", "reread", "record"}, id : RuleIds, change : Nat]

\* Commits new rows, by a thread that goes on to `next`.
Commits(a, next, id, ids, new, gone) ==
    /\ admin[a].at = "idle" /\ Len(changes) < MaxChanges
    /\ rows' = new
    /\ changes' = Append(changes, [ids |-> ids, gone |-> gone])
    /\ admin' = [admin EXCEPT ![a] = [at |-> next, id |-> id, change |-> Len(changes) + 1]]
    /\ UNCHANGED <<logged, cut, unwritten, runs, check>>

\* save, of a new rule and of one there is.
Create(a, id, raw) ==
    /\ Compiles(raw) /\ id \notin StoredIds /\ Cardinality(StoredIds) < MaxRules
    /\ Commits(a, "reread", id, {id}, [rows EXCEPT ![id] = [rule |-> raw, enabled |-> TRUE]], FALSE)

Replace(a, id, raw) ==
    /\ Compiles(raw) /\ id \in StoredIds
    /\ Commits(a, "reread", id, {id}, [rows EXCEPT ![id].rule = raw], FALSE)

SetEnabled(a, id, on) ==
    /\ id \in StoredIds
    /\ Commits(a, "reread", id, {id}, [rows EXCEPT ![id].enabled = on], FALSE)

Delete(a, id) ==
    /\ id \in StoredIds
    /\ Commits(a, "record", id, {id}, [rows EXCEPT ![id] = NoRule], TRUE)

Import_Added(a, file, replace) ==
    LET ids == DOMAIN file
        written == IF replace THEN ids ELSE ids \ StoredIds
    IN  /\ \A i \in ids : Compiles(file[i].rule)
        /\ Cardinality(StoredIds \cup ids) <= MaxRules
        /\ Commits(a, IF written \subseteq StoredIds THEN "idle" ELSE "record",
                   CHOOSE i \in ids : TRUE, written,
                   [i \in RuleIds |-> IF i \in written THEN file[i] ELSE rows[i]], FALSE)

\* import_rules, of a file or of the examples: all of it or nothing.
Import(a, file, replace) ==
    LET ids == DOMAIN file
        written == IF replace THEN ids ELSE ids \ StoredIds
    IN  /\ \A i \in ids : Compiles(file[i].rule)
        /\ Cardinality(StoredIds \cup ids) <= MaxRules
        /\ Commits(a, "record", CHOOSE i \in ids : TRUE, written,
                   [i \in RuleIds |-> IF i \in written THEN file[i] ELSE rows[i]], FALSE)

\* get.  Without the rule the handler fails, before it records.
Reread(a) ==
    /\ admin[a].at = "reread"
    /\ admin' = [admin EXCEPT ![a].at = IF rows[admin[a].id] = NoRule THEN "idle" ELSE "record"]
    /\ UNCHANGED <<rows, changes, logged, cut, unwritten, runs, check>>

Record(a) ==
    /\ admin[a].at = "record"
    /\ logged' = logged \cup {admin[a].change}
    /\ admin' = [admin EXCEPT ![a].at = "idle"]
    /\ UNCHANGED <<rows, changes, cut, unwritten, runs, check>>

\* The database fails: the handler stops before it records, or record cannot
\* write its entry, says so in the program's own log and returns as if it had.
DatabaseFails(a) ==
    /\ admin[a].at # "idle"
    /\ unwritten' = unwritten \cup {admin[a].change}
    /\ admin' = [admin EXCEPT ![a].at = "idle"]
    /\ UNCHANGED <<rows, changes, logged, cut, runs, check>>

(***************************************************************************)
(* check_host.  DNS answers what it likes each time; the answers of the    *)
(* hosts redirect anywhere, and a request may fail.                        *)
(***************************************************************************)
Addresses == {"public", "private", "none", "failed"}
Ended == {"measured", "unmeasured", "no_address", "not_checked"}
NoCheck == [at |-> "idle", n |-> 1, here |-> Candidates[1], hops |-> << >>,
            known |-> [h \in Hosts |-> "unasked"], errors |-> FALSE, rules |-> {},
            result |-> [own |-> {}, target |-> {}]]

\* active_rules.
RulesInForce == BuiltinRules \cup {rows[i].rule : i \in {j \in StoredIds : rows[j].enabled}}

StartCheck ==
    /\ check.at \in Ended \cup {"idle"}
    /\ check' = [NoCheck EXCEPT !.at = "candidate", !.rules = RulesInForce]
    /\ UNCHANGED <<ruleVars, runs>>

Ending(c) ==
    LET states == {c.known[h] : h \in Hosts}
    IN  IF c.errors \/ "failed" \in states THEN "unmeasured"
        ELSE IF "private" \in states THEN "not_checked" ELSE "no_address"

NextCandidate(c) ==
    IF c.n < Len(Candidates) THEN [c EXCEPT !.at = "candidate", !.n = @ + 1]
    ELSE [c EXCEPT !.at = Ending(c)]

LookUp(answer) ==
    LET host == Candidates[check.n]
        found == IF check.known[host] = "unasked" THEN answer ELSE check.known[host]
        c == [check EXCEPT !.known[host] = found]
    IN  /\ check.at = "candidate"
        /\ check' = IF found = "public" THEN [c EXCEPT !.at = "get", !.here = host, !.hops = << >>]
                    ELSE NextCandidate(c)
        /\ UNCHANGED <<ruleVars, runs>>

GetFails ==
    /\ check.at = "get"
    /\ check' = NextCandidate([check EXCEPT !.errors = TRUE])
    /\ UNCHANGED <<ruleVars, runs>>

\* _fetch: a redirect is followed to an address that is public now.
Follow(next) ==
    /\ check.at = "get" /\ Len(check.hops) < MaxHops
    /\ check' = [check EXCEPT !.hops = Append(@, check.here), !.here = next]
    /\ UNCHANGED <<ruleVars, runs>>

\* The last answer: a page, or a redirect that is not followed.
LastAnswer ==
    LET hops == Append(check.hops, check.here)
    IN  /\ check.at = "get"
        /\ check' = [check EXCEPT !.at = "measured", !.hops = hops,
                                  !.result = ResultOf(check.rules, hops)]
        /\ UNCHANGED <<ruleVars, runs>>

\* The program ends and is started again.
RestartAdvisories ==
    /\ cut' = cut \cup {admin[a].change : a \in {b \in Admins : admin[b].at # "idle"}}
    /\ admin' = [a \in Admins |-> [admin[a] EXCEPT !.at = "idle"]]
    /\ check' = NoCheck
    /\ UNCHANGED <<rows, changes, logged, unwritten, runs>>

Outcomes == {"vulnerable", "fixed", "not_affected", "cannot_tell"}
Matched == SUBSET [rule : RawRule, verdict : Outcomes]
Checks == [at : Ended \cup {"idle", "candidate", "get"}, n : 1..Len(Candidates), here : Hosts,
           hops : Seq(Hosts), known : [Hosts -> Addresses \cup {"unasked"}], errors : BOOLEAN,
           rules : SUBSET RawRule, result : [own : Matched, target : Matched]]

AdvisoryTypeOK ==
    /\ rows \in [RuleIds -> RuleRows \cup {NoRule}]
    /\ changes \in Seq([ids : SUBSET RuleIds, gone : BOOLEAN])
    /\ logged \subseteq Nat /\ cut \subseteq Nat /\ unwritten \subseteq Nat
    /\ admin \in [Admins -> Requests]
    /\ runs \in [Hosts -> Builds]
    /\ check \in Checks

(***************************************************************************)
(* The specification.                                                      *)
(***************************************************************************)
AdvisoryInit ==
    /\ rows = [i \in RuleIds |-> NoRule]
    /\ changes = << >> /\ logged = {} /\ cut = {} /\ unwritten = {}
    /\ admin = [a \in Admins |-> [at |-> "idle", id |-> CHOOSE i \in RuleIds : TRUE, change |-> 0]]
    /\ runs \in [Hosts -> Builds]
    /\ check = NoCheck

Files == UNION {[ids -> [rule : RawRules, enabled : BOOLEAN]] : ids \in (SUBSET RuleIds) \ {{}}}

Handler(a) ==
    \/ \E id \in RuleIds, raw \in RawRules : Create(a, id, raw) \/ Replace(a, id, raw)
    \/ \E id \in RuleIds : Delete(a, id) \/ \E on \in BOOLEAN : SetEnabled(a, id, on)
    \/ \E file \in Files, replace \in BOOLEAN : Import(a, file, replace)
    \/ Reread(a) \/ Record(a) \/ DatabaseFails(a)

CheckStep ==
    \/ StartCheck \/ GetFails \/ LastAnswer
    \/ \E answer \in Addresses : LookUp(answer)
    \/ \E next \in Hosts : Follow(next)

AdvisoryNext == (\E a \in Admins : Handler(a)) \/ CheckStep \/ RestartAdvisories

AdvisorySpec == AdvisoryInit /\ [][AdvisoryNext]_advisoryVars

(***************************************************************************)
(* Properties.                                                             *)
(***************************************************************************)
\* Whether a server may have the flaw a rule is about, whatever it shows: what it
\* runs is neither patched, nor from before the flaw, nor a release with the fix.
MayHaveFlaw(rule, build) ==
    /\ ~build.backported
    /\ \A r \in rule.introduced : ~Precedes(build, r)
    /\ \E f \in rule.fixes : build.branch <= f.branch
    /\ \A f \in rule.fixes : build.branch = f.branch => Precedes(build, f)
    /\ rule.older = "not_affected" => \E f \in rule.fixes : build.branch >= f.branch

\* A domain whose own servers show a product, and may all of them have the flaw of
\* a rule that was in force, has a finding of that rule: a hidden patch number, a
\* distribution's build or a removed header never reads as clean (verdict, finding).
SilentIsClean ==
    check.at = "measured" =>
        LET side == OwnSide(check.rules, check.hops)
        IN  \A r \in check.rules :
                Seen(r, side) /\ (\A i \in 1..Len(side.hops) : MayHaveFlaw(r, runs[side.hops[i]]))
                    => [side |-> "own", rule |-> r] \in Findings(check.result)

\* A committed change of the rules is in the audit log, or its request is about to
\* put it there, with three exceptions: the program ended in between; the database
\* failed after the commit, so that the entry could not be written (audit_log.record
\* reports that and raises nothing); or another request has removed the rule since
\* (save and set_enabled read it once more, after their lock).
ChangesAreLogged ==
    \A n \in Changes :
        \/ n \in logged \cup cut \cup unwritten
        \/ \E a \in Admins : admin[a].at # "idle" /\ admin[a].change = n
        \/ \E m \in n + 1..Len(changes) : changes[m].gone /\ changes[m].ids = changes[n].ids
=============================================================================
