----------------------------- MODULE MCThirdParties -----------------------------
(***************************************************************************)
(* What the program asks of others: the budget of a service, the NVD, the  *)
(* registries, the questions of a scan, and the check of versions.  They   *)
(* share nothing: a behaviour is one of one part, and the variables of the *)
(* others stay as they begin.                                              *)
(***************************************************************************)
EXTENDS RateLimits, CveFeed, WhoisBatch, ScanVerdicts, Advisories

CONSTANTS Parts   \* the parts that are checked

VARIABLE part

askingVars == <<part, vars, feedVars, batchVars, verdictVars, advisoryVars>>

MCRdapServer == <<"sidn", "sidn">>
MCSelections == { {"all"}, {"ncsc_tls"}, {"http_deep", "spf"} }

MCSite == "own" :> "own" @@ "www" :> "own" @@ "other" :> "other"
MCCandidates == <<"own", "own", "www">>
\* The flaw came in with 2.1; 2.3 and 3.1 have the fix.
MCRule(sources, older) ==
    [sources |-> sources, fixes |-> {[branch |-> 2, patch |-> 3], [branch |-> 3, patch |-> 1]},
     introduced |-> {[branch |-> 2, patch |-> 1]}, older |-> older]
MCBuiltinRules == {MCRule(<<"header">>, "unfixed")}
MCRawRules ==
    {[MCRule(<<"generator", "header">>, "not_affected") EXCEPT !.introduced = {}],
     [MCRule(<<"header">>, "unfixed") EXCEPT !.fixes = {}]}
MCBuild(branch, patch) ==
    [branch |-> branch, patch |-> patch, vendor |-> FALSE, backported |-> FALSE, header |-> "release",
     generator |-> "nothing", files |-> "nothing", cookie |-> "nothing"]
\* A flawed release, shown and not shown, one with the fix, one from before the
\* flaw, and a distribution's.
MCBuilds ==
    {MCBuild(2, 2), [MCBuild(2, 2) EXCEPT !.header = "branch"], MCBuild(3, 1),
     [MCBuild(2, 2) EXCEPT !.header = "nothing", !.cookie = "name", !.generator = "name"],
     [MCBuild(2, 0) EXCEPT !.header = "nothing", !.files = "release"],
     [MCBuild(1, 5) EXCEPT !.vendor = TRUE, !.backported = TRUE]}

MCInit ==
    /\ part \in Parts
    /\ Init /\ FeedInit /\ BatchInit /\ VerdictInit /\ AdvisoryInit
    /\ part # "verdicts" => site = [base |-> "ordinary", change |-> << >>] /\ selected = {"all"}
    /\ part # "advisories" => \A h \in Hosts : runs[h] = MCBuild(2, 2)
    /\ runs["www"] = MCBuild(2, 2)

Others(p) ==
    /\ part = p /\ UNCHANGED part
    /\ (p # "limits" => UNCHANGED vars)
    /\ (p # "feed" => UNCHANGED feedVars)
    /\ (p # "batch" => UNCHANGED batchVars)
    /\ (p # "verdicts" => UNCHANGED verdictVars)
    /\ (p # "advisories" => UNCHANGED advisoryVars)

MCNext ==
    \/ Others("limits") /\ Next
    \/ Others("feed") /\ FeedNext
    \/ Others("batch") /\ BatchNext
    \/ Others("verdicts") /\ VerdictNext
    \/ Others("advisories") /\ AdvisoryNext

\* Only the threads that wait for a slot are sure to go on.
MCSpec ==
    /\ MCInit /\ [][MCNext]_askingVars
    /\ WF_askingVars(Others("limits") /\ Tick)
    /\ \A c \in Threads : WF_askingVars(Others("limits") /\ Step(c))

\* A domain is checked after one change of the rules at most; more changes are made
\* in one world.
MCAdvisories ==
    /\ check.at # "idle" =>
           Len(changes) <= 1 /\ cut = {} /\ unwritten = {} /\ \A a \in Admins : admin[a].at = "idle"
    /\ Len(changes) > 1 => \A h \in Hosts : runs[h] = MCBuild(2, 2)

\* Of a product some record is changed at most once.
MCBound ==
    /\ MCAdvisories
    /\ part = "feed" => \A p \in Products : \E r \in Records : nvd[p][r].revision <= 1
=============================================================================
