------------------------------- MODULE MCOffice -------------------------------
(***************************************************************************)
(* The parts of the program that share nothing but the database file, each *)
(* on its own: a behaviour is one of one part, and the variables of the    *)
(* others stay as they begin.  Scans and CVE alerts are parts of one       *)
(* module: without alerts two workers scan, with alerts one.               *)
(***************************************************************************)
EXTENDS CveAlerts, AuditLog, RiskAcceptance, DomainOwnership, Accounts, PortfolioUnits, PortfolioWatch, TLC

CONSTANTS
    Parts,     \* the parts that are checked
    OneState   \* the state the domains have in the part with alerts

VARIABLE part

MCBelow == [z \in {"apex", "www"} |-> IF z = "apex" THEN {"apex"} ELSE {"apex", "www"}]

MCInit ==
    /\ part \in Parts
    /\ CveInit /\ AuditInit /\ RiskInit /\ OwnershipInit /\ AccountInit /\ UnitsInit
    /\ WatchInit
    \* What may begin in more than one way does so in its own part only.
    /\ part \notin {"history", "alerts"} => domain = [m \in Monitors |-> OneState]
    /\ part # "accounts" => \A i \in Ids : users[i] = NoRow
    /\ part # "watch" => registry = [d \in Watched |-> CHOOSE r \in Registration : TRUE]

Others(p) ==
    /\ part = p /\ UNCHANGED part
    /\ (p \notin {"history", "alerts"} => UNCHANGED historyVars)
    /\ (p # "alerts" => UNCHANGED cveVars)
    /\ (p # "audit" => UNCHANGED auditVars)
    /\ (p # "risk" => UNCHANGED riskVars)
    /\ (p # "ownership" => UNCHANGED ownershipVars)
    /\ (p # "accounts" => UNCHANGED accountVars)
    /\ (p # "units" => UNCHANGED unitVars)
    /\ (p # "watch" => UNCHANGED watchVars)

\* Of two requests one merges, moves, lifts or deletes, and the third unit
\* is for one request.
AnyEditor == CHOOSE e \in Editors : TRUE
FewEdits ==
    \A e \in Editors \ {AnyEditor} :
        /\ edit'[e].do \in {"none", "update", "merge", "lift", "delete"}
        /\ IsRow(parent', Max(Units)) => edit'[e].do = "none"

MCNext ==
    \/ Others("history") /\ HistoryNext
    \/ Others("alerts") /\ CveNext
    \/ Others("audit") /\ AuditNext
    \/ Others("risk") /\ RiskNext
    \/ Others("ownership") /\ OwnershipNext
    \/ Others("accounts") /\ AccountNext
    \/ part = "units" /\ UnitsNext /\ FewEdits /\ Others("units")
    \/ Others("watch") /\ WatchNext

MCSpec == MCInit /\ [][MCNext]_<<part, historyVars, cveVars, auditVars, riskVars, ownershipVars,
                                accountVars, unitVars, watchVars>>

\* How many do something at once, and what a part does not go on from.
AnyWorker == CHOOSE w \in Workers : TRUE
Busy == Cardinality({w \in Workers : run[w].phase # "idle"})
Asked == Cardinality({b \in Browsers : asking[b].step # "none"})
Read == Cardinality({r \in Readers : reading[r].phase # "idle"})

MCBound ==
    CASE part = "history" ->
             /\ \A m \in Monitors : Cardinality(gap[m]) <= 1
             /\ days > 0 => Busy <= 1
      [] part = "alerts" ->
             /\ \A w \in Workers : run[w].phase # "idle" => w = AnyWorker
             /\ Busy <= (IF check.phase # "idle" /\ Len(scan) = MaxScans THEN 0 ELSE 1)
             /\ domain = [m \in Monitors |-> OneState] /\ days = 0
             /\ \A m \in Monitors : gap[m] \subseteq {"unmeasured"}
      [] part = "risk" -> Cardinality(DOMAIN exceptions) = MaxAcceptances => Read <= 1
      [] part = "accounts" ->
             /\ stamps = MaxStamps => Asked <= 1
             /\ (syncing.on \/ \E i \in Ids : apiTokens[i] # NoApiToken \/ users[i].role # "admin") => Asked = 0 /\ secrets = 0
      [] part = "units" -> torn # "torn"
      [] part = "watch" ->
             /\ blurred = {}
             /\ calendar = MaxDay => \E c \in Lookers : looking[c].step = "idle"
      [] OTHER -> TRUE

\* Each part's type invariant, where its variables move.
AllTypeOK ==
    CASE part = "history" -> HistoryTypeOK
      [] part = "alerts" -> CveTypeOK
      [] part = "audit" -> AuditTypeOK
      [] part = "risk" -> RiskTypeOK
      [] part = "ownership" -> OwnershipTypeOK
      [] part = "accounts" -> AccountTypeOK
      [] part = "units" -> UnitsTypeOK
      [] part = "watch" -> WatchTypeOK
=============================================================================
