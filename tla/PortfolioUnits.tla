---------------------------- MODULE PortfolioUnits ----------------------------
(***************************************************************************)
(* The tree of units of the domain portfolio (domain_portfolio.py) and the *)
(* unit of each domain.  A request looks at the tree, decides that what it *)
(* is to do is possible, takes the lock of the database and writes by id;  *)
(* another request may have changed the tree in between.                   *)
(***************************************************************************)
EXTENDS Integers, Sequences, FiniteSets, FiniteSetsExt

CONSTANTS
    Units,    \* portfolio_groups.id: AUTOINCREMENT never gives one twice
    UnitNames,    \* names of units
    Domains,  \* portfolio_domains
    Editors,  \* requests
    MaxFold   \* bound: steps of one merge; Python ends one that is too deep

ASSUME UnitConstants ==
    Units \subseteq Nat \ {0} /\ Units # {} /\ Domains # {} /\ MaxFold \in Nat

VARIABLES
    parent,   \* per unit its parent_id, Unborn or Removed
    name,     \* per unit its name
    member,   \* per domain its group_id, or Out of the portfolio
    edit,     \* per request, what it found possible
    torn      \* history: requests wrote to a tree that had changed since they looked

unitVars == <<parent, name, member, edit, torn>>

Top == 0      \* parent_id or group_id is NULL
Unborn == -1  \* no row yet
Removed == -2    \* no row any more
Out == -3
NoName == ""

Edit == [do : {"none", "add", "update", "merge", "lift", "delete", "assign", "import"},
         unit : Units, to : Units \cup {Top}, named : UnitNames \cup {NoName}, domain : Domains,
         was : Units \cup {Top, Out}, late : BOOLEAN]
NoEdit == [do |-> "none", unit |-> CHOOSE u \in Units : TRUE, to |-> Top, named |-> NoName,
           domain |-> CHOOSE d \in Domains : TRUE, was |-> Out, late |-> FALSE]

UnitsTypeOK ==
    /\ parent \in [Units -> Units \cup {Top, Unborn, Removed}]
    /\ name \in [Units -> UnitNames \cup {NoName}]
    /\ member \in [Domains -> Units \cup {Top, Out}]
    /\ edit \in [Editors -> Edit]
    /\ torn \in {"whole", "worn", "torn"}

UnitsInit ==
    /\ parent = [u \in Units |-> Unborn]
    /\ name = [u \in Units |-> NoName]
    /\ member = [d \in Domains |-> Out]
    /\ edit = [e \in Editors |-> NoEdit]
    /\ torn = "whole"

(***************************************************************************)
(* Reading the tree                                                        *)
(***************************************************************************)
\* A row of the table parents.
IsRow(parents, u) == parents[u] \notin {Unborn, Removed}
Rows == {u \in Units : IsRow(parent, u)}

\* Units of which each is below another: a walk from the top reaches none.
Circles == {S \in SUBSET Rows : \A u \in S : parent[u] \in S}

\* list_groups walks from the top, where a unit also is when its parent is
\* not there: what the walk does not reach is not listed.
InList == Rows \ UNION Circles

\* descendants: the unit and every listed unit below it.
Descendants(u) ==
    {v \in InList \cup {u} : \A S \in SUBSET Units :
        (u \in S /\ \A w \in InList : parent[w] \in S => w \in S) => v \in S}

\* _find: the first row of that name under that parent, or none.
Find(parents, n, p) ==
    LET same == {u \in Units : IsRow(parents, u) /\ name[u] = n /\ parents[u] = p}
    IN  IF same = {} THEN Top ELSE Min(same)

(***************************************************************************)
(* A request looks, at units that are listed                               *)
(***************************************************************************)
Idle(e) == edit[e].do = "none"

AskFor(e, request) ==
    /\ edit' = [edit EXCEPT ![e] = request]
    /\ UNCHANGED <<parent, name, member, torn>>

AskAdd(e, n, p) ==
    AskFor(e, [NoEdit EXCEPT !.do = "add", !.named = n, !.to = p])

MayBeUnder_Anything(u) == InList \cup {Top}

\* A unit goes under no unit of its own.
MayBeUnder(u) == (InList \cup {Top}) \ Descendants(u)

\* update_group, also when only another field of the unit is to change: the
\* name and the parent it read are written again.
AskUpdate(e, u, p, n) ==
    AskFor(e, [NoEdit EXCEPT !.do = "update", !.unit = u, !.to = p, !.named = n])

AskMerge(e, u, target) ==
    AskFor(e, [NoEdit EXCEPT !.do = "merge", !.unit = u, !.to = target])

\* delete_group: its units and domains are lifted to its parent, or go too.
AskDelete(e, u, contents) ==
    AskFor(e, [NoEdit EXCEPT !.do = contents, !.unit = u, !.to = parent[u]])

\* assign and move.
AskAssign(e, d, p) ==
    /\ member[d] # p
    /\ AskFor(e, [NoEdit EXCEPT !.do = "assign", !.domain = d, !.to = p, !.was = member[d]])

\* import_domains: a line names a unit by its path, or takes the default.
AskImport(e, d, n, default) ==
    AskFor(e, [NoEdit EXCEPT !.do = "import", !.domain = d, !.named = n, !.to = default, !.was = member[d]])

(***************************************************************************)
(* and writes                                                              *)
(***************************************************************************)
\* The request ends; the others looked at a tree that is no more.
Done(e, changed) ==
    edit' = [f \in Editors |-> IF f = e THEN NoEdit
                               ELSE IF changed /\ edit[f].do # "none" THEN [edit[f] EXCEPT !.late = TRUE]
                               ELSE edit[f]]

\* ensure_group: the unit of that name, or the next id.
Ensured(n, p) ==
    IF Find(parent, n, p) # Top THEN [unit |-> Find(parent, n, p), parent |-> parent, name |-> name]
    ELSE LET u == Min({v \in Units : parent[v] = Unborn})
         IN  [unit |-> u, parent |-> [parent EXCEPT ![u] = p], name |-> [name EXCEPT ![u] = n]]
Room == \E u \in Units : parent[u] = Unborn

NamesGo == name' = [u \in Units |-> IF IsRow(parent', u) THEN name[u] ELSE NoName]

\* What the tree may have come to.  own: the unit that is merged was found as
\* the twin of a unit of its own, which fold() may when it is below the target.
Tear(e, own) ==
    torn' = IF torn = "torn" \/ (edit[e].late /\ edit[e].do \in {"update", "merge", "lift"}) THEN "torn"
            ELSE IF edit[e].late \/ own THEN "worn"
            ELSE torn

Add(e) ==
    /\ edit[e].do = "add" /\ Room
    /\ LET made == Ensured(edit[e].named, edit[e].to) IN
       /\ parent' = made.parent /\ name' = made.name
       /\ Done(e, parent # made.parent)
    /\ Tear(e, FALSE) /\ UNCHANGED member

\* UPDATE ... WHERE id = ?, when no other unit there has the name.
Update(e) ==
    LET u == edit[e].unit p == edit[e].to
        clash == Find(parent, edit[e].named, p)
    IN
    /\ edit[e].do = "update"
    /\ IF clash \in {Top, u} /\ u \in Rows
       THEN /\ parent' = [parent EXCEPT ![u] = p] /\ name' = [name EXCEPT ![u] = edit[e].named]
            /\ Done(e, parent' # parent) /\ Tear(e, FALSE)
       ELSE Done(e, FALSE) /\ UNCHANGED <<parent, name, torn>>
    /\ UNCHANGED member

\* fold: domains and units go over; a unit whose name is there already is
\* folded into that one in turn; then the row goes.  calls: the calls that have
\* not returned, with the units each has read and not come to.
Call == [src : Units, dst : Units, kids : SUBSET Units]
Folding == [parent : [Units -> Units \cup {Top, Unborn, Removed}], member : [Domains -> Units \cup {Top, Out}],
            calls : Seq(Call), own : BOOLEAN]

CallFold(t, s, d) ==
    [t EXCEPT !.member = [x \in Domains |-> IF t.member[x] = s THEN d ELSE t.member[x]],
              !.calls = Append(t.calls, [src |-> s, dst |-> d, kids |-> {c \in Units : t.parent[c] = s}])]

ReturnFold(t) ==
    [t EXCEPT !.parent[t.calls[Len(t.calls)].src] = Removed, !.calls = SubSeq(t.calls, 1, Len(t.calls) - 1)]

NextUnit(t, c, source) ==
    LET n == Len(t.calls)
        twin == Find(t.parent, name[c], t.calls[n].dst)
        on == [t EXCEPT !.calls[n].kids = t.calls[n].kids \ {c}]
    IN  IF twin = Top THEN [on EXCEPT !.parent[c] = t.calls[n].dst]
        ELSE [CallFold(on, c, twin) EXCEPT !.own = t.own \/ twin = source]

FoldOn(t, source) ==
    IF t.calls = <<>> THEN t
    ELSE LET kids == t.calls[Len(t.calls)].kids
         IN  IF kids = {} THEN ReturnFold(t) ELSE NextUnit(t, CHOOSE c \in kids : TRUE, source)

Fold(source, target) ==
    LET first == CallFold([parent |-> parent, member |-> member, calls |-> <<>>, own |-> FALSE], source, target)
        folded[n \in Nat] == IF n = 0 THEN first ELSE FoldOn(folded[n - 1], source)
    IN  folded[MaxFold]

\* One transaction: written when it comes to its end, else rolled back.
Merge(e) ==
    LET t == Fold(edit[e].unit, edit[e].to) IN
    /\ edit[e].do = "merge"
    /\ IF t.calls = <<>>
       THEN /\ parent' = t.parent /\ member' = t.member
            /\ NamesGo /\ Done(e, TRUE) /\ Tear(e, t.own)
       ELSE Done(e, FALSE) /\ UNCHANGED <<parent, name, member, torn>>

\* To the parent it had when it was read.
Lifted(u, to) ==
    [v \in Units |-> IF v = u THEN Removed ELSE IF parent[v] = u THEN to ELSE parent[v]]

Lift(e) ==
    LET u == edit[e].unit IN
    /\ edit[e].do = "lift"
    /\ member' = [d \in Domains |-> IF member[d] = u THEN edit[e].to ELSE member[d]]
    /\ parent' = Lifted(u, edit[e].to)
    /\ NamesGo /\ Done(e, TRUE) /\ Tear(e, FALSE)

Delete(e) ==
    LET all == Descendants(edit[e].unit) IN
    /\ edit[e].do = "delete"
    /\ member' = [d \in Domains |-> IF member[d] \in all THEN Out ELSE member[d]]
    /\ parent' = [u \in Units |-> IF u \in all /\ IsRow(parent, u) THEN Removed ELSE parent[u]]
    /\ NamesGo /\ Done(e, TRUE) /\ Tear(e, FALSE)

\* INSERT fails on a domain that was added since; UPDATE changes nothing of
\* one that was removed.
Placed(d, was, to) ==
    IF (was = Out) = (member[d] = Out) THEN [member EXCEPT ![d] = to] ELSE member

Assign(e) ==
    /\ edit[e].do = "assign"
    /\ member' = Placed(edit[e].domain, edit[e].was, edit[e].to)
    /\ Done(e, FALSE) /\ Tear(e, FALSE) /\ UNCHANGED <<parent, name>>

\* A line that names no unit moves only a domain that is in none.
Import(e) ==
    LET was == edit[e].was
        named == edit[e].named # NoName
        made == IF named THEN Ensured(edit[e].named, Top) ELSE [unit |-> edit[e].to, parent |-> parent, name |-> name]
    IN
    /\ edit[e].do = "import" /\ (named => Room)
    /\ member' = IF named \/ was \in {Out, Top} THEN Placed(edit[e].domain, was, made.unit) ELSE member
    /\ parent' = made.parent /\ name' = made.name
    /\ Done(e, parent # made.parent) /\ Tear(e, FALSE)

\* remove, which looks and writes under the lock.
RemoveMember(d) ==
    /\ member[d] # Out
    /\ member' = [member EXCEPT ![d] = Out]
    /\ UNCHANGED <<parent, name, edit, torn>>

UnitsNext ==
    \/ \E e \in Editors :
          \/ Add(e) \/ Update(e) \/ Merge(e) \/ Lift(e) \/ Delete(e) \/ Assign(e) \/ Import(e)
          \/ Idle(e) /\ \E p \in InList \cup {Top} :
                \/ \E n \in UnitNames : AskAdd(e, n, p)
                \/ \E d \in Domains : AskAssign(e, d, p)
                \/ \E d \in Domains, n \in UnitNames \cup {NoName} : AskImport(e, d, n, p)
          \/ Idle(e) /\ \E u \in InList :
                \/ \E p \in MayBeUnder(u) \cup {parent[u]}, n \in UnitNames : AskUpdate(e, u, p, n)
                \/ \E target \in InList \ Descendants(u) : AskMerge(e, u, target)
                \/ \E contents \in {"lift", "delete"} : AskDelete(e, u, contents)
    \/ \E d \in Domains : RemoveMember(d)

UnitsSpec == UnitsInit /\ [][UnitsNext]_unitVars

(***************************************************************************)
(* Properties                                                              *)
(***************************************************************************)
\* Whatever is moved, merged, lifted and deleted, each unit stays within
\* reach of the pages that list units, also when a unit was deleted, added
\* to or given a domain by a request that had looked at an earlier tree.
\* Only two moves, merges or lifts at once can put each unit below the other
\* (domain_portfolio.py update_group, merge_group, delete_group).
NoUnitLost == torn = "torn" \/ Rows = InList

\* And, but for requests that looked at an earlier tree and for a unit
\* merged into one it is below when it is taken for the twin of one of its own,
\* each unit is under a unit that is there, and each domain in one.
NoUnitMissing ==
    torn = "whole" => /\ \A u \in Rows : parent[u] \in Rows \cup {Top}
                      /\ \A d \in Domains : member[d] \in Rows \cup {Top, Out}

TreeKept == NoUnitLost /\ NoUnitMissing

\* "Every domain in the merged branch goes along" (merge_group): a domain of
\* a unit merged into another is in a unit afterwards.
DomainsGoAlong ==
    [][\A e \in Editors : \A d \in Domains :
          edit[e].do = "merge" /\ edit'[e].do = "none" /\ ~edit[e].late /\ member[d] \in Descendants(edit[e].unit)
              => member'[d] \in Rows']_unitVars
=============================================================================
