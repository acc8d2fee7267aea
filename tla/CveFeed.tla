------------------------------- MODULE CveFeed -------------------------------
(***************************************************************************)
(* The copy of the NVD's records (cve_feed.py): who may start a sync, what *)
(* it asks of the NVD for each followed product, and what it stores.       *)
(*                                                                         *)
(* A product is fetched page by page, the first time whole and then what   *)
(* changed since the time of the last fetch that succeeded.  The NVD goes  *)
(* on changing meanwhile, a request fails, the server is restarted.  Time  *)
(* is counted in a unit of which the intervals below are multiples; a      *)
(* record is abstracted to the number of its last revision.                *)
(***************************************************************************)
EXTENDS Integers, FiniteSets, FiniteSetsExt

CONSTANTS
    Products,      \* cve_feed.PRODUCTS
    Records,       \* the places in the NVD's answer, in its order: 1..n
    Callers,       \* threads that ask for a sync: the scheduler, the button
    MinInterval,   \* MIN_INTERVAL
    SyncInterval,  \* SYNC_INTERVAL
    MaxIncrement,  \* _MAX_INCREMENT
    Overlap,       \* _OVERLAP
    MaxRevision,   \* bound: revisions of a record
    MaxClock       \* bound: time

ASSUME FeedConstants ==
    /\ Records \subseteq Nat \ {0} /\ IsFiniteSet(Records)
    /\ {MinInterval, SyncInterval, MaxIncrement, Overlap, MaxRevision, MaxClock} \subseteq Nat
    /\ MinInterval <= SyncInterval
    /\ IsFiniteSet(Products) /\ Products # {} /\ "none" \notin Products

VARIABLES
    clock,    \* the time
    nvd,      \* the NVD: every record of every product
    held,     \* cve_items and cve_ranges: the revision stored, 0 when none is
    feed,     \* cve_feed_state: synced_at (= cursor) and attempted_at
    caller,   \* what each caller has seen and where it is
    fetch,    \* the sync under way, by the caller that holds the lock
    slipped   \* history: products whose answer moved between two pages

feedVars == <<clock, nvd, held, feed, caller, fetch, slipped>>

Never == -1
Times == Never..MaxClock
NvdRow == [revision : 0..MaxRevision, rejected : BOOLEAN, modified : 0..MaxClock]
\* A record as a page carries it, and as it is stored.
Carried(row) == IF row.rejected THEN 0 ELSE row.revision
FeedRow == [synced : Times, attempted : Times]
Fetch == [on : BOOLEAN, at : 0..MaxClock, left : SUBSET Products, product : Products \cup {"none"},
          since : Times, start : Nat, moved : BOOLEAN, got : SUBSET (Records \X (0..MaxRevision))]
NoFetch == [on |-> FALSE, at |-> 0, left |-> {}, product |-> "none", since |-> Never, start |-> 0,
            moved |-> FALSE, got |-> {}]

FeedTypeOK ==
    /\ clock \in 0..MaxClock
    /\ nvd \in [Products -> [Records -> NvdRow]]
    /\ held \in [Products -> [Records -> 0..MaxRevision]]
    /\ feed \in [Products -> FeedRow]
    /\ caller \in [Callers -> {"idle", "asked", "syncing"}]
    /\ fetch \in Fetch
    /\ slipped \subseteq Products

FeedInit ==
    /\ clock = 0
    /\ nvd = [p \in Products |-> [r \in Records |-> [revision |-> 0, rejected |-> FALSE, modified |-> 0]]]
    /\ held = [p \in Products |-> [r \in Records |-> 0]]
    /\ feed = [p \in Products |-> [synced |-> Never, attempted |-> Never]]
    /\ caller = [c \in Callers |-> "idle"]
    /\ fetch = NoFetch
    /\ slipped = {}

(***************************************************************************)
(* The NVD and time                                                        *)
(***************************************************************************)
Revise(p, r) ==
    /\ nvd[p][r].revision < MaxRevision
    /\ \E rejected \in BOOLEAN :
           nvd' = [nvd EXCEPT ![p][r] = [revision |-> @.revision + 1, rejected |-> rejected, modified |-> clock]]
    /\ fetch' = [fetch EXCEPT !.moved = @ \/ fetch.product = p]
    /\ UNCHANGED <<clock, held, feed, caller, slipped>>

FeedTick ==
    /\ clock < MaxClock
    /\ clock' = clock + 1
    /\ UNCHANGED <<nvd, held, feed, caller, fetch, slipped>>

(***************************************************************************)
(* Starting a sync                                                         *)
(***************************************************************************)
LastAttempt == Max({feed[p].attempted : p \in Products})
MissingProduct == \E p \in Products : feed[p].synced = Never
Within(interval) == LastAttempt # Never /\ clock - LastAttempt < interval

\* maybe_sync looks before it calls sync; the button calls sync at once.
MayAsk(c) ==
    c = "scheduler" =>
        /\ ~fetch.on
        /\ ~Within(IF MissingProduct THEN MinInterval ELSE SyncInterval)

Ask(c) ==
    /\ caller[c] = "idle"
    /\ MayAsk(c)
    /\ caller' = [caller EXCEPT ![c] = "asked"]
    /\ UNCHANGED <<clock, nvd, held, feed, fetch, slipped>>

Refused_NotAgain == fetch.on

\* The lock is not waited for, and under it the last attempt is read again.
Refused == fetch.on \/ Within(MinInterval)

TurnAway(c) ==
    /\ caller[c] = "asked"
    /\ Refused
    /\ caller' = [caller EXCEPT ![c] = "idle"]
    /\ UNCHANGED <<clock, nvd, held, feed, fetch, slipped>>

Start(c) ==
    /\ caller[c] = "asked"
    /\ ~Refused
    /\ caller' = [caller EXCEPT ![c] = "syncing"]
    /\ fetch' = [NoFetch EXCEPT !.on = TRUE, !.at = clock, !.left = Products]
    /\ UNCHANGED <<clock, nvd, held, feed, slipped>>

(***************************************************************************)
(* Fetching the products                                                   *)
(***************************************************************************)
Since_FromAttempt(p) ==
    IF feed[p].attempted # Never /\ fetch.at - feed[p].attempted < MaxIncrement
    THEN Max({feed[p].attempted - Overlap, 0}) ELSE Never

\* What changed since the last fetch that succeeded, with an overlap; all of
\* it the first time, or when that is too long ago.
Since(p) ==
    IF feed[p].synced # Never /\ fetch.at - feed[p].synced < MaxIncrement
    THEN Max({feed[p].synced - Overlap, 0}) ELSE Never

BeginProduct(p) ==
    /\ fetch.on /\ fetch.product = "none" /\ p \in fetch.left
    /\ fetch' = [fetch EXCEPT !.product = p, !.left = @ \ {p}, !.since = Since(p), !.start = 0, !.got = {}]
    /\ feed' = [feed EXCEPT ![p].attempted = fetch.at]
    /\ UNCHANGED <<clock, nvd, held, caller, slipped>>

\* The records the NVD has for the question, at this moment.
Answer(p) ==
    {r \in Records : /\ nvd[p][r].revision > 0
                     /\ IF fetch.since = Never THEN ~nvd[p][r].rejected
                        ELSE nvd[p][r].modified \in fetch.since..fetch.at}

\* One page, of one record: the next in the order of the answer.
FetchPage ==
    /\ fetch.on /\ fetch.product # "none"
    /\ \E r \in Answer(fetch.product) :
           /\ Cardinality({s \in Answer(fetch.product) : s < r}) = fetch.start
           /\ fetch' = [fetch EXCEPT !.start = @ + 1, !.got = @ \cup {<<r, Carried(nvd[fetch.product][r])>>}]
    /\ UNCHANGED <<clock, nvd, held, feed, caller, slipped>>

\* _store: a full fetch replaces all there was, an increment what it carries;
\* a rejected record goes.
StoredAs(p, r) ==
    IF \E n \in 0..MaxRevision : <<r, n>> \in fetch.got
    THEN Max({n \in 0..MaxRevision : <<r, n>> \in fetch.got})
    ELSE IF fetch.since = Never THEN 0 ELSE held[p][r]

ProductDone == [fetch EXCEPT !.product = "none", !.since = Never, !.start = 0, !.moved = FALSE, !.got = {}]

\* The last page was read: store, then note that the product is up to date.
StoreProduct ==
    /\ fetch.on /\ fetch.product # "none"
    /\ Cardinality(Answer(fetch.product)) <= fetch.start
    /\ LET p == fetch.product IN
       /\ held' = [held EXCEPT ![p] = [r \in Records |-> StoredAs(p, r)]]
       /\ feed' = [feed EXCEPT ![p].synced = fetch.at]
       /\ slipped' = IF fetch.moved THEN slipped \cup {p}
                     ELSE IF fetch.since = Never THEN slipped \ {p} ELSE slipped
    /\ fetch' = ProductDone
    /\ UNCHANGED <<clock, nvd, caller>>

\* A request fails; the other products are still fetched.
FailProduct ==
    /\ fetch.on /\ fetch.product # "none"
    /\ fetch' = ProductDone
    /\ UNCHANGED <<clock, nvd, held, feed, caller, slipped>>

EndSync(c) ==
    /\ caller[c] = "syncing"
    /\ fetch.left = {} /\ fetch.product = "none"
    /\ caller' = [caller EXCEPT ![c] = "idle"]
    /\ fetch' = NoFetch
    /\ UNCHANGED <<clock, nvd, held, feed, slipped>>

RestartFeed ==
    /\ fetch.on
    /\ caller' = [c \in Callers |-> "idle"]
    /\ fetch' = NoFetch
    /\ UNCHANGED <<clock, nvd, held, feed, slipped>>

FeedNext ==
    \/ FeedTick \/ FetchPage \/ StoreProduct \/ FailProduct \/ RestartFeed
    \/ \E p \in Products : BeginProduct(p) \/ \E r \in Records : Revise(p, r)
    \/ \E c \in Callers : Ask(c) \/ TurnAway(c) \/ Start(c) \/ EndSync(c)

FeedSpec == FeedInit /\ [][FeedNext]_feedVars

(***************************************************************************)
(* Properties                                                              *)
(***************************************************************************)
\* Whatever the NVD had when a product was last synced is held, and nothing it
\* had rejected by then (cve_feed.freshness tells people "current" from that
\* time alone): through failed fetches, restarts and increments.  The
\* exception is a record that changed while the pages were read, until the next full fetch.
FeedComplete ==
    \A p \in Products \ slipped, r \in Records :
        (feed[p].synced # Never /\ nvd[p][r].modified < feed[p].synced) =>
            held[p][r] = Carried(nvd[p][r])

\* The NVD is not asked again within MIN_INTERVAL of the last attempt, button
\* or scheduler, restart or failure (cve_feed.sync).
AskedSparingly ==
    [][\A c \in Callers : (Start(c) /\ LastAttempt # Never) => clock - LastAttempt >= MinInterval]_feedVars
=============================================================================
