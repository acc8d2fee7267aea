----------------------------- MODULE WhoisBatch -----------------------------
(***************************************************************************)
(* Registration data for lists of domains (whois_batch.py): batches run in *)
(* threads of their own and share one pacer, which gives each request to a *)
(* registry server a slot of its own; a registry that answers 429 holds    *)
(* everybody who asks for a slot later.  A batch is cancelled while its    *)
(* thread works, and old batches are dropped from the table.               *)
(***************************************************************************)
EXTENDS Integers, Sequences, FiniteSets

CONSTANTS
    Batches,      \* batches that are started
    Names,        \* the domains of a batch, in their order: 1..n
    RdapServer,   \* per domain, rdap.server_for
    WhoisServer,  \* the port-43 server they share
    Interval,     \* MIN_INTERVAL
    RetryAfters,  \* Retry-After values, capped at MAX_RETRY_AFTER; 0 is none
    MaxBatches,   \* _MAX_JOBS
    MaxSeconds    \* bound: time

ASSUME BatchConstants ==
    /\ IsFiniteSet(Names) /\ Names = 1..Cardinality(Names)
    /\ Interval \in Nat \ {0} /\ RetryAfters \subseteq Nat /\ 0 \in RetryAfters
    /\ {MaxBatches, MaxSeconds} \subseteq Nat

VARIABLES
    second,   \* time.monotonic
    nextAt,   \* _Pacer._next
    batch,    \* the threads and their jobs
    table,    \* _jobs: the batches that can be viewed, oldest first
    told429   \* history: per server, until when it said not to be asked

batchVars == <<second, nextAt, batch, table, told429>>

Servers == {RdapServer[n] : n \in Names} \cup {WhoisServer}
MaxAt == MaxSeconds + Cardinality(Batches) * 3 * Cardinality(Names) * (Interval + 1)
Statuses == {"new", "running", "cancelled", "done"}
Work == {"none", "next", "reserved", "asking", "looked", "ended"}
\* at: the slot of the request.  Two histories: early, a slot or a request was
\* too early; caught, a 429 of the server came while the request waited.
BatchRow == [status : Statuses, work : Work, rows : 0..Cardinality(Names), try : 0..2,
             server : Servers, at : 0..MaxAt, early : BOOLEAN, caught : BOOLEAN]

BatchTypeOK ==
    /\ second \in 0..MaxSeconds
    /\ nextAt \in [Servers -> 0..MaxAt]
    /\ batch \in [Batches -> BatchRow]
    /\ table \in Seq(Batches) /\ Len(table) <= MaxBatches + 1
    /\ told429 \in [Servers -> 0..MaxAt]

BatchInit ==
    /\ second = 0
    /\ nextAt = [s \in Servers |-> 0]
    /\ batch = [b \in Batches |-> [status |-> "new", work |-> "none", rows |-> 0, try |-> 0,
                                   server |-> WhoisServer, at |-> 0, early |-> FALSE,
                                   caught |-> FALSE]]
    /\ table = <<>>
    /\ told429 = [s \in Servers |-> 0]

Set(b, row) == batch' = [batch EXCEPT ![b] = row]

(***************************************************************************)
(* Starting, cancelling                                                    *)
(***************************************************************************)
\* _prune drops the oldest over the limit, running or not: its thread goes on
\* and nobody can see it any more.
Pruned(t) == IF Len(t) > MaxBatches THEN SubSeq(t, Len(t) - MaxBatches + 1, Len(t)) ELSE t

StartBatch(b) ==
    /\ batch[b].status = "new"
    /\ Set(b, [batch[b] EXCEPT !.status = "running", !.work = "next"])
    /\ table' = Append(Pruned(table), b)
    /\ UNCHANGED <<second, nextAt, told429>>

CancelBatch(b) ==
    /\ batch[b].status = "running"
    /\ b \in {table[i] : i \in DOMAIN table}
    /\ Set(b, [batch[b] EXCEPT !.status = "cancelled"])
    /\ UNCHANGED <<second, nextAt, table, told429>>

(***************************************************************************)
(* The pacer                                                               *)
(***************************************************************************)
Later(x, y) == IF x > y THEN x ELSE y

Slot(s) == Later(second, nextAt[s])

\* History: a slot within the interval of one that is waited for.
TooEarly(b, s) ==
    \E c \in Batches \ {b} :
        /\ batch[c].work = "reserved" /\ batch[c].server = s
        /\ Slot(s) < batch[c].at + Interval

\* wait: the slot is taken under the lock, the sleep is outside it.
Reserve(b, s) ==
    /\ nextAt' = [nextAt EXCEPT ![s] = Slot(s) + Interval]
    /\ Set(b, [batch[b] EXCEPT !.work = "reserved", !.server = s, !.at = Slot(s),
                               !.try = IF s = batch[b].server /\ @ > 0 THEN @ + 1 ELSE 1,
                               !.early = @ \/ TooEarly(b, s), !.caught = FALSE])
    /\ UNCHANGED <<second, table, told429>>

\* The loop of work(): the next domain, unless the batch was cancelled.
NextName(b) ==
    /\ batch[b].work = "next" /\ batch[b].rows < Cardinality(Names)
    /\ batch[b].status # "cancelled"
    /\ Reserve(b, RdapServer[batch[b].rows + 1])

\* The sleep is over and the request goes out: nothing is looked at again.
WakeUp(b) ==
    /\ batch[b].work = "reserved"
    /\ second >= batch[b].at
    /\ LET held == second < told429[batch[b].server] IN
       Set(b, [batch[b] EXCEPT !.work = "asking", !.early = @ \/ (held /\ ~batch[b].caught)])
    /\ UNCHANGED <<second, nextAt, table, told429>>

\* A row of the table, whatever became of the lookup.
NameDone(b) == [batch[b] EXCEPT !.work = "next", !.rows = @ + 1, !.try = 0, !.at = 0]

NameAnswered(b) ==
    /\ batch[b].work = "asking"
    /\ Set(b, NameDone(b))
    /\ UNCHANGED <<second, nextAt, table, told429>>

\* 429: hold() moves the next slot, not those that were given; the one lookup is
\* tried once more.
Catches(b, c) == c # b /\ batch[c].work = "reserved" /\ batch[c].server = batch[b].server

SlowDownAnswer(b) ==
    /\ batch[b].work = "asking" /\ batch[b].server # WhoisServer
    /\ \E wait \in RetryAfters \ {0} :
           LET s == batch[b].server IN
           /\ nextAt' = [nextAt EXCEPT ![s] = Later(@, second + wait)]
           /\ told429' = [told429 EXCEPT ![s] = Later(@, second + wait)]
    /\ LET row == IF batch[b].try < 2 THEN [batch[b] EXCEPT !.work = "looked"] ELSE NameDone(b) IN
       batch' = [c \in Batches |->
                   IF c = b THEN row ELSE [batch[c] EXCEPT !.caught = @ \/ Catches(b, c)]]
    /\ UNCHANGED <<second, table>>

TryAgain(b) ==
    /\ batch[b].work = "looked"
    /\ Reserve(b, batch[b].server)

\* No RDAP, or no answer: the port-43 server, within its own pace.
FallBack(b) ==
    /\ batch[b].work = "asking" /\ batch[b].server # WhoisServer
    /\ Reserve(b, WhoisServer)

(***************************************************************************)
(* The end of the thread                                                   *)
(***************************************************************************)
LoopEnds_Any(b) ==
    /\ batch[b].work = "next"
    /\ batch[b].rows = Cardinality(Names) \/ batch[b].status = "cancelled"
    /\ Set(b, [batch[b] EXCEPT !.work = "ended", !.server = WhoisServer])
    /\ UNCHANGED <<second, nextAt, table, told429>>

\* After the loop the status is looked at, and written in a second step.
LoopEnds(b) ==
    /\ batch[b].work = "next"
    /\ batch[b].rows = Cardinality(Names) \/ batch[b].status = "cancelled"
    /\ Set(b, [batch[b] EXCEPT !.work = IF batch[b].status = "running" THEN "ended" ELSE "none",
                               !.server = WhoisServer])
    /\ UNCHANGED <<second, nextAt, table, told429>>

WriteDone(b) ==
    /\ batch[b].work = "ended"
    /\ Set(b, [batch[b] EXCEPT !.work = "none", !.status = "done"])
    /\ UNCHANGED <<second, nextAt, table, told429>>

SecondPasses ==
    /\ second < MaxSeconds
    /\ second' = second + 1
    /\ UNCHANGED <<nextAt, batch, table, told429>>

BatchNext ==
    \/ \E b \in Batches :
          \/ StartBatch(b) \/ CancelBatch(b) \/ NextName(b) \/ WakeUp(b) \/ NameAnswered(b)
          \/ SlowDownAnswer(b) \/ TryAgain(b) \/ FallBack(b) \/ LoopEnds(b) \/ WriteDone(b)
    \/ SecondPasses

BatchSpec == BatchInit /\ [][BatchNext]_batchVars

(***************************************************************************)
(* Properties                                                              *)
(***************************************************************************)
\* Slots of one server that are waited for are an interval apart, whichever
\* batch has them; no request goes out before the time a 429 asked to wait for,
\* unless it had its slot when the 429 came (hold moves the next slot and
\* nobody who sleeps looks again: whois_batch.py:89 promises it of everybody);
\* and a batch that shows as done has an outcome for each of its domains, also
\* when it was cancelled at the last moment (whois_batch.py).
PacedAndComplete ==
    \A b \in Batches :
        /\ ~batch[b].early
        /\ batch[b].status = "done" => batch[b].rows = Cardinality(Names)
=============================================================================
