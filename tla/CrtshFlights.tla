---------------------------- MODULE CrtshFlights ----------------------------
(***************************************************************************)
(* The one place that talks to crt.sh (crtsh.py): several threads of one   *)
(* scan, and of several scans, ask for the certificates of the same domain *)
(* at once.  A lookup that is under way is joined instead of repeated, a   *)
(* success is cached for the day (scan_cache.py), and a failure only       *)
(* answers for callers that would not have tried harder.                   *)
(*                                                                         *)
(* One domain: lookups of different domains share nothing.  The cache is   *)
(* switched on; its row is fresh, too old but usable in an outage, or of   *)
(* no use, which is also what a missing row is.                            *)
(***************************************************************************)
EXTENDS Integers, FiniteSets

CONSTANTS
    Callers,       \* threads
    Flights,       \* _Flight objects; one is used again when nobody holds it
    MaxTimeout, MaxAttempts, None

VARIABLES
    cache,    \* the row of the domain in external_cache
    reg,      \* _flights[domain]
    fl,       \* the _Flight objects
    thread,   \* where each caller is in fetch_detailed
    call, seen, said    \* history, as SharedLookup names it

vars == <<cache, reg, fl, thread, call, seen, said>>

\* The outcome a caller that comes now would still be given.
Recent ==
    IF reg # None /\ fl[reg].outcome # None
    THEN {[kind |-> fl[reg].outcome, patience |-> fl[reg].patience]} ELSE {}

Promise == INSTANCE SharedLookup WITH recent <- Recent

Patience == Promise!Patience
Request == Promise!Request
Kinds == Promise!Kinds
Useful(o, r) == Promise!Useful(o, r)

ASSUME FlightsConstants ==
    /\ MaxTimeout \in Nat \ {0}
    /\ MaxAttempts \in Nat \ {0}
    /\ None \notin Request \cup Kinds \cup Flights

Flight == [patience : Patience, outcome : Kinds \cup {None}, done : BOOLEAN]

Takeoff(patience) == [patience |-> patience, outcome |-> None, done |-> FALSE]

Told(flight, kind) == [flight EXCEPT !.outcome = kind]
Over(flight) == [flight EXCEPT !.done = TRUE]

\* A flight nobody holds; what it says matters to nobody.
NoFlight == Takeoff([timeout |-> 1, attempts |-> 1])

Places == {"idle", "look", "enter", "wait", "ask", "land", "wake", "result"}
Thread == [at : Places, ref : Flights \cup {None}, tried : 0..MaxAttempts,
           got : Kinds \cup {None}]

Spot(place, ref, tried, got) == [at |-> place, ref |-> ref, tried |-> tried, got |-> got]

\* A thread that holds no flight and has no outcome.
At(place) == Spot(place, None, 0, None)

Held(t) == {t[c].ref : c \in Callers}

\* The flights after caller c moved on to t: one nobody holds is gone.
Kept(flights, t) == [f \in Flights |-> IF f \in Held(t) THEN flights[f] ELSE NoFlight]

Goes(c, t) == thread' = [thread EXCEPT ![c] = t]

\* Nothing is answered by this step.
Mute == said' = None /\ UNCHANGED <<call, seen>>

\* A caller that leads the lookup under way, from its first request until
\* everybody who joined has been woken.
Leads(c) == thread[c].at \in {"ask", "land", "wake"} /\ thread[c].ref # None

(***************************************************************************)
(* fetch_detailed.                                                         *)
(***************************************************************************)
Call(c, r) ==
    /\ thread[c].at = "idle"
    /\ Goes(c, At("look"))
    /\ call' = [call EXCEPT ![c] = r]
    /\ seen' = [seen EXCEPT ![c] = {o.kind : o \in {o \in Recent : Useful(o, r)}}]
    /\ said' = None
    /\ UNCHANGED <<cache, reg, fl>>

Return(c, answer) ==
    /\ Goes(c, At("idle"))
    /\ call' = [call EXCEPT ![c] = None]
    /\ seen' = [seen EXCEPT ![c] = {}]
    /\ said' = [who |-> c, answer |-> answer]
    /\ UNCHANGED <<cache, reg, fl>>

\* scan_cache.lookup.
LookHit(c) ==
    /\ thread[c].at = "look"
    /\ cache = "fresh"
    /\ ~call[c].force
    /\ Return(c, "fresh")

LookMiss(c) ==
    /\ thread[c].at = "look"
    /\ cache # "fresh" \/ call[c].force
    /\ Goes(c, At("enter"))
    /\ Mute
    /\ UNCHANGED <<cache, reg, fl>>

\* Mutants, here and below, are what a definition of the code must not be.
Lead_NoCheck(c, f) ==
    /\ thread[c].at = "enter"
    /\ f \notin Held(thread)
    /\ reg' = f
    /\ fl' = [fl EXCEPT ![f] = Takeoff(call[c].patience)]
    /\ Goes(c, Spot("ask", f, 0, None))
    /\ Mute
    /\ UNCHANGED cache

\* Nobody is asking: this caller does, for itself and all who come meanwhile.
Lead(c, f) ==
    /\ thread[c].at = "enter"
    /\ reg = None
    /\ f \notin Held(thread)
    /\ reg' = f
    /\ fl' = [fl EXCEPT ![f] = Takeoff(call[c].patience)]
    /\ Goes(c, Spot("ask", f, 0, None))
    /\ Mute
    /\ UNCHANGED cache

Join(c) ==
    /\ thread[c].at = "enter"
    /\ reg # None
    /\ Goes(c, Spot("wait", reg, 0, None))
    /\ Mute
    /\ UNCHANGED <<cache, reg, fl>>

\* A caller lets go of its flight and goes on at t.
LetGo(c, t) ==
    /\ Goes(c, t)
    /\ fl' = Kept(fl, thread')
    /\ Mute
    /\ UNCHANGED <<cache, reg>>

Answers_Any(c) == thread[c].at = "wait"

\* Whether the lookup that was joined answers for this caller: it gave rows,
\* or it was at least as patient (_Flight.covers).
Answers(c) ==
    LET f == fl[thread[c].ref]
    IN Useful([kind |-> f.outcome, patience |-> f.patience], call[c])

Share(c) ==
    /\ thread[c].at = "wait"
    /\ fl[thread[c].ref].done
    /\ Answers(c)
    /\ LetGo(c, Spot("result", None, 0, fl[thread[c].ref].outcome))

\* It failed sooner than this caller would have: round the loop again.
Again(c) ==
    /\ thread[c].at = "wait"
    /\ fl[thread[c].ref].done
    /\ ~Answers(c)
    /\ LetGo(c, At("enter"))

\* The bounded wait is over first; this caller asks for itself alone.
Tire(c) ==
    /\ thread[c].at = "wait"
    /\ ~fl[thread[c].ref].done
    /\ LetGo(c, At("ask"))

(***************************************************************************)
(* _ask: the requests.                                                     *)
(***************************************************************************)
\* Asking ends: a leader leaves the outcome in its flight.
End(c, kind) ==
    LET o == [kind |-> kind, patience |-> call[c].patience]
    IN /\ thread[c].at = "ask"
       /\ IF thread[c].ref # None
          THEN /\ fl' = [fl EXCEPT ![thread[c].ref] = Told(@, kind)]
               /\ Goes(c, Spot("land", thread[c].ref, 0, None))
          ELSE /\ Goes(c, Spot("result", None, 0, kind))
               /\ UNCHANGED fl
       /\ seen' = [d \in Callers |-> IF call[d] # None /\ Useful(o, call[d])
                                     THEN seen[d] \cup {kind} ELSE seen[d]]
       /\ said' = None
       /\ UNCHANGED <<reg, call>>

\* A list: cached for the day.
Rows(c) == End(c, "rows") /\ cache' = "fresh"

\* A status that says more tries are of no use.
Refused(c) == End(c, "refused") /\ UNCHANGED cache

\* No answer within the timeout, which is not asked a second time, or the
\* last try failed fast.
Outage(c) == End(c, "outage") /\ UNCHANGED cache

\* A fast failure with tries left.
Retry(c) ==
    /\ thread[c].at = "ask"
    /\ thread[c].tried + 1 < call[c].patience.attempts
    /\ Goes(c, Spot("ask", thread[c].ref, thread[c].tried + 1, None))
    /\ Mute
    /\ UNCHANGED <<cache, reg, fl>>

(***************************************************************************)
(* The end of a flight, and what one caller gets from it.                  *)
(***************************************************************************)
Land_NotRemoved(c) ==
    /\ thread[c].at = "land"
    /\ Goes(c, Spot("wake", thread[c].ref, 0, None))
    /\ Mute
    /\ UNCHANGED <<cache, reg, fl>>

Land(c) ==
    /\ thread[c].at = "land"
    /\ reg' = IF reg = thread[c].ref THEN None ELSE reg
    /\ Goes(c, Spot("wake", thread[c].ref, 0, None))
    /\ Mute
    /\ UNCHANGED <<cache, fl>>

Wake_NoSet(c) ==
    LET f == thread[c].ref
    IN /\ thread[c].at = "wake"
       /\ Goes(c, Spot("result", None, 0, fl[f].outcome))
       /\ fl' = Kept(fl, thread')
       /\ Mute
       /\ UNCHANGED <<cache, reg>>

Wake(c) ==
    LET f == thread[c].ref
    IN /\ thread[c].at = "wake"
       /\ Goes(c, Spot("result", None, 0, fl[f].outcome))
       /\ fl' = Kept([fl EXCEPT ![f] = Over(@)], thread')
       /\ Mute
       /\ UNCHANGED <<cache, reg>>

\* _result with scan_cache.lookup_stale.
MayFallBack(c) == thread[c].got = "outage" /\ ~call[c].force /\ cache # "none"

Result(c) ==
    /\ thread[c].at = "result"
    /\ \/ thread[c].got = "rows" /\ Return(c, "rows")
       \/ MayFallBack(c) /\ Return(c, "stale")
       \/ thread[c].got # "rows" /\ ~MayFallBack(c) /\ Return(c, "failed")

\* The row grows too old to be fresh, then too old to be of use.
Expire ==
    /\ \/ cache = "fresh" /\ cache' \in {"old", "none"}
       \/ cache = "old" /\ cache' = "none"
    /\ Mute
    /\ UNCHANGED <<reg, fl, thread>>

Step(c) ==
    \/ LookHit(c) \/ LookMiss(c)
    \/ \E f \in Flights : Lead(c, f)
    \/ Join(c) \/ Share(c) \/ Again(c) \/ Tire(c)
    \/ Rows(c) \/ Refused(c) \/ Outage(c) \/ Retry(c)
    \/ Land(c) \/ Wake(c) \/ Result(c)

Init ==
    /\ cache \in {"fresh", "old", "none"}
    /\ reg = None
    /\ fl = [f \in Flights |-> NoFlight]
    /\ thread = [c \in Callers |-> At("idle")]
    /\ call = [c \in Callers |-> None]
    /\ seen = [c \in Callers |-> {}]
    /\ said = None

Next ==
    \/ \E c \in Callers, r \in Request : Call(c, r)
    \/ \E c \in Callers : Step(c)
    \/ Expire

Spec == Init /\ [][Next]_vars

(***************************************************************************)
(* Fairness: a thread goes on; requests and waits have time limits.        *)
(***************************************************************************)
FairSpec == Spec /\ \A c \in Callers : WF_vars(Step(c))

(***************************************************************************)
(* Properties.                                                             *)
(***************************************************************************)
\* Every variable has its type, and what a thread reads through its flight
\* is there when it reads it.
TypeOK ==
    /\ cache \in {"fresh", "old", "none"}
    /\ reg \in Flights \cup {None}
    /\ fl \in [Flights -> Flight]
    /\ thread \in [Callers -> Thread]
    /\ call \in [Callers -> Request \cup {None}]
    /\ seen \in [Callers -> SUBSET Kinds]
    /\ said \in [who : Callers, answer : Promise!Answers] \cup {None}
    /\ \A c \in Callers :
          /\ (call[c] = None) <=> (thread[c].at = "idle")
          /\ thread[c].at = "result" => thread[c].got # None
          /\ thread[c].at \in {"wait", "land", "wake"} => thread[c].ref # None
          /\ thread[c].at \in {"land", "wake"} => fl[thread[c].ref].outcome # None
          /\ thread[c].at = "wait" /\ fl[thread[c].ref].done => fl[thread[c].ref].outcome # None

\* Of the callers that did not tire of waiting at most one asks crt.sh,
\* however many scans want the domain: what _flights is there for.
OneAsks ==
    \A c, d \in Callers :
        /\ thread[c].at = "ask" /\ thread[c].ref # None
        /\ thread[d].at = "ask" /\ thread[d].ref # None
        => c = d

\* A caller waits only for a flight whose leader is still at work and will
\* wake it: the wait does not hang on its time limit.
SomebodyWakes ==
    \A c \in Callers :
        thread[c].at = "wait" /\ ~fl[thread[c].ref].done =>
            \E d \in Callers : Leads(d) /\ thread[d].ref = thread[c].ref

\* What fetch_detailed promises each caller: see SharedLookup.
PromiseKept == Promise!SharedSpec

\* The strengthening that makes these inductive.  A leader's flight is as
\* patient as its call, is registered until it lands, and has no outcome
\* while it is asking.
LeaderFlies ==
    \A c \in Callers : Leads(c) =>
        LET f == thread[c].ref
        IN /\ fl[f].patience = call[c].patience
           /\ ~fl[f].done
           /\ thread[c].at \in {"ask", "land"} => reg = f
           /\ thread[c].at = "ask" => fl[f].outcome = None

SoleLeader ==
    \A c, d \in Callers : Leads(c) /\ Leads(d) /\ thread[c].ref = thread[d].ref => c = d

RegisteredIsLed ==
    reg # None => \E d \in Callers : /\ Leads(d)
                                     /\ thread[d].at \in {"ask", "land"}
                                     /\ thread[d].ref = reg

\* What a thread is about to use for its answer was heard during its call.
HeardInTime ==
    \A c \in Callers : call[c] # None =>
        /\ \A o \in Recent : Useful(o, call[c]) => o.kind \in seen[c]
        /\ thread[c].at = "result" => thread[c].got \in seen[c]
        /\ thread[c].at \in {"land", "wake"} => fl[thread[c].ref].outcome \in seen[c]
        /\ thread[c].at = "wait" /\ fl[thread[c].ref].outcome # None /\ Answers(c) =>
              fl[thread[c].ref].outcome \in seen[c]

FlightInv ==
    TypeOK /\ LeaderFlies /\ SoleLeader /\ RegisteredIsLed /\ SomebodyWakes /\ HeardInTime

\* Once no new calls arrive, every call that was made comes back, although
\* a failure of an impatient lookup sends a patient caller round again.
EveryCallReturns ==
    <>[][~\E c \in Callers, r \in Request : Call(c, r)]_vars
        => \A c \in Callers : []<>(thread[c].at = "idle")
=============================================================================
