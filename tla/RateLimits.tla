----------------------------- MODULE RateLimits -----------------------------
(***************************************************************************)
(* The budget of one third-party service (rate_limits.py).  Threads of     *)
(* several scans take a slot before they ask it, wait a little for one,    *)
(* or give up; an answer 429 starts a cooldown.  Everything is kept in     *)
(* memory, under one lock that a waiting thread does not hold.             *)
(*                                                                         *)
(* Time is counted in ticks, Window of them in a minute, and kept as ages  *)
(* and remaining times.                                                    *)
(***************************************************************************)
EXTENDS Integers, Sequences

CONSTANTS
    Threads,
    PerMinute, PerDay,    \* limits()
    MaxWait,              \* max_wait()
    Window,               \* 60 seconds
    DayLength,            \* 24 hours
    RetryAfter,           \* the values a Retry-After header may have
    None

ASSUME LimitsConstants ==
    /\ PerMinute \in Nat \ {0}
    /\ PerDay \in Nat \ {0}
    /\ Window \in Nat \ {0}
    /\ DayLength \in Nat \ {0}
    /\ MaxWait \in Nat
    /\ RetryAfter \subseteq Nat
    /\ None \notin Nat

VARIABLES
    calls,       \* _minute: the ages of the lookups it remembers, oldest first
    count,       \* the number in _day
    counted,     \* whether the date in _day is today's
    timeOfDay,       \* time since midnight, UTC
    cooldown,    \* time left of _cooldown
    thread,      \* what each thread does in acquire
    used,        \* history: the ages of the slots given in the last minute
    told         \* history: how long the service, as it told this run, is not to be asked

vars == <<calls, count, counted, timeOfDay, cooldown, thread, used, told>>

Thread == [at : {"idle", "enter", "sleep", "ask"}, waited : 0..MaxWait, left : 0..Window]

Idle == [at |-> "idle", waited |-> 0, left |-> 0]

\* How many of the oldest are not younger than a limit, and the others.
Gone(ages, limit) ==
    CHOOSE n \in 0..Len(ages) : /\ \A i \in 1..n : ages[i] >= limit
                                /\ n < Len(ages) => ages[n + 1] < limit
Younger(ages, limit) == SubSeq(ages, Gone(ages, limit) + 1, Len(ages))

Remembered_TooShort(ages) == Younger(ages, Window - 1)

\* Calls a minute old or older are forgotten when the next one comes.
Remembered(ages) == Younger(ages, Window)

Goes(c, t) == thread' = [thread EXCEPT ![c] = t]

(***************************************************************************)
(* acquire.                                                                *)
(***************************************************************************)
Call(c) ==
    /\ thread[c].at = "idle"
    /\ Goes(c, [Idle EXCEPT !.at = "enter"])
    /\ UNCHANGED <<calls, count, counted, timeOfDay, cooldown, used, told>>

\* Today's count.
Today == IF counted THEN count ELSE 0

\* The service may be asked, as far as it and the day go.
Open == cooldown = 0 /\ Today < PerDay

Room == Len(Remembered(calls)) < PerMinute

\* How long until the oldest call is a minute old.
Pause == Window - Head(Remembered(calls))

\* Slots of another day are not counted.
Grant(c) ==
    /\ thread[c].at = "enter"
    /\ Open
    /\ Room
    /\ calls' = Append(Remembered(calls), 0)
    /\ count' = Today + 1
    /\ counted' = TRUE
    /\ Goes(c, [Idle EXCEPT !.at = "ask"])
    /\ used' = Append(used, 0)
    /\ UNCHANGED <<timeOfDay, cooldown, told>>

\* Told to slow down, or the day's lookups are used up.
Closed(c) ==
    /\ thread[c].at = "enter"
    /\ ~Open
    /\ Goes(c, Idle)
    /\ UNCHANGED <<calls, count, counted, timeOfDay, cooldown, used, told>>

\* No slot in time.
GiveUp(c) ==
    /\ thread[c].at = "enter"
    /\ Open
    /\ ~Room
    /\ thread[c].waited + Pause > MaxWait
    /\ calls' = Remembered(calls)
    /\ Goes(c, Idle)
    /\ UNCHANGED <<count, counted, timeOfDay, cooldown, used, told>>

Sleep_NotCounted(c) ==
    /\ thread[c].at = "enter"
    /\ Open
    /\ ~Room
    /\ thread[c].waited + Pause <= MaxWait
    /\ calls' = Remembered(calls)
    /\ Goes(c, [thread[c] EXCEPT !.at = "sleep", !.left = Pause])
    /\ UNCHANGED <<count, counted, timeOfDay, cooldown, used, told>>

Sleep(c) ==
    /\ thread[c].at = "enter"
    /\ Open
    /\ ~Room
    /\ thread[c].waited + Pause <= MaxWait
    /\ calls' = Remembered(calls)
    /\ Goes(c, [at |-> "sleep", waited |-> thread[c].waited + Pause, left |-> Pause])
    /\ UNCHANGED <<count, counted, timeOfDay, cooldown, used, told>>

\* It tries again, and others may have been quicker.
Wake(c) ==
    /\ thread[c].at = "sleep"
    /\ thread[c].left = 0
    /\ Goes(c, [thread[c] EXCEPT !.at = "enter"])
    /\ UNCHANGED <<calls, count, counted, timeOfDay, cooldown, used, told>>

(***************************************************************************)
(* The answer of the service, and note_response.                           *)
(***************************************************************************)
Answered(c) ==
    /\ thread[c].at = "ask"
    /\ Goes(c, Idle)
    /\ UNCHANGED <<calls, count, counted, timeOfDay, cooldown, used, told>>

Larger(a, b) == IF a >= b THEN a ELSE b
Smaller(a, b) == IF a <= b THEN a ELSE b

\* How long a 429 is honoured: as it says, at most a day; a minute when it
\* says nothing that is understood.
Seconds(header) == IF header = None THEN Window ELSE Larger(1, Smaller(header, DayLength))

SlowDown(c, header) ==
    /\ thread[c].at = "ask"
    /\ cooldown' = Seconds(header)
    /\ told' = Larger(told, IF header = None THEN Window ELSE header)
    /\ Goes(c, Idle)
    /\ UNCHANGED <<calls, count, counted, timeOfDay, used>>

(***************************************************************************)
(* Time, and the process.                                                  *)
(***************************************************************************)
Less(n) == IF n = 0 THEN 0 ELSE n - 1

Older(ages) == [i \in DOMAIN ages |-> IF ages[i] < Window THEN ages[i] + 1 ELSE Window]

Midnight == timeOfDay + 1 = DayLength

Tick ==
    /\ calls' = Older(calls)
    /\ used' = Younger(Older(used), Window)
    /\ timeOfDay' = IF Midnight THEN 0 ELSE timeOfDay + 1
    /\ counted' = (counted /\ ~Midnight)
    /\ cooldown' = Less(cooldown)
    /\ told' = Less(told)
    /\ thread' = [c \in Threads |-> [thread[c] EXCEPT !.left = Less(@)]]
    /\ UNCHANGED count

\* A run of the server knows nothing of the one before.
Restart ==
    /\ calls' = <<>>
    /\ count' = 0
    /\ counted' = FALSE
    /\ cooldown' = 0
    /\ thread' = [c \in Threads |-> Idle]
    /\ used' = <<>>
    /\ told' = 0
    /\ UNCHANGED timeOfDay

Step(c) == Grant(c) \/ Closed(c) \/ GiveUp(c) \/ Sleep(c) \/ Wake(c)

Init ==
    /\ calls = <<>>
    /\ count = 0
    /\ counted = FALSE
    /\ timeOfDay = 0
    /\ cooldown = 0
    /\ thread = [c \in Threads |-> Idle]
    /\ used = <<>>
    /\ told = 0

Next ==
    \/ \E c \in Threads : Call(c) \/ Step(c) \/ Answered(c)
    \/ \E c \in Threads, header \in RetryAfter \cup {None} : SlowDown(c, header)
    \/ Tick
    \/ Restart

Spec == Init /\ [][Next]_vars

\* A thread runs when it can, and time passes.
FairSpec == Spec /\ WF_vars(Tick) /\ \A c \in Threads : WF_vars(Step(c))

(***************************************************************************)
(* Properties.                                                             *)
(***************************************************************************)
\* Every variable has its type; no more is remembered than a minute holds.
TypeOK ==
    /\ calls \in Seq(0..Window) /\ Len(calls) <= PerMinute
    /\ count \in 0..PerDay
    /\ counted \in BOOLEAN
    /\ timeOfDay \in 0..DayLength - 1
    /\ cooldown \in Nat
    /\ thread \in [Threads -> Thread]
    /\ used \in Seq(0..Window - 1)
    /\ told \in Nat

\* In no minute of a run are more slots given than the service allows,
\* whoever slept for one and whoever overtook the sleepers.
WithinMinute == Len(used) <= PerMinute

\* A service that asked to be left alone is not asked before it said it may
\* be, whatever other answers come in.
NotAskedTooSoon == [][\A c \in Threads : Grant(c) => told = 0]_vars

\* acquire comes back, although others may take each slot it waits for.
AcquireReturns ==
    \A c \in Threads : thread[c].at \in {"enter", "sleep"} ~> thread[c].at \notin {"enter", "sleep"}
=============================================================================
