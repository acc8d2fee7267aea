---------------------------- MODULE SharedLookup ----------------------------
(***************************************************************************)
(* What a lookup that several callers share promises each of them, however *)
(* it is shared: an answer from the cache only to a caller that did not    *)
(* insist on a new one, rows only when the service gave rows, and "it did  *)
(* not answer" only when somebody asked at least as patiently as this      *)
(* caller would have.                                                      *)
(***************************************************************************)
EXTENDS Integers

CONSTANTS Callers, MaxTimeout, MaxAttempts, None

\* How long one try may take, and how many tries there are.
Patience == [timeout : 1..MaxTimeout, attempts : 1..MaxAttempts]
Request == [patience : Patience, force : BOOLEAN]

\* How asking ended, and how patiently it was done.
Kinds == {"rows", "refused", "outage"}
Outcome == [kind : Kinds, patience : Patience]

Answers == {"fresh", "rows", "stale", "failed"}

\* p is at least as patient as q.
Covers(p, q) == p.timeout >= q.timeout /\ p.attempts >= q.attempts

\* Whether outcome o answers for request r.
Useful(o, r) == o.kind = "rows" \/ Covers(o.patience, r.patience)

VARIABLES
    call,     \* the request of a caller that waits, or None
    seen,     \* the kinds of outcome a waiting caller may be answered from
    recent,   \* outcomes that a new caller may still be given
    said      \* the answer the last step gave, or None

shared == <<call, seen, recent, said>>

Justified(c, answer) ==
    \/ answer = "fresh" /\ ~call[c].force
    \/ answer = "rows" /\ "rows" \in seen[c]
    \/ answer = "stale" /\ ~call[c].force /\ "outage" \in seen[c]
    \/ answer = "failed" /\ seen[c] \cap {"refused", "outage"} # {}

SharedInit ==
    /\ call = [c \in Callers |-> None]
    /\ seen = [c \in Callers |-> {}]
    /\ recent = {}
    /\ said = None

Asks(c, r) ==
    /\ call[c] = None
    /\ call' = [call EXCEPT ![c] = r]
    /\ seen' = [seen EXCEPT ![c] = {o.kind : o \in {o \in recent : Useful(o, r)}}]
    /\ said' = None
    /\ UNCHANGED recent

\* Asking the service ended with o; it may be handed out for a while.
Heard(o) ==
    /\ seen' = [c \in Callers |-> IF call[c] # None /\ Useful(o, call[c])
                                  THEN seen[c] \cup {o.kind} ELSE seen[c]]
    /\ recent' \in {recent, recent \cup {o}}
    /\ said' = None
    /\ UNCHANGED call

\* Whatever else goes on: outcomes are forgotten, nothing is answered.
Silent ==
    /\ recent' \subseteq recent
    /\ said' = None
    /\ UNCHANGED <<call, seen>>

Answered(c, answer) ==
    /\ call[c] # None
    /\ Justified(c, answer)
    /\ call' = [call EXCEPT ![c] = None]
    /\ seen' = [seen EXCEPT ![c] = {}]
    /\ said' = [who |-> c, answer |-> answer]
    /\ UNCHANGED recent

SharedNext ==
    \/ \E c \in Callers, r \in Request : Asks(c, r)
    \/ \E o \in Outcome : Heard(o)
    \/ Silent
    \/ \E c \in Callers, answer \in Answers : Answered(c, answer)

SharedSpec == SharedInit /\ [][SharedNext]_shared
=============================================================================
