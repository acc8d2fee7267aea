----------------------------- MODULE CrtshProof -----------------------------
(***************************************************************************)
(* What the shared crt.sh lookup guarantees, for any number of threads and *)
(* any patience.  FlightInv is inductive: one lemma per conjunct, one step *)
(* per action.  From it follow that one leader asks, that nobody waits in  *)
(* vain, and that every step is a step of SharedLookup.                    *)
(***************************************************************************)
EXTENDS CrtshFlights, TLAPS

(***************************************************************************)
(* Facts about the data.                                                   *)
(***************************************************************************)
LEMMA NoneApart == None \notin Request /\ None \notin Kinds /\ None \notin Flights
  BY FlightsConstants

LEMMA SpotType ==
  ASSUME NEW place \in Places, NEW ref \in Flights \cup {None},
         NEW tried \in 0..MaxAttempts, NEW got \in Kinds \cup {None}
  PROVE  /\ Spot(place, ref, tried, got) \in Thread
         /\ Spot(place, ref, tried, got).at = place
         /\ Spot(place, ref, tried, got).ref = ref
         /\ Spot(place, ref, tried, got).tried = tried
         /\ Spot(place, ref, tried, got).got = got
  BY DEF Spot, Thread

LEMMA AtType ==
  ASSUME NEW place \in Places
  PROVE  /\ At(place) \in Thread
         /\ At(place).at = place
         /\ At(place).ref = None
         /\ At(place).got = None
<1>1. 0 \in 0..MaxAttempts
  BY FlightsConstants
<1>2. QED
  BY <1>1, SpotType DEF At

LEMMA TakeoffType ==
  ASSUME NEW p \in Patience
  PROVE  /\ Takeoff(p) \in Flight
         /\ Takeoff(p).patience = p
         /\ Takeoff(p).outcome = None
         /\ Takeoff(p).done = FALSE
  BY DEF Takeoff, Flight

LEMMA NoFlightType == NoFlight \in Flight
<1>1. [timeout |-> 1, attempts |-> 1] \in Patience
  BY FlightsConstants DEF Patience, Promise!Patience
<1>2. QED
  BY <1>1, TakeoffType DEF NoFlight

LEMMA RequestPatience == ASSUME NEW r \in Request PROVE r.patience \in Patience /\ r.force \in BOOLEAN
  BY DEF Request, Patience, Promise!Request, Promise!Patience

LEMMA ToldType ==
  ASSUME NEW flight \in Flight, NEW kind \in Kinds
  PROVE  /\ Told(flight, kind) \in Flight
         /\ Told(flight, kind).patience = flight.patience
         /\ Told(flight, kind).outcome = kind
         /\ Told(flight, kind).done = flight.done
  BY DEF Told, Flight

LEMMA OverType ==
  ASSUME NEW flight \in Flight
  PROVE  /\ Over(flight) \in Flight
         /\ Over(flight).patience = flight.patience
         /\ Over(flight).outcome = flight.outcome
         /\ Over(flight).done = TRUE
  BY DEF Over, Flight

\* The types of TypeOK without what ties them together.
Typed ==
    /\ cache \in {"fresh", "old", "none"}
    /\ reg \in Flights \cup {None}
    /\ fl \in [Flights -> Flight]
    /\ thread \in [Callers -> Thread]
    /\ call \in [Callers -> Request \cup {None}]
    /\ seen \in [Callers -> SUBSET Kinds]
    /\ said \in [who : Callers, answer : Promise!Answers] \cup {None}

Tied ==
    \A c \in Callers :
        /\ (call[c] = None) <=> (thread[c].at = "idle")
        /\ thread[c].at = "result" => thread[c].got # None
        /\ thread[c].at \in {"wait", "land", "wake"} => thread[c].ref # None
        /\ thread[c].at \in {"land", "wake"} => fl[thread[c].ref].outcome # None
        /\ thread[c].at = "wait" /\ fl[thread[c].ref].done => fl[thread[c].ref].outcome # None

LEMMA TypeOKParts == TypeOK <=> Typed /\ Tied
  BY DEF TypeOK, Typed, Tied

LEMMA KeptType ==
  ASSUME NEW g \in [Flights -> Flight], NEW t \in [Callers -> Thread]
  PROVE  /\ Kept(g, t) \in [Flights -> Flight]
         /\ \A c \in Callers : t[c].ref # None => Kept(g, t)[t[c].ref] = g[t[c].ref]
<1>1. Kept(g, t) \in [Flights -> Flight]
  BY NoFlightType DEF Kept
<1>2. \A c \in Callers : t[c].ref # None => t[c].ref \in Flights /\ t[c].ref \in Held(t)
  BY DEF Thread, Held
<1>3. QED
  BY <1>1, <1>2 DEF Kept

(***************************************************************************)
(* Typed.                                                                  *)
(***************************************************************************)
LEMMA GoesType ==
  ASSUME Typed, NEW c \in Callers, NEW t \in Thread, Goes(c, t)
  PROVE  /\ thread' \in [Callers -> Thread]
         /\ thread'[c] = t
         /\ \A d \in Callers \ {c} : thread'[d] = thread[d]
  BY DEF Typed, Goes

LEMMA TypedStep == TypeOK /\ [Next]_vars => Typed'
<1> SUFFICES ASSUME TypeOK, [Next]_vars PROVE Typed'
  OBVIOUS
<1>0. Typed /\ Tied
  BY TypeOKParts
<1> USE <1>0
<1>1. ASSUME NEW c \in Callers, NEW r \in Request, Call(c, r) PROVE Typed'
  <2>1. thread' \in [Callers -> Thread]
    BY <1>1, AtType, GoesType DEF Call, Places
  <2>2. \A o \in Recent : o.kind \in Kinds
    BY NoneApart DEF Typed, Recent, Flight
  <2>3. {o.kind : o \in {o \in Recent : Useful(o, r)}} \in SUBSET Kinds
    BY <2>2
  <2>4. QED
    BY <1>1, <2>1, <2>3 DEF Call, Typed
<1>2. ASSUME NEW c \in Callers, NEW answer \in Promise!Answers, Return(c, answer) PROVE Typed'
  <2>1. thread' \in [Callers -> Thread]
    BY <1>2, AtType, GoesType DEF Return, Places
  <2>2. QED
    BY <1>2, <2>1 DEF Return, Typed
<1>3. ASSUME NEW c \in Callers, LookHit(c) PROVE Typed'
  BY <1>3, <1>2 DEF LookHit, Promise!Answers
<1>4. ASSUME NEW c \in Callers, LookMiss(c) PROVE Typed'
  BY <1>4, AtType, GoesType DEF LookMiss, Mute, Typed, Places
<1>5. ASSUME NEW c \in Callers, NEW f \in Flights, Lead(c, f) PROVE Typed'
  <2>1. call[c] \in Request
    BY <1>5 DEF Lead, Typed, Tied
  <2>2. Takeoff(call[c].patience) \in Flight
    BY <2>1, RequestPatience, TakeoffType
  <2>3. Spot("ask", f, 0, None) \in Thread
    BY SpotType, FlightsConstants DEF Places
  <2>4. thread' \in [Callers -> Thread]
    BY <1>5, <2>3, GoesType DEF Lead
  <2>5. QED
    BY <1>5, <2>2, <2>4 DEF Lead, Mute, Typed
<1>6. ASSUME NEW c \in Callers, Join(c) PROVE Typed'
  <2>1. Spot("wait", reg, 0, None) \in Thread
    BY SpotType, FlightsConstants DEF Places, Typed
  <2>2. QED
    BY <1>6, <2>1, GoesType DEF Join, Mute, Typed
<1>7. ASSUME NEW c \in Callers, NEW t \in Thread, LetGo(c, t) PROVE Typed'
  <2>1. thread' \in [Callers -> Thread]
    BY <1>7, GoesType DEF LetGo
  <2>2. fl' \in [Flights -> Flight]
    BY <1>7, <2>1, KeptType DEF LetGo, Typed
  <2>3. QED
    BY <1>7, <2>1, <2>2 DEF LetGo, Mute, Typed
<1>8. ASSUME NEW c \in Callers, Share(c) PROVE Typed'
  <2>1. fl[thread[c].ref].outcome \in Kinds
    BY <1>8 DEF Share, Typed, Tied, Thread, Flight
  <2>2. Spot("result", None, 0, fl[thread[c].ref].outcome) \in Thread
    BY <2>1, SpotType, FlightsConstants DEF Places
  <2>3. QED
    BY <1>8, <1>7, <2>2 DEF Share
<1>9. ASSUME NEW c \in Callers, Again(c) PROVE Typed'
  BY <1>9, <1>7, AtType DEF Again, Places
<1>10. ASSUME NEW c \in Callers, Tire(c) PROVE Typed'
  BY <1>10, <1>7, AtType DEF Tire, Places
<1>11. ASSUME NEW c \in Callers, NEW kind \in Kinds, End(c, kind), cache' \in {cache, "fresh"}
       PROVE  Typed'
  <2> DEFINE o == [kind |-> kind, patience |-> call[c].patience]
  <2>1. seen' \in [Callers -> SUBSET Kinds]
    BY <1>11 DEF End, Typed
  <2>2. CASE thread[c].ref # None
    <3>1. thread[c].ref \in Flights
      BY <2>2 DEF Typed, Thread
    <3>2. fl' \in [Flights -> Flight]
      BY <1>11, <2>2, <3>1, ToldType DEF End, Typed
    <3>3. Spot("land", thread[c].ref, 0, None) \in Thread
      BY <3>1, SpotType, FlightsConstants DEF Places
    <3>4. thread' \in [Callers -> Thread]
      BY <1>11, <2>2, <3>3, GoesType DEF End
    <3>5. QED
      BY <1>11, <2>1, <3>2, <3>4 DEF End, Typed
  <2>3. CASE thread[c].ref = None
    <3>1. Spot("result", None, 0, kind) \in Thread
      BY SpotType, FlightsConstants DEF Places
    <3>2. thread' \in [Callers -> Thread]
      BY <1>11, <2>3, <3>1, GoesType DEF End
    <3>3. QED
      BY <1>11, <2>1, <2>3, <3>2 DEF End, Typed
  <2>4. QED
    BY <2>2, <2>3
<1>12. ASSUME NEW c \in Callers, Rows(c) \/ Refused(c) \/ Outage(c) PROVE Typed'
  BY <1>11, <1>12 DEF Rows, Refused, Outage, Kinds, Promise!Kinds
<1>13. ASSUME NEW c \in Callers, Retry(c) PROVE Typed'
  <2>1. thread[c].ref \in Flights \cup {None} /\ thread[c].tried \in 0..MaxAttempts
    BY DEF Typed, Thread
  <2>2. call[c] \in Request
    BY <1>13 DEF Retry, Typed, Tied
  <2>3. call[c].patience.attempts \in 1..MaxAttempts
    BY <2>2 DEF Request, Promise!Request, Promise!Patience
  <2>4. thread[c].tried + 1 \in 0..MaxAttempts
    BY <1>13, <2>1, <2>3, FlightsConstants DEF Retry
  <2>5. Spot("ask", thread[c].ref, thread[c].tried + 1, None) \in Thread
    BY <2>1, <2>4, SpotType DEF Places
  <2>6. QED
    BY <1>13, <2>5, GoesType DEF Retry, Mute, Typed
<1>14. ASSUME NEW c \in Callers, Land(c) PROVE Typed'
  <2>1. Spot("wake", thread[c].ref, 0, None) \in Thread
    BY SpotType, FlightsConstants DEF Places, Typed, Thread
  <2>2. QED
    BY <1>14, <2>1, GoesType DEF Land, Mute, Typed
<1>15. ASSUME NEW c \in Callers, Wake(c) PROVE Typed'
  <2>1. thread[c].ref \in Flights /\ fl[thread[c].ref] \in Flight /\ fl[thread[c].ref].outcome \in Kinds
    BY <1>15 DEF Wake, Typed, Tied, Thread, Flight
  <2>2. Spot("result", None, 0, fl[thread[c].ref].outcome) \in Thread
    BY <2>1, SpotType, FlightsConstants DEF Places
  <2>3. thread' \in [Callers -> Thread]
    BY <1>15, <2>2, GoesType DEF Wake
  <2>4. [fl EXCEPT ![thread[c].ref] = Over(@)] \in [Flights -> Flight]
    BY <2>1, OverType DEF Typed
  <2>5. fl' \in [Flights -> Flight]
    BY <1>15, <2>3, <2>4, KeptType DEF Wake
  <2>6. QED
    BY <1>15, <2>3, <2>5 DEF Wake, Mute, Typed
<1>16. ASSUME NEW c \in Callers, Result(c) PROVE Typed'
  BY <1>16, <1>2 DEF Result, Promise!Answers
<1>17. CASE Expire
  BY <1>17 DEF Expire, Mute, Typed
<1>18. CASE UNCHANGED vars
  BY <1>18 DEF vars, Typed
<1>19. QED
  BY <1>1, <1>3, <1>4, <1>5, <1>6, <1>8, <1>9, <1>10, <1>12, <1>13, <1>14, <1>15, <1>16, <1>17,
     <1>18 DEF Next, Step

(***************************************************************************)
(* The other conjuncts, one lemma per action.                              *)
(***************************************************************************)
Core == Tied /\ LeaderFlies /\ SoleLeader /\ RegisteredIsLed /\ SomebodyWakes /\ HeardInTime

LEMMA InvParts == FlightInv <=> Typed /\ Core
  BY TypeOKParts DEF FlightInv, Core

\* What a thread refers to.
LEMMA RefType ==
  ASSUME Typed, NEW c \in Callers
  PROVE  /\ thread[c] \in Thread
         /\ thread[c].ref \in Flights \cup {None}
         /\ thread[c].got \in Kinds \cup {None}
         /\ thread[c].ref # None => fl[thread[c].ref] \in Flight
         /\ thread[c].ref # None => fl[thread[c].ref].outcome \in Kinds \cup {None}
         /\ call[c] \in Request \cup {None}
         /\ seen[c] \in SUBSET Kinds
  BY DEF Typed, Thread, Flight

\* A thread that holds no flight before or after its step disturbs nobody's.
LEMMA MoveAlone ==
  ASSUME Typed, Core, NEW c \in Callers, NEW place \in {"look", "enter", "idle"},
         Goes(c, At(place)), thread[c].at \in {"idle", "look", "result"},
         \A d \in Callers \ {c} : call'[d] = call[d] /\ seen'[d] = seen[d],
         UNCHANGED <<reg, fl>>
  PROVE  /\ LeaderFlies' /\ SoleLeader' /\ RegisteredIsLed' /\ SomebodyWakes'
         /\ \A d \in Callers \ {c} : thread'[d] = thread[d] /\ (Answers(d))' = Answers(d)
         /\ thread'[c].at = place
         /\ Recent' = Recent
<1>1. /\ thread'[c].at = place
      /\ thread'[c].ref = None
      /\ \A d \in Callers \ {c} : thread'[d] = thread[d]
  BY AtType, GoesType DEF Places
<1>2. \A d \in Callers : Leads(d)' => Leads(d) /\ d # c
  BY <1>1 DEF Leads
<1>3. \A d \in Callers : Leads(d) => Leads(d)' /\ d # c
  BY <1>1 DEF Leads
<1>4. LeaderFlies'
  BY <1>1, <1>2 DEF Core, LeaderFlies
<1>5. SoleLeader'
  BY <1>1, <1>2 DEF Core, SoleLeader
<1>6. RegisteredIsLed'
  BY <1>1, <1>3 DEF Core, RegisteredIsLed
<1>7. SomebodyWakes'
  BY <1>1, <1>3 DEF Core, SomebodyWakes
<1>8. Recent' = Recent
  BY DEF Recent
<1>9. \A d \in Callers \ {c} : (Answers(d))' = Answers(d)
  BY <1>1 DEF Answers
<1>10. QED
  BY <1>1, <1>4, <1>5, <1>6, <1>7, <1>8, <1>9

LEMMA CallCore ==
  ASSUME Typed, Core, NEW c \in Callers, NEW r \in Request, Call(c, r)
  PROVE  Core' /\ Recent' = Recent
<1>1. /\ Goes(c, At("look"))
      /\ thread[c].at = "idle"
      /\ \A d \in Callers \ {c} : call'[d] = call[d] /\ seen'[d] = seen[d]
      /\ call'[c] = r
      /\ seen'[c] = {o.kind : o \in {o \in Recent : Useful(o, r)}}
      /\ UNCHANGED <<reg, fl>>
  BY DEF Call, Typed
<1>2. /\ LeaderFlies' /\ SoleLeader' /\ RegisteredIsLed' /\ SomebodyWakes'
      /\ \A d \in Callers \ {c} : thread'[d] = thread[d] /\ (Answers(d))' = Answers(d)
      /\ thread'[c].at = "look"
      /\ Recent' = Recent
  BY <1>1, MoveAlone
<1>3. Tied'
  BY <1>1, <1>2, NoneApart DEF Core, Tied
<1>4. HeardInTime'
  BY <1>1, <1>2 DEF Core, HeardInTime
<1>5. QED
  BY <1>2, <1>3, <1>4 DEF Core

LEMMA ReturnCore ==
  ASSUME Typed, Core, NEW c \in Callers, NEW answer, Return(c, answer),
         thread[c].at \in {"look", "result"}
  PROVE  Core' /\ Recent' = Recent
<1>1. /\ Goes(c, At("idle"))
      /\ \A d \in Callers \ {c} : call'[d] = call[d] /\ seen'[d] = seen[d]
      /\ call'[c] = None
      /\ UNCHANGED <<reg, fl>>
  BY DEF Return, Typed
<1>2. /\ LeaderFlies' /\ SoleLeader' /\ RegisteredIsLed' /\ SomebodyWakes'
      /\ \A d \in Callers \ {c} : thread'[d] = thread[d] /\ (Answers(d))' = Answers(d)
      /\ thread'[c].at = "idle"
      /\ Recent' = Recent
  BY <1>1, MoveAlone
<1>3. Tied'
  BY <1>1, <1>2 DEF Core, Tied
<1>4. HeardInTime'
  BY <1>1, <1>2 DEF Core, HeardInTime
<1>5. QED
  BY <1>2, <1>3, <1>4 DEF Core

LEMMA LookMissCore ==
  ASSUME Typed, Core, NEW c \in Callers, LookMiss(c)
  PROVE  Core' /\ Recent' = Recent
<1>1. /\ Goes(c, At("enter"))
      /\ thread[c].at = "look"
      /\ \A d \in Callers : call'[d] = call[d] /\ seen'[d] = seen[d]
      /\ UNCHANGED <<reg, fl>>
  BY DEF LookMiss, Mute
<1>2. /\ LeaderFlies' /\ SoleLeader' /\ RegisteredIsLed' /\ SomebodyWakes'
      /\ \A d \in Callers \ {c} : thread'[d] = thread[d] /\ (Answers(d))' = Answers(d)
      /\ thread'[c].at = "enter"
      /\ Recent' = Recent
  BY <1>1, MoveAlone
<1>3. Tied'
  BY <1>1, <1>2 DEF Core, Tied
<1>4. HeardInTime'
  BY <1>1, <1>2 DEF Core, HeardInTime
<1>5. QED
  BY <1>2, <1>3, <1>4 DEF Core

LEMMA LeadCore ==
  ASSUME Typed, Core, NEW c \in Callers, NEW f \in Flights, Lead(c, f)
  PROVE  Core' /\ Recent' = {}
<1>1. call[c] \in Request /\ Takeoff(call[c].patience) \in Flight
  <2>1. thread[c].at = "enter"
    BY DEF Lead
  <2>2. call[c] \in Request
    BY <2>1 DEF Typed, Core, Tied
  <2>3. QED
    BY <2>2, RequestPatience, TakeoffType
<1>2. /\ thread'[c].at = "ask"
      /\ thread'[c].ref = f
      /\ \A d \in Callers \ {c} : thread'[d] = thread[d]
  BY SpotType, GoesType, FlightsConstants DEF Lead, Places
<1>3. /\ thread[c].at = "enter"
      /\ \A d \in Callers : thread[d].ref # f
      /\ reg = None /\ reg' = f
      /\ \A g \in Flights \ {f} : fl'[g] = fl[g]
      /\ fl'[f].patience = call[c].patience
      /\ fl'[f].outcome = None
      /\ fl'[f].done = FALSE
      /\ UNCHANGED <<call, seen>>
  BY <1>1, RequestPatience, TakeoffType DEF Lead, Mute, Typed, Held
<1>4. \A d \in Callers \ {c} : thread[d].ref # None => fl'[thread[d].ref] = fl[thread[d].ref]
  BY <1>3, RefType
<1>5. \A d \in Callers \ {c} : Leads(d)' <=> Leads(d)
  BY <1>2 DEF Leads
<1>6. f # None
  BY NoneApart
<1>7. Leads(c)'
  BY <1>2, <1>6 DEF Leads
<1>8. Tied'
  BY <1>2, <1>3, <1>4 DEF Core, Tied
<1>9. \A d \in Callers \ {c} : Leads(d) => thread[d].at = "wake"
  BY <1>3 DEF Core, LeaderFlies, Leads
<1>10. LeaderFlies'
  <2> SUFFICES ASSUME NEW d \in Callers, Leads(d)'
               PROVE  LET g == thread'[d].ref
                      IN /\ fl'[g].patience = call'[d].patience
                         /\ ~fl'[g].done
                         /\ thread'[d].at \in {"ask", "land"} => reg' = g
                         /\ thread'[d].at = "ask" => fl'[g].outcome = None
    BY DEF LeaderFlies
  <2>1. CASE d = c
    BY <1>2, <1>3, <2>1
  <2>2. CASE d # c
    BY <1>2, <1>3, <1>4, <1>5, <1>9, <2>2 DEF Core, LeaderFlies, Leads
  <2>3. QED
    BY <2>1, <2>2
<1>11. SoleLeader'
  BY <1>2, <1>3, <1>5 DEF Core, SoleLeader
<1>12. RegisteredIsLed'
  BY <1>2, <1>3, <1>7 DEF RegisteredIsLed
<1>13. SomebodyWakes'
  <2> SUFFICES ASSUME NEW d \in Callers, thread'[d].at = "wait", ~fl'[thread'[d].ref].done
               PROVE  \E e \in Callers : Leads(e)' /\ thread'[e].ref = thread'[d].ref
    BY DEF SomebodyWakes
  <2>1. d # c /\ thread'[d] = thread[d]
    BY <1>2
  <2>2. thread[d].at = "wait" /\ ~fl[thread[d].ref].done
    BY <2>1, <1>4 DEF Core, Tied
  <2>3. PICK e \in Callers : Leads(e) /\ thread[e].ref = thread[d].ref
    BY <2>2 DEF Core, SomebodyWakes
  <2>4. e # c
    BY <1>3, <2>3 DEF Leads
  <2>5. QED
    BY <2>1, <2>3, <2>4, <1>2, <1>5
<1>14. Recent' = {}
  BY <1>3 DEF Recent
<1>15. \A d \in Callers \ {c} : thread[d].at = "wait" => (Answers(d))' = Answers(d)
  BY <1>2, <1>3, <1>4 DEF Answers, Core, Tied
<1>16. HeardInTime'
  BY <1>2, <1>3, <1>4, <1>14, <1>15 DEF Core, HeardInTime, Tied
<1>17. QED
  BY <1>8, <1>10, <1>11, <1>12, <1>13, <1>14, <1>16 DEF Core

LEMMA JoinCore ==
  ASSUME Typed, Core, NEW c \in Callers, Join(c)
  PROVE  Core' /\ Recent' = Recent
<1>1. /\ thread'[c].at = "wait"
      /\ thread'[c].ref = reg
      /\ \A d \in Callers \ {c} : thread'[d] = thread[d]
  BY SpotType, GoesType, FlightsConstants DEF Join, Places, Typed
<1>2. thread[c].at = "enter" /\ reg # None /\ UNCHANGED <<reg, fl, call, seen>>
  BY DEF Join, Mute
<1>3. \A d \in Callers : Leads(d)' <=> Leads(d)
  BY <1>1, <1>2 DEF Leads
<1>4. PICK e \in Callers : Leads(e) /\ thread[e].at \in {"ask", "land"} /\ thread[e].ref = reg
  BY <1>2 DEF Core, RegisteredIsLed
<1>5. e # c /\ ~fl[reg].done
  BY <1>2, <1>4 DEF Core, LeaderFlies
<1>6. Tied'
  BY <1>1, <1>2, <1>5 DEF Core, Tied
<1>7. LeaderFlies'
  BY <1>1, <1>2, <1>3 DEF Core, LeaderFlies, Leads
<1>8. SoleLeader'
  BY <1>1, <1>2, <1>3 DEF Core, SoleLeader, Leads
<1>9. RegisteredIsLed'
  BY <1>1, <1>2, <1>3, <1>4, <1>5 DEF Core, RegisteredIsLed
<1>10. SomebodyWakes'
  <2> SUFFICES ASSUME NEW d \in Callers, thread'[d].at = "wait", ~fl'[thread'[d].ref].done
               PROVE  \E b \in Callers : Leads(b)' /\ thread'[b].ref = thread'[d].ref
    BY DEF SomebodyWakes
  <2>1. CASE d = c
    BY <2>1, <1>1, <1>3, <1>4, <1>5
  <2>2. CASE d # c
    <3>1. PICK b \in Callers : Leads(b) /\ thread[b].ref = thread[d].ref
      BY <2>2, <1>1, <1>2 DEF Core, SomebodyWakes
    <3>2. b # c
      BY <1>2, <3>1 DEF Leads
    <3>3. QED
      BY <2>2, <3>1, <3>2, <1>1, <1>3
  <2>3. QED
    BY <2>1, <2>2
<1>11. Recent' = Recent
  BY <1>2 DEF Recent
<1>12. \A d \in Callers \ {c} : (Answers(d))' = Answers(d)
  BY <1>1, <1>2 DEF Answers
<1>13. fl[reg].outcome # None /\ (Answers(c))' =>
          /\ [kind |-> fl[reg].outcome, patience |-> fl[reg].patience] \in Recent
          /\ Useful([kind |-> fl[reg].outcome, patience |-> fl[reg].patience], call[c])
  BY <1>1, <1>2 DEF Answers, Recent
<1>14. call[c] # None
  BY <1>2 DEF Core, Tied
<1>15. fl[reg].outcome # None /\ (Answers(c))' => fl[reg].outcome \in seen[c]
  BY <1>13, <1>14 DEF Core, HeardInTime
<1>16. HeardInTime'
  BY <1>1, <1>2, <1>11, <1>12, <1>15 DEF Core, HeardInTime
<1>17. QED
  BY <1>6, <1>7, <1>8, <1>9, <1>10, <1>11, <1>16 DEF Core

\* Nobody but a leader refers to the lookup under way as its leader does,
\* so what is registered is kept whoever else lets go.
LEMMA LetGoCore ==
  ASSUME Typed, Core, NEW c \in Callers, NEW t \in Thread, LetGo(c, t),
         thread[c].at = "wait", t.ref = None, t.at \in {"result", "enter", "ask"},
         t.at = "result" => t.got # None /\ t.got \in seen[c]
  PROVE  Core' /\ Recent' = Recent
<1>1. /\ thread' \in [Callers -> Thread]
      /\ thread'[c] = t
      /\ \A d \in Callers \ {c} : thread'[d] = thread[d]
  BY GoesType DEF LetGo
<1>2. UNCHANGED <<reg, call, seen>> /\ fl' = Kept(fl, thread')
  BY DEF LetGo, Mute
<1>3. fl \in [Flights -> Flight]
  BY DEF Typed
<1>4. \A d \in Callers : thread'[d].ref # None => fl'[thread'[d].ref] = fl[thread'[d].ref]
  BY <1>1, <1>2, <1>3, KeptType
<1>5. \A d \in Callers \ {c} : thread[d].ref # None => fl'[thread[d].ref] = fl[thread[d].ref]
  BY <1>1, <1>4
<1>6. ~Leads(c) /\ ~Leads(c)' /\ \A d \in Callers \ {c} : Leads(d)' <=> Leads(d)
  BY <1>1 DEF Leads
<1>7. Tied'
  BY <1>1, <1>2, <1>5 DEF Core, Tied
<1>8. LeaderFlies'
  <2> SUFFICES ASSUME NEW d \in Callers, Leads(d)'
               PROVE  LET g == thread'[d].ref
                      IN /\ fl'[g].patience = call'[d].patience
                         /\ ~fl'[g].done
                         /\ thread'[d].at \in {"ask", "land"} => reg' = g
                         /\ thread'[d].at = "ask" => fl'[g].outcome = None
    BY DEF LeaderFlies
  <2>1. d # c /\ Leads(d) /\ thread'[d] = thread[d] /\ thread[d].ref # None
    BY <1>1, <1>6 DEF Leads
  <2>2. QED
    BY <2>1, <1>2, <1>5 DEF Core, LeaderFlies
<1>9. SoleLeader'
  BY <1>1, <1>6 DEF Core, SoleLeader
<1>10. RegisteredIsLed'
  BY <1>1, <1>2, <1>6 DEF Core, RegisteredIsLed
<1>11. SomebodyWakes'
  <2> SUFFICES ASSUME NEW d \in Callers, thread'[d].at = "wait", ~fl'[thread'[d].ref].done
               PROVE  \E e \in Callers : Leads(e)' /\ thread'[e].ref = thread'[d].ref
    BY DEF SomebodyWakes
  <2>1. d # c /\ thread'[d] = thread[d]
    BY <1>1
  <2>2. thread[d].at = "wait" /\ ~fl[thread[d].ref].done
    BY <2>1, <1>5 DEF Core, Tied
  <2>3. PICK e \in Callers : Leads(e) /\ thread[e].ref = thread[d].ref
    BY <2>2 DEF Core, SomebodyWakes
  <2>4. QED
    BY <2>1, <2>3, <1>1, <1>6
<1>12. reg # None => fl'[reg] = fl[reg]
  BY <1>5, <1>6 DEF Core, RegisteredIsLed
<1>13. Recent' = Recent
  BY <1>2, <1>12 DEF Recent
<1>14. \A d \in Callers \ {c} : thread[d].at = "wait" => (Answers(d))' = Answers(d)
  BY <1>1, <1>2, <1>5 DEF Answers, Core, Tied
<1>15. HeardInTime'
  BY <1>1, <1>2, <1>5, <1>13, <1>14 DEF Core, HeardInTime, Tied
<1>16. QED
  BY <1>7, <1>8, <1>9, <1>10, <1>11, <1>13, <1>15 DEF Core

LEMMA ShareCore ==
  ASSUME Typed, Core, NEW c \in Callers, Share(c)
  PROVE  Core' /\ Recent' = Recent
<1>1. thread[c].at = "wait" /\ fl[thread[c].ref].done /\ Answers(c)
  BY DEF Share
<1>2. /\ call[c] # None
      /\ fl[thread[c].ref].outcome \in Kinds
      /\ fl[thread[c].ref].outcome # None
  BY <1>1, RefType DEF Core, Tied
<1>3. fl[thread[c].ref].outcome \in seen[c]
  BY <1>1, <1>2 DEF Core, HeardInTime
<1>4. DEFINE t == Spot("result", None, 0, fl[thread[c].ref].outcome)
<1>5. t \in Thread /\ t.at = "result" /\ t.ref = None /\ t.got = fl[thread[c].ref].outcome
  BY <1>2, SpotType, FlightsConstants DEF Places
<1>6. LetGo(c, t)
  BY DEF Share
<1>7. QED
  BY <1>1, <1>2, <1>3, <1>5, <1>6, LetGoCore

LEMMA AgainCore ==
  ASSUME Typed, Core, NEW c \in Callers, Again(c) \/ Tire(c)
  PROVE  Core' /\ Recent' = Recent
<1>1. thread[c].at = "wait"
  BY DEF Again, Tire
<1>2. \A place \in {"enter", "ask"} :
         At(place) \in Thread /\ At(place).at = place /\ At(place).ref = None
  BY AtType DEF Places
<1>3. LetGo(c, At("enter")) \/ LetGo(c, At("ask"))
  BY DEF Again, Tire
<1>4. QED
  BY <1>1, <1>2, <1>3, LetGoCore

LEMMA RetryCore ==
  ASSUME Typed, Core, NEW c \in Callers, Retry(c), Typed'
  PROVE  Core' /\ Recent' = Recent
<1>1. thread[c].at = "ask" /\ UNCHANGED <<reg, fl, call, seen>>
  BY DEF Retry, Mute
<1>2. /\ thread'[c].at = "ask"
      /\ thread'[c].ref = thread[c].ref
      /\ \A d \in Callers \ {c} : thread'[d] = thread[d]
  BY DEF Retry, Goes, Typed, Spot
<1>3. \A d \in Callers : Leads(d)' <=> Leads(d)
  BY <1>1, <1>2 DEF Leads
<1>4. \A d \in Callers : thread'[d].at = thread[d].at /\ thread'[d].ref = thread[d].ref
  BY <1>1, <1>2
<1>5. Tied'
  BY <1>1, <1>2 DEF Core, Tied
<1>6. LeaderFlies' /\ SoleLeader' /\ RegisteredIsLed'
  BY <1>1, <1>3, <1>4 DEF Core, LeaderFlies, SoleLeader, RegisteredIsLed
<1>7. SomebodyWakes'
  BY <1>1, <1>3, <1>4 DEF Core, SomebodyWakes
<1>8. Recent' = Recent /\ \A d \in Callers : (Answers(d))' = Answers(d)
  BY <1>1, <1>4 DEF Recent, Answers
<1>9. HeardInTime'
  BY <1>1, <1>2, <1>8 DEF Core, HeardInTime
<1>10. QED
  BY <1>5, <1>6, <1>7, <1>8, <1>9 DEF Core

LEMMA LandCore ==
  ASSUME Typed, Core, NEW c \in Callers, Land(c)
  PROVE  Core' /\ Recent' = {}
<1>1. thread[c].at = "land" /\ UNCHANGED <<fl, call, seen>>
  BY DEF Land, Mute
<1>2. /\ thread'[c].at = "wake"
      /\ thread'[c].ref = thread[c].ref
      /\ \A d \in Callers \ {c} : thread'[d] = thread[d]
  BY DEF Land, Goes, Typed, Spot
<1>3. \A d \in Callers : Leads(d)' <=> Leads(d)
  BY <1>1, <1>2 DEF Leads
<1>4. \A d \in Callers : thread'[d].ref = thread[d].ref
  BY <1>2
<1>5. Leads(c) /\ reg = thread[c].ref
  BY <1>1 DEF Core, Tied, LeaderFlies, Leads
<1>6. reg' = None
  BY <1>5 DEF Land
<1>7. \A d \in Callers \ {c} : Leads(d) => thread[d].at \notin {"ask", "land"}
  BY <1>5 DEF Core, SoleLeader, LeaderFlies
<1>8. Tied'
  BY <1>1, <1>2 DEF Core, Tied
<1>9. LeaderFlies'
  BY <1>1, <1>2, <1>3, <1>4, <1>7 DEF Core, LeaderFlies
<1>10. SoleLeader'
  BY <1>3, <1>4 DEF Core, SoleLeader
<1>11. RegisteredIsLed'
  BY <1>6 DEF RegisteredIsLed
<1>12. SomebodyWakes'
  <2> SUFFICES ASSUME NEW d \in Callers, thread'[d].at = "wait", ~fl'[thread'[d].ref].done
               PROVE  \E e \in Callers : Leads(e)' /\ thread'[e].ref = thread'[d].ref
    BY DEF SomebodyWakes
  <2>1. thread[d].at = "wait" /\ ~fl[thread[d].ref].done
    BY <1>1, <1>2
  <2>2. PICK e \in Callers : Leads(e) /\ thread[e].ref = thread[d].ref
    BY <2>1 DEF Core, SomebodyWakes
  <2>3. QED
    BY <2>2, <1>3, <1>4
<1>13. Recent' = {}
  BY <1>6 DEF Recent
<1>14. \A d \in Callers : (Answers(d))' = Answers(d)
  BY <1>1, <1>4 DEF Answers
<1>15. HeardInTime'
  BY <1>1, <1>2, <1>13, <1>14 DEF Core, HeardInTime
<1>16. QED
  BY <1>8, <1>9, <1>10, <1>11, <1>12, <1>13, <1>15 DEF Core

LEMMA WakeCore ==
  ASSUME Typed, Core, NEW c \in Callers, Wake(c)
  PROVE  Core' /\ Recent' = Recent
<1> DEFINE f == thread[c].ref
<1> DEFINE g == [fl EXCEPT ![f] = Over(@)]
<1>1. thread[c].at = "wake" /\ UNCHANGED <<reg, call, seen>>
  BY DEF Wake, Mute
<1>2. f \in Flights /\ fl[f] \in Flight /\ fl[f].outcome \in Kinds /\ fl[f].outcome # None
  BY <1>1, RefType DEF Core, Tied
<1>3. /\ thread' \in [Callers -> Thread]
      /\ thread'[c].at = "result"
      /\ thread'[c].ref = None
      /\ thread'[c].got = fl[f].outcome
      /\ \A d \in Callers \ {c} : thread'[d] = thread[d]
  BY <1>2, SpotType, GoesType, FlightsConstants DEF Wake, Places
<1>4. fl' = Kept(g, thread')
  BY DEF Wake
<1>5. /\ g \in [Flights -> Flight]
      /\ g[f].patience = fl[f].patience
      /\ g[f].outcome = fl[f].outcome
      /\ g[f].done
      /\ \A h \in Flights \ {f} : g[h] = fl[h]
  BY <1>2, OverType DEF Typed
<1> HIDE DEF g
<1>6. \A d \in Callers \ {c} : thread[d].ref # None => fl'[thread[d].ref] = g[thread[d].ref]
  <2>1. \A d \in Callers : thread'[d].ref # None => Kept(g, thread')[thread'[d].ref] = g[thread'[d].ref]
    BY <1>3, <1>5, KeptType
  <2>2. QED
    BY <2>1, <1>3, <1>4
<1>7. \A d \in Callers \ {c} : thread[d].ref # None =>
         /\ fl'[thread[d].ref].patience = fl[thread[d].ref].patience
         /\ fl'[thread[d].ref].outcome = fl[thread[d].ref].outcome
         /\ thread[d].ref = f => fl'[thread[d].ref].done
         /\ thread[d].ref # f => fl'[thread[d].ref].done = fl[thread[d].ref].done
  BY <1>5, <1>6, RefType
<1>8. Leads(c) /\ ~Leads(c)' /\ \A d \in Callers \ {c} : Leads(d)' <=> Leads(d)
  BY <1>1, <1>2, <1>3, NoneApart DEF Leads
<1>9. \A d \in Callers \ {c} : Leads(d) => thread[d].ref # f /\ thread[d].ref # None
  BY <1>8 DEF Core, SoleLeader, Leads
<1>10. Tied'
  BY <1>1, <1>2, <1>3, <1>7 DEF Core, Tied
<1>11. LeaderFlies'
  <2> SUFFICES ASSUME NEW d \in Callers, Leads(d)'
               PROVE  LET h == thread'[d].ref
                      IN /\ fl'[h].patience = call'[d].patience
                         /\ ~fl'[h].done
                         /\ thread'[d].at \in {"ask", "land"} => reg' = h
                         /\ thread'[d].at = "ask" => fl'[h].outcome = None
    BY DEF LeaderFlies
  <2>1. /\ d # c /\ Leads(d) /\ thread'[d] = thread[d]
        /\ thread[d].ref # None /\ thread[d].ref # f
    BY <1>3, <1>8, <1>9
  <2>2. QED
    BY <2>1, <1>1, <1>7 DEF Core, LeaderFlies
<1>12. SoleLeader'
  BY <1>3, <1>8 DEF Core, SoleLeader
<1>13. RegisteredIsLed'
  BY <1>1, <1>3, <1>8 DEF Core, RegisteredIsLed
<1>14. SomebodyWakes'
  <2> SUFFICES ASSUME NEW d \in Callers, thread'[d].at = "wait", ~fl'[thread'[d].ref].done
               PROVE  \E e \in Callers : Leads(e)' /\ thread'[e].ref = thread'[d].ref
    BY DEF SomebodyWakes
  <2>1. d # c /\ thread'[d] = thread[d]
    BY <1>3
  <2>2. thread[d].at = "wait" /\ ~fl[thread[d].ref].done /\ thread[d].ref # f
    BY <2>1, <1>7 DEF Core, Tied
  <2>3. PICK e \in Callers : Leads(e) /\ thread[e].ref = thread[d].ref
    BY <2>2 DEF Core, SomebodyWakes
  <2>4. QED
    BY <2>1, <2>2, <2>3, <1>3, <1>8
<1>15. reg # None => /\ fl'[reg].patience = fl[reg].patience
                     /\ fl'[reg].outcome = fl[reg].outcome
  BY <1>1, <1>7 DEF Core, RegisteredIsLed
<1>16. Recent' = Recent
  BY <1>1, <1>15 DEF Recent
<1>17. \A d \in Callers \ {c} : thread[d].at = "wait" => (Answers(d))' = Answers(d)
  BY <1>1, <1>3, <1>7 DEF Answers, Core, Tied
<1>18. HeardInTime'
  BY <1>1, <1>3, <1>7, <1>16, <1>17 DEF Core, HeardInTime, Tied
<1>19. QED
  BY <1>10, <1>11, <1>12, <1>13, <1>14, <1>16, <1>18 DEF Core

\* What is asked as patiently as a caller would is of use to it.
LEMMA OwnUseful ==
  ASSUME NEW r \in Request, NEW kind
  PROVE  Useful([kind |-> kind, patience |-> r.patience], r)
<1>1. r.patience.timeout \in 1..MaxTimeout /\ r.patience.attempts \in 1..MaxAttempts
  BY DEF Request, Promise!Request, Promise!Patience
<1>2. r.patience.timeout >= r.patience.timeout /\ r.patience.attempts >= r.patience.attempts
  BY <1>1
<1>3. QED
  BY <1>2 DEF Useful, Promise!Useful, Promise!Covers

LEMMA EndAloneCore ==
  ASSUME Typed, Core, NEW c \in Callers, NEW kind \in Kinds, End(c, kind), thread[c].ref = None
  PROVE  Core' /\ Recent' = Recent
<1> DEFINE o == [kind |-> kind, patience |-> call[c].patience]
<1>1. thread[c].at = "ask" /\ UNCHANGED <<reg, fl, call>>
  BY DEF End
<1>2. call[c] \in Request
  BY <1>1, RefType DEF Core, Tied
<1>3. /\ thread'[c].at = "result"
      /\ thread'[c].ref = None
      /\ thread'[c].got = kind
      /\ \A d \in Callers \ {c} : thread'[d] = thread[d]
  BY SpotType, GoesType, FlightsConstants DEF End, Places
<1>4. Useful(o, call[c])
  BY <1>2, OwnUseful
<1>5. /\ \A d \in Callers : seen[d] \subseteq seen'[d]
      /\ kind \in seen'[c]
  BY <1>1, <1>2, <1>4, NoneApart DEF End
<1>6. kind # None
  BY NoneApart
<1>7. \A d \in Callers : Leads(d)' <=> Leads(d) /\ d # c
  BY <1>1, <1>3 DEF Leads
<1>8. ~Leads(c)
  BY DEF Leads
<1>9. Tied'
  BY <1>1, <1>3, <1>6 DEF Core, Tied
<1>10. LeaderFlies'
  BY <1>1, <1>3, <1>7 DEF Core, LeaderFlies
<1>11. SoleLeader'
  BY <1>3, <1>7 DEF Core, SoleLeader
<1>12. RegisteredIsLed'
  BY <1>1, <1>3, <1>7, <1>8 DEF Core, RegisteredIsLed
<1>13. SomebodyWakes'
  BY <1>1, <1>3, <1>7, <1>8 DEF Core, SomebodyWakes
<1>14. Recent' = Recent
  BY <1>1 DEF Recent
<1>15. \A d \in Callers \ {c} : (Answers(d))' = Answers(d)
  BY <1>1, <1>3 DEF Answers
<1>16. HeardInTime'
  BY <1>1, <1>3, <1>5, <1>14, <1>15 DEF Core, HeardInTime
<1>17. QED
  BY <1>9, <1>10, <1>11, <1>12, <1>13, <1>14, <1>16 DEF Core

LEMMA EndLeadCore ==
  ASSUME Typed, Core, NEW c \in Callers, NEW kind \in Kinds, End(c, kind), thread[c].ref # None
  PROVE  Core' /\ Recent = {} /\ Recent' = {[kind |-> kind, patience |-> call[c].patience]}
<1> DEFINE f == thread[c].ref
<1> DEFINE o == [kind |-> kind, patience |-> call[c].patience]
<1>1. thread[c].at = "ask" /\ UNCHANGED <<reg, call>>
  BY DEF End
<1>2. call[c] \in Request /\ f \in Flights /\ fl[f] \in Flight /\ kind # None
  BY <1>1, RefType, NoneApart DEF Core, Tied
<1>3. /\ thread'[c].at = "land"
      /\ thread'[c].ref = f
      /\ \A d \in Callers \ {c} : thread'[d] = thread[d]
  BY <1>2, SpotType, GoesType, FlightsConstants DEF End, Places
<1>4. /\ fl'[f].patience = fl[f].patience
      /\ fl'[f].outcome = kind
      /\ fl'[f].done = fl[f].done
      /\ \A h \in Flights \ {f} : fl'[h] = fl[h]
  BY <1>2, ToldType DEF End, Typed
<1>5. Leads(c) /\ \A d \in Callers : Leads(d)' <=> Leads(d)
  BY <1>1, <1>3 DEF Leads
<1>6. reg = f /\ fl[f].patience = call[c].patience /\ fl[f].outcome = None /\ ~fl[f].done
  BY <1>1, <1>5 DEF Core, LeaderFlies
<1>7. \A d \in Callers \ {c} : Leads(d) => thread[d].ref # f
  BY <1>5 DEF Core, SoleLeader
<1>8. \A d \in Callers : thread'[d].ref = thread[d].ref
  BY <1>3
<1>9. \A d \in Callers : thread[d].ref # None /\ thread[d].ref # f => fl'[thread[d].ref] = fl[thread[d].ref]
  BY <1>4, RefType
<1>10. Recent = {} /\ Recent' = {o}
  BY <1>1, <1>2, <1>4, <1>6, NoneApart DEF Recent
<1>11. \A d \in Callers :
          /\ seen[d] \subseteq seen'[d]
          /\ call[d] # None /\ Useful(o, call[d]) => kind \in seen'[d]
  BY DEF End
<1>12. Useful(o, call[c])
  BY <1>2, OwnUseful
<1>13. Tied'
  BY <1>1, <1>2, <1>3, <1>4, <1>9 DEF Core, Tied
<1>14. LeaderFlies'
  <2> SUFFICES ASSUME NEW d \in Callers, Leads(d)'
               PROVE  LET h == thread'[d].ref
                      IN /\ fl'[h].patience = call'[d].patience
                         /\ ~fl'[h].done
                         /\ thread'[d].at \in {"ask", "land"} => reg' = h
                         /\ thread'[d].at = "ask" => fl'[h].outcome = None
    BY DEF LeaderFlies
  <2>1. CASE d = c
    BY <2>1, <1>1, <1>3, <1>4, <1>6
  <2>2. CASE d # c
    <3>1. Leads(d) /\ thread'[d] = thread[d] /\ thread[d].ref # None /\ thread[d].ref # f
      BY <2>2, <1>3, <1>5, <1>7 DEF Leads
    <3>2. QED
      BY <3>1, <1>1, <1>9 DEF Core, LeaderFlies
  <2>3. QED
    BY <2>1, <2>2
<1>15. SoleLeader'
  BY <1>5, <1>8 DEF Core, SoleLeader
<1>16. RegisteredIsLed'
  BY <1>1, <1>3, <1>5, <1>6 DEF RegisteredIsLed
<1>17. SomebodyWakes'
  <2> SUFFICES ASSUME NEW d \in Callers, thread'[d].at = "wait", ~fl'[thread'[d].ref].done
               PROVE  \E e \in Callers : Leads(e)' /\ thread'[e].ref = thread'[d].ref
    BY DEF SomebodyWakes
  <2>1. d # c /\ thread[d].at = "wait" /\ thread[d].ref # None
    BY <1>3 DEF Core, Tied
  <2>2. ~fl[thread[d].ref].done
    BY <2>1, <1>4, <1>8, <1>9
  <2>3. PICK e \in Callers : Leads(e) /\ thread[e].ref = thread[d].ref
    BY <2>1, <2>2 DEF Core, SomebodyWakes
  <2>4. QED
    BY <2>3, <1>5, <1>8
<1>18. HeardInTime'
  <2> SUFFICES ASSUME NEW d \in Callers, call'[d] # None
               PROVE  /\ \A p \in Recent' : Useful(p, call'[d]) => p.kind \in seen'[d]
                      /\ thread'[d].at = "result" => thread'[d].got \in seen'[d]
                      /\ thread'[d].at \in {"land", "wake"} => fl'[thread'[d].ref].outcome \in seen'[d]
                      /\ thread'[d].at = "wait" /\ fl'[thread'[d].ref].outcome # None /\ (Answers(d))' =>
                            fl'[thread'[d].ref].outcome \in seen'[d]
    BY DEF HeardInTime
  <2>1. call[d] = call'[d]
    BY <1>1
  <2>2. \A p \in Recent' : Useful(p, call'[d]) => p.kind \in seen'[d]
    BY <2>1, <1>10, <1>11
  <2>3. CASE d = c
    BY <2>1, <2>2, <2>3, <1>3, <1>4, <1>11, <1>12
  <2>4. CASE d # c /\ thread[d].ref = f
    <3>1. thread[d].at \notin {"ask", "land", "wake"} /\ thread'[d] = thread[d]
      BY <2>4, <1>2, <1>3, <1>7, NoneApart DEF Leads
    <3>2. (Answers(d))' => Useful(o, call[d])
      BY <2>1, <2>4, <3>1, <1>4, <1>6 DEF Answers
    <3>3. thread[d].at = "result" => thread[d].got \in seen[d]
      BY <2>1 DEF Core, HeardInTime
    <3>4. QED
      BY <2>1, <2>2, <2>4, <3>1, <3>2, <3>3, <1>4, <1>11
  <2>5. CASE d # c /\ thread[d].ref # f
    <3>1. thread'[d] = thread[d]
      BY <2>5, <1>3
    <3>2. thread[d].at = "wait" => (Answers(d))' = Answers(d)
      BY <2>1, <2>5, <3>1, <1>9 DEF Answers, Core, Tied
    <3>3. QED
      BY <2>1, <2>2, <2>5, <3>1, <3>2, <1>9, <1>11 DEF Core, HeardInTime, Tied
  <2>6. QED
    BY <2>3, <2>4, <2>5
<1>19. QED
  BY <1>10, <1>13, <1>14, <1>15, <1>16, <1>17, <1>18 DEF Core

(***************************************************************************)
(* FlightInv is inductive.                                                 *)
(***************************************************************************)
LEMMA InitInv == Init => FlightInv
<1> SUFFICES ASSUME Init PROVE FlightInv
  OBVIOUS
<1>1. Typed
  BY NoFlightType, AtType, NoneApart DEF Init, Typed, Places
<1>2. \A c \in Callers : thread[c].at = "idle" /\ call[c] = None
  BY AtType DEF Init, Places
<1>3. reg = None /\ \A c \in Callers : ~Leads(c)
  BY <1>2 DEF Init, Leads
<1>4. Core
  BY <1>2, <1>3 DEF Core, Tied, LeaderFlies, SoleLeader, RegisteredIsLed, SomebodyWakes, HeardInTime
<1>5. QED
  BY <1>1, <1>4, InvParts

LEMMA EndCore ==
  ASSUME Typed, Core, NEW c \in Callers, NEW kind \in Kinds, End(c, kind)
  PROVE  /\ Core'
         /\ Recent' \in {Recent, Recent \cup {[kind |-> kind, patience |-> call[c].patience]}}
<1>1. CASE thread[c].ref = None
  BY <1>1, EndAloneCore
<1>2. CASE thread[c].ref # None
  BY <1>2, EndLeadCore
<1>3. QED
  BY <1>1, <1>2

\* Only the cache changes, and what was said last.
LEMMA StillCore ==
  ASSUME Core, UNCHANGED <<reg, fl, thread, call, seen>>
  PROVE  Core' /\ Recent' = Recent
<1>1. Recent' = Recent /\ \A c \in Callers : (Answers(c))' = Answers(c)
  BY DEF Recent, Answers
<1>2. HeardInTime'
  BY <1>1 DEF Core, HeardInTime
<1>3. Tied' /\ LeaderFlies' /\ SoleLeader' /\ RegisteredIsLed' /\ SomebodyWakes'
  BY DEF Core, Tied, LeaderFlies, SoleLeader, RegisteredIsLed, SomebodyWakes, Leads
<1>4. QED
  BY <1>1, <1>2, <1>3 DEF Core

LEMMA NextCore == FlightInv /\ [Next]_vars => FlightInv'
<1> SUFFICES ASSUME FlightInv, [Next]_vars PROVE FlightInv'
  OBVIOUS
<1>1. Typed /\ Core
  BY InvParts
<1>2. Typed'
  BY <1>1, TypedStep, TypeOKParts DEF Core
<1>3. ASSUME NEW c \in Callers, NEW r \in Request, Call(c, r) PROVE Core'
  BY <1>1, <1>3, CallCore
<1>4. ASSUME NEW c \in Callers, LookHit(c) PROVE Core'
  BY <1>1, <1>4, ReturnCore DEF LookHit
<1>5. ASSUME NEW c \in Callers, LookMiss(c) PROVE Core'
  BY <1>1, <1>5, LookMissCore
<1>6. ASSUME NEW c \in Callers, NEW f \in Flights, Lead(c, f) PROVE Core'
  BY <1>1, <1>6, LeadCore
<1>7. ASSUME NEW c \in Callers, Join(c) PROVE Core'
  BY <1>1, <1>7, JoinCore
<1>8. ASSUME NEW c \in Callers, Share(c) PROVE Core'
  BY <1>1, <1>8, ShareCore
<1>9. ASSUME NEW c \in Callers, Again(c) \/ Tire(c) PROVE Core'
  BY <1>1, <1>9, AgainCore
<1>10. ASSUME NEW c \in Callers, Rows(c) \/ Refused(c) \/ Outage(c) PROVE Core'
  BY <1>1, <1>10, EndCore DEF Rows, Refused, Outage, Kinds, Promise!Kinds
<1>11. ASSUME NEW c \in Callers, Retry(c) PROVE Core'
  BY <1>1, <1>2, <1>11, RetryCore
<1>12. ASSUME NEW c \in Callers, Land(c) PROVE Core'
  BY <1>1, <1>12, LandCore
<1>13. ASSUME NEW c \in Callers, Wake(c) PROVE Core'
  BY <1>1, <1>13, WakeCore
<1>14. ASSUME NEW c \in Callers, Result(c) PROVE Core'
  BY <1>1, <1>14, ReturnCore DEF Result
<1>15. ASSUME Expire PROVE Core'
  BY <1>1, <1>15, StillCore DEF Expire, Mute
<1>16. ASSUME UNCHANGED vars PROVE Core'
  BY <1>1, <1>16, StillCore DEF vars
<1>17. ASSUME NEW c \in Callers, Step(c) PROVE Core'
  BY <1>4, <1>5, <1>6, <1>7, <1>8, <1>9, <1>10, <1>11, <1>12, <1>13, <1>14, <1>17 DEF Step
<1>18. Core'
  BY <1>3, <1>15, <1>16, <1>17 DEF Next
<1>19. TypeOK'
  BY <1>2, <1>18 DEF TypeOK, Typed, Core, Tied
<1>20. QED
  BY <1>18, <1>19 DEF FlightInv, Core

\* The strengthened invariant holds of every behaviour of crtsh.py.
THEOREM FlightsStayInOrder == Spec => []FlightInv
<1>1. Init => FlightInv
  BY InitInv
<1>2. FlightInv /\ [Next]_vars => FlightInv'
  BY NextCore
<1>3. QED
  BY <1>1, <1>2, PTL DEF Spec

\* Types, and fetch_detailed never reads an outcome that is not there.
THEOREM TypeCorrect == Spec => []TypeOK
<1>1. FlightInv => TypeOK
  BY DEF FlightInv
<1>2. QED
  BY <1>1, FlightsStayInOrder, PTL

\* However many scans want the domain, one of those that share asks for it.
THEOREM OneLeaderAsks == Spec => []OneAsks
<1>1. FlightInv => OneAsks
  <2> SUFFICES ASSUME FlightInv, NEW c \in Callers, NEW d \in Callers,
                      thread[c].at = "ask", thread[c].ref # None,
                      thread[d].at = "ask", thread[d].ref # None
               PROVE  c = d
    BY DEF OneAsks
  <2>1. Leads(c) /\ Leads(d)
    BY DEF Leads
  <2>2. thread[c].ref = reg /\ thread[d].ref = reg
    BY <2>1 DEF FlightInv, LeaderFlies
  <2>3. QED
    BY <2>1, <2>2 DEF FlightInv, SoleLeader
<1>2. QED
  BY <1>1, FlightsStayInOrder, PTL

\* Nobody waits for a flight without a leader that will end it.
THEOREM NobodyWaitsInVain == Spec => []SomebodyWakes
<1>1. FlightInv => SomebodyWakes
  BY DEF FlightInv
<1>2. QED
  BY <1>1, FlightsStayInOrder, PTL

(***************************************************************************)
(* Sharing implements the promise of SharedLookup.                         *)
(***************************************************************************)
LEMMA SilentStep ==
  ASSUME Mute, Recent' \subseteq Recent
  PROVE  Promise!SharedNext
  BY DEF Mute, Promise!Silent, Promise!SharedNext

LEMMA EndHeard ==
  ASSUME FlightInv, NEW c \in Callers, NEW kind \in Kinds, End(c, kind)
  PROVE  Promise!SharedNext
<1> DEFINE o == [kind |-> kind, patience |-> call[c].patience]
<1>1. Typed /\ Core
  BY InvParts
<1>2. call[c] \in Request
  BY <1>1, RefType DEF Core, Tied, End
<1>3. o \in Promise!Outcome
  BY <1>2, RequestPatience DEF Promise!Outcome, Kinds, Patience
<1>4. Recent' \in {Recent, Recent \cup {o}}
  BY <1>1, EndCore
<1>5. /\ seen' = [d \in Callers |-> IF call[d] # None /\ Promise!Useful(o, call[d])
                                    THEN seen[d] \cup {o.kind} ELSE seen[d]]
      /\ said' = None
      /\ UNCHANGED call
  BY DEF End, Useful
<1>6. Promise!Heard(o)
  BY <1>4, <1>5 DEF Promise!Heard
<1>7. QED
  BY <1>3, <1>6 DEF Promise!SharedNext

LEMMA ReturnAnswered ==
  ASSUME FlightInv, NEW c \in Callers, NEW answer \in Promise!Answers, Return(c, answer),
         thread[c].at \in {"look", "result"}, Promise!Justified(c, answer)
  PROVE  Promise!SharedNext
<1>1. Typed /\ Core
  BY InvParts
<1>2. call[c] # None
  BY <1>1 DEF Core, Tied
<1>3. Recent' = Recent
  BY <1>1, ReturnCore
<1>4. Promise!Answered(c, answer)
  BY <1>2, <1>3 DEF Return, Promise!Answered
<1>5. QED
  BY <1>4 DEF Promise!SharedNext

LEMMA ResultAnswered ==
  ASSUME FlightInv, NEW c \in Callers, Result(c)
  PROVE  Promise!SharedNext
<1>1. Typed /\ Core /\ thread[c].at = "result"
  BY InvParts DEF Result
<1>2. thread[c].got \in Kinds /\ thread[c].got \in seen[c]
  BY <1>1, RefType DEF Core, Tied, HeardInTime
<1>3. CASE thread[c].got = "rows" /\ Return(c, "rows")
  BY <1>1, <1>2, <1>3, ReturnAnswered DEF Promise!Answers, Promise!Justified
<1>4. CASE MayFallBack(c) /\ Return(c, "stale")
  BY <1>1, <1>2, <1>4, ReturnAnswered DEF Promise!Answers, Promise!Justified, MayFallBack
<1>5. CASE thread[c].got # "rows" /\ ~MayFallBack(c) /\ Return(c, "failed")
  <2>1. thread[c].got \in {"refused", "outage"}
    BY <1>2, <1>5 DEF Kinds, Promise!Kinds
  <2>2. Promise!Justified(c, "failed")
    BY <1>2, <2>1 DEF Promise!Justified
  <2>3. QED
    BY <1>1, <1>5, <2>2, ReturnAnswered DEF Promise!Answers
<1>6. QED
  BY <1>3, <1>4, <1>5 DEF Result

LEMMA StepKeepsPromise == FlightInv /\ [Next]_vars => [Promise!SharedNext]_(Promise!shared)
<1> SUFFICES ASSUME FlightInv, [Next]_vars PROVE [Promise!SharedNext]_(Promise!shared)
  OBVIOUS
<1>1. Typed /\ Core
  BY InvParts
<1>2. Typed'
  BY <1>1, TypedStep, TypeOKParts DEF Core
<1>3. ASSUME NEW c \in Callers, NEW r \in Request, Call(c, r) PROVE Promise!SharedNext
  <2>1. call[c] = None
    BY <1>1, <1>3 DEF Core, Tied, Call
  <2>2. Recent' = Recent
    BY <1>1, <1>3, CallCore
  <2>3. Promise!Asks(c, r)
    BY <1>3, <2>1, <2>2 DEF Call, Useful, Promise!Asks
  <2>4. QED
    BY <2>3 DEF Request, Promise!SharedNext
<1>4. ASSUME NEW c \in Callers, LookHit(c) PROVE Promise!SharedNext
  BY <1>4, ReturnAnswered DEF LookHit, Promise!Answers, Promise!Justified
<1>5. ASSUME NEW c \in Callers, Rows(c) \/ Refused(c) \/ Outage(c) PROVE Promise!SharedNext
  BY <1>5, EndHeard DEF Rows, Refused, Outage, Kinds, Promise!Kinds
<1>6. ASSUME NEW c \in Callers, Result(c) PROVE Promise!SharedNext
  BY <1>6, ResultAnswered
<1>7. ASSUME NEW c \in Callers, LookMiss(c) PROVE Promise!SharedNext
  BY <1>1, <1>7, LookMissCore, SilentStep DEF LookMiss
<1>8. ASSUME NEW c \in Callers, NEW f \in Flights, Lead(c, f) PROVE Promise!SharedNext
  BY <1>1, <1>8, LeadCore, SilentStep DEF Lead
<1>9. ASSUME NEW c \in Callers, Join(c) PROVE Promise!SharedNext
  BY <1>1, <1>9, JoinCore, SilentStep DEF Join
<1>10. ASSUME NEW c \in Callers, Share(c) PROVE Promise!SharedNext
  BY <1>1, <1>10, ShareCore, SilentStep DEF Share, LetGo
<1>11. ASSUME NEW c \in Callers, Again(c) \/ Tire(c) PROVE Promise!SharedNext
  BY <1>1, <1>11, AgainCore, SilentStep DEF Again, Tire, LetGo
<1>12. ASSUME NEW c \in Callers, Retry(c) PROVE Promise!SharedNext
  BY <1>1, <1>2, <1>12, RetryCore, SilentStep DEF Retry
<1>13. ASSUME NEW c \in Callers, Land(c) PROVE Promise!SharedNext
  BY <1>1, <1>13, LandCore, SilentStep DEF Land
<1>14. ASSUME NEW c \in Callers, Wake(c) PROVE Promise!SharedNext
  BY <1>1, <1>14, WakeCore, SilentStep DEF Wake
<1>15. ASSUME Expire PROVE Promise!SharedNext
  BY <1>1, <1>15, StillCore, SilentStep DEF Expire, Mute
<1>16. CASE UNCHANGED vars
  BY <1>1, <1>16, StillCore DEF vars, Promise!shared
<1>17. ASSUME NEW c \in Callers, Step(c) PROVE Promise!SharedNext
  BY <1>4, <1>5, <1>6, <1>7, <1>8, <1>9, <1>10, <1>11, <1>12, <1>13, <1>14, <1>17 DEF Step
<1>18. QED
  BY <1>3, <1>15, <1>16, <1>17 DEF Next

\* What fetch_detailed tells a caller is what an unshared lookup might: no
\* cached answer for one that insists, no failure of a hastier caller.
THEOREM SharingKeepsThePromise == Spec => PromiseKept
<1>1. Init => Promise!SharedInit
  BY DEF Init, Promise!SharedInit, Recent
<1>2. FlightInv /\ [Next]_vars => [Promise!SharedNext]_(Promise!shared)
  BY StepKeepsPromise
<1>3. QED
  BY <1>1, <1>2, FlightsStayInOrder, PTL DEF Spec, PromiseKept, Promise!SharedSpec
=============================================================================
