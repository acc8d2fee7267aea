----------------------------- MODULE OfficeProof -----------------------------
(***************************************************************************)
(* Proofs about what the people of an office do with the program: accepted *)
(* risks (RiskAcceptance) and proofs of ownership (DomainOwnership), for   *)
(* every number of readers, deciders, checkers, hosts and zones.           *)
(***************************************************************************)
EXTENDS RiskAcceptance, DomainOwnership, Accounts, AuditLog, PortfolioUnits, DataLemmas, FiniteSetTheorems

(***************************************************************************)
(* PART I: RiskAcceptance                                                  *)
(***************************************************************************)
\* What a reader has queried is what was decided, unless a decision came
\* after; so is the memory, once the decider has emptied it.
QueriedIsDecided ==
    \A r \in Readers :
        reading[r].phase = "queried" /\ ~reading[r].past => reading[r].rows = Active(reading[r].day)

MemoryIsDecided ==
    deciding = {} /\ memory.day = date /\ ~memory.past => memory.rows = Active(date)

\* Nobody has rows of a day to come.
DaysPast == memory.day <= date /\ \A r \in Readers : reading[r].day <= date

RiskInv == RiskTypeOK /\ QueriedIsDecided /\ MemoryIsDecided /\ DaysPast

LEMMA ReaderOf ==
    ASSUME NEW row \in Reading
    PROVE  /\ \A p \in BOOLEAN : [row EXCEPT !.past = p] \in Reading
           /\ \A rows \in SUBSET (1..MaxAcceptances) :
                 [[row EXCEPT !.phase = "queried"] EXCEPT !.rows = rows] \in Reading
BY DEF Reading

LEMMA ReaderMarked ==
    ASSUME NEW row \in Reading, NEW p \in BOOLEAN, NEW marked, marked = [row EXCEPT !.past = p]
    PROVE  /\ marked \in Reading /\ (marked.past <=> p) /\ marked.phase = row.phase
           /\ marked.day = row.day /\ marked.rows = row.rows
<1>1. CASE p = TRUE
  BY <1>1 DEF Reading
<1>2. CASE p = FALSE
  BY <1>2 DEF Reading
<1>3. QED
  BY <1>1, <1>2

LEMMA ReaderTyped == NotReading \in Reading
BY RiskConstants DEF NotReading, Reading

LEMMA RiskInitInv == RiskInit => RiskInv
<1> SUFFICES ASSUME RiskInit PROVE RiskInv
  OBVIOUS
<1> USE RiskConstants
<1>1. DOMAIN exceptions \in {1..n : n \in 0..MaxAcceptances} /\ \A i \in DOMAIN exceptions : exceptions[i] \in Acceptance
  <2>1. DOMAIN exceptions = {} /\ 0 \in 0..MaxAcceptances /\ 1..0 = {}
    BY DEF RiskInit
  <2>2. QED
    BY <2>1
<1>2. memory \in Memory /\ memory.day <= date
  BY DEF RiskInit, Memory, NoDate
<1>3. reading \in [Readers -> Reading] /\ \A r \in Readers : reading[r].phase = "idle" /\ reading[r].day = 0
  BY ReaderTyped DEF RiskInit, NotReading
<1>4. RiskTypeOK
  BY <1>1, <1>2, <1>3 DEF RiskInit, RiskTypeOK
<1>5. QueriedIsDecided /\ DaysPast
  BY <1>2, <1>3 DEF QueriedIsDecided, DaysPast, RiskInit
<1>6. MemoryIsDecided
  BY DEF RiskInit, MemoryIsDecided, NoDate
<1>7. QED
  BY <1>4, <1>5, <1>6 DEF RiskInv

LEMMA ActiveTyped ==
    ASSUME RiskTypeOK, NEW day
    PROVE  Active(day) \in SUBSET (1..MaxAcceptances)
<1>1. PICK n \in 0..MaxAcceptances : DOMAIN exceptions = 1..n
  BY DEF RiskTypeOK
<1>2. QED
  BY <1>1, RiskConstants DEF Active

\* After a decision every reader that has queried is overtaken, and the one
\* who decided has yet to empty the memory.
LEMMA DecisionInv ==
    ASSUME RiskInv, NEW d \in Deciders, deciding' = deciding \cup {d}, reading' = Overtaken,
           UNCHANGED <<memory, date>>,
           DOMAIN exceptions' \in {1..n : n \in 0..MaxAcceptances},
           \A i \in DOMAIN exceptions' : exceptions'[i] \in Acceptance
    PROVE  RiskInv'
<1>1. reading \in [Readers -> Reading]
  BY DEF RiskInv, RiskTypeOK
<1>2. \A r \in Readers : reading'[r] = [reading[r] EXCEPT !.past = (reading[r].phase = "queried")]
  BY DEF Overtaken
<1>3. \A r \in Readers : reading'[r] \in Reading /\ reading'[r].phase = reading[r].phase
                         /\ reading'[r].day = reading[r].day /\ reading'[r].rows = reading[r].rows
                         /\ (reading'[r].past <=> reading[r].phase = "queried")
  <2> SUFFICES ASSUME NEW r \in Readers
               PROVE  /\ reading'[r] \in Reading /\ reading'[r].phase = reading[r].phase
                      /\ reading'[r].day = reading[r].day /\ reading'[r].rows = reading[r].rows
                      /\ (reading'[r].past <=> reading[r].phase = "queried")
    OBVIOUS
  <2> DEFINE p == reading[r].phase = "queried"
  <2>1. p \in BOOLEAN /\ reading[r] \in Reading
    BY <1>1
  <2>2. reading'[r] = [reading[r] EXCEPT !.past = p]
    BY <1>2
  <2> HIDE DEF p
  <2>3. /\ reading'[r] \in Reading /\ reading'[r].phase = reading[r].phase
        /\ reading'[r].day = reading[r].day /\ reading'[r].rows = reading[r].rows /\ (reading'[r].past <=> p)
    <3> DEFINE row == reading[r]
    <3> DEFINE marked == reading'[r]
    <3>1. row \in Reading /\ p \in BOOLEAN /\ marked = [row EXCEPT !.past = p]
      BY <2>1, <2>2
    <3> HIDE DEF row, marked
    <3>2. /\ marked \in Reading /\ (marked.past <=> p) /\ marked.phase = row.phase
          /\ marked.day = row.day /\ marked.rows = row.rows
      BY <3>1, ReaderMarked
    <3>3. QED
      BY <3>2 DEF row, marked
  <2>4. QED
    BY <2>3 DEF p
<1>4. reading' \in [Readers -> Reading]
  BY <1>3 DEF Overtaken
<1>5. RiskTypeOK'
  BY <1>4 DEF RiskInv, RiskTypeOK
<1>6. QueriedIsDecided'
  BY <1>3 DEF QueriedIsDecided
<1>7. MemoryIsDecided'
  BY DEF MemoryIsDecided
<1>8. DaysPast'
  BY <1>3 DEF RiskInv, DaysPast
<1>9. QED
  BY <1>5, <1>6, <1>7, <1>8 DEF RiskInv

LEMMA RiskNextInv ==
    ASSUME RiskInv, [RiskNext]_riskVars
    PROVE  RiskInv'
<1> USE RiskConstants
<1>0. /\ RiskTypeOK /\ reading \in [Readers -> Reading] /\ memory \in Memory /\ date \in 0..MaxDate
      /\ DaysPast /\ QueriedIsDecided /\ MemoryIsDecided
  BY DEF RiskInv, RiskTypeOK
<1>1. ASSUME NEW d \in Deciders, Accept(d) PROVE RiskInv'
  <2>1. PICK h \in Hosts, k \in Keys, e \in date..(date + MaxDuration) :
           LET n == Cardinality(DOMAIN exceptions) + 1 IN
           exceptions' = [i \in 1..n |-> IF i = n THEN [host |-> h, key |-> k, expires |-> e, revoked |-> FALSE]
                                         ELSE exceptions[i]]
    BY <1>1 DEF Accept
  <2>2. PICK m \in 0..MaxAcceptances : DOMAIN exceptions = 1..m
    BY <1>0 DEF RiskTypeOK
  <2>3. Cardinality(DOMAIN exceptions) = m
    BY <2>2, FS_Interval
  <2>4. m + 1 \in 0..MaxAcceptances
    BY <1>1, <2>2, <2>3 DEF Accept
  <2>5. [host |-> h, key |-> k, expires |-> e, revoked |-> FALSE] \in Acceptance
    BY <1>0 DEF Acceptance
  <2>6. DOMAIN exceptions' = 1..(m + 1) /\ \A i \in 1..(m + 1) : exceptions'[i] \in Acceptance
    BY <1>0, <2>1, <2>2, <2>3, <2>5 DEF RiskTypeOK
  <2>7. DOMAIN exceptions' \in {1..n : n \in 0..MaxAcceptances}
    BY <2>4, <2>6
  <2>8. QED
    BY <1>1, <2>6, <2>7, DecisionInv DEF Accept
<1>2. ASSUME NEW d \in Deciders, NEW i \in DOMAIN exceptions, Revoke(d, i) PROVE RiskInv'
  <2>1. exceptions' = [exceptions EXCEPT ![i] = [exceptions[i] EXCEPT !.revoked = TRUE]]
    BY <1>2 DEF Revoke
  <2>2. DOMAIN exceptions' = DOMAIN exceptions
    BY <2>1
  <2>3. [exceptions[i] EXCEPT !.revoked = TRUE] \in Acceptance
    BY <1>0, <1>2 DEF RiskTypeOK, Acceptance
  <2>4. \A j \in DOMAIN exceptions' : exceptions'[j] \in Acceptance
    BY <1>0, <2>1, <2>2, <2>3 DEF RiskTypeOK
  <2>5. DOMAIN exceptions' \in {1..n : n \in 0..MaxAcceptances}
    BY <1>0, <2>2 DEF RiskTypeOK
  <2>6. QED
    BY <1>2, <2>4, <2>5, DecisionInv DEF Revoke
<1>3. ASSUME NEW d \in Deciders, Invalidate(d) PROVE RiskInv'
  <2>1. memory' \in Memory /\ memory'.day = NoDate
    BY <1>0, <1>3 DEF Invalidate, Memory, NoDate
  <2>2. RiskTypeOK'
    BY <1>0, <1>3, <2>1 DEF Invalidate, RiskTypeOK
  <2>3. QueriedIsDecided'
    BY <1>0, <1>3 DEF Invalidate, QueriedIsDecided, Active
  <2>4. DaysPast' /\ MemoryIsDecided'
    BY <1>0, <1>3, <2>1 DEF Invalidate, DaysPast, MemoryIsDecided, NoDate
  <2>5. QED
    BY <2>2, <2>3, <2>4 DEF RiskInv
<1>4. ASSUME NEW r \in Readers, LookUp(r) PROVE RiskInv'
  <2> DEFINE row == [NotReading EXCEPT !.phase = "empty", !.day = date]
  <2>1. row \in Reading /\ row.phase = "empty" /\ row.day = date
    BY <1>0 DEF NotReading, Reading
  <2>2. reading' \in [Readers -> Reading] /\ \A q \in Readers : reading'[q] = IF q = r THEN row ELSE reading[q]
    BY <1>0, <1>4, <2>1 DEF LookUp
  <2>3. RiskTypeOK'
    BY <1>0, <1>4, <2>2 DEF LookUp, RiskTypeOK
  <2>4. QueriedIsDecided' /\ DaysPast'
    BY <1>0, <1>4, <2>1, <2>2 DEF LookUp, QueriedIsDecided, DaysPast, Active
  <2>5. MemoryIsDecided'
    BY <1>0, <1>4 DEF LookUp, MemoryIsDecided, Active
  <2>6. QED
    BY <2>3, <2>4, <2>5 DEF RiskInv
<1>5. ASSUME NEW r \in Readers, Query(r) PROVE RiskInv'
  <2> DEFINE row == [[reading[r] EXCEPT !.phase = "queried"] EXCEPT !.rows = Active(reading[r].day)]
  <2>1. reading' = [reading EXCEPT ![r] = row]
    BY <1>0, <1>5 DEF Query
  <2>2. row \in Reading
    BY <1>0, ActiveTyped, ReaderOf
  <2>3. row.day = reading[r].day /\ row.rows = Active(reading[r].day)
    BY <1>0 DEF Reading
  <2> HIDE DEF row
  <2>4. reading' \in [Readers -> Reading] /\ \A q \in Readers : reading'[q] = IF q = r THEN row ELSE reading[q]
    BY <1>0, <2>1, <2>2
  <2>5. RiskTypeOK'
    BY <1>0, <1>5, <2>4 DEF Query, RiskTypeOK
  <2>6. QueriedIsDecided' /\ DaysPast'
    BY <1>0, <1>5, <2>3, <2>4 DEF Query, QueriedIsDecided, DaysPast, Active
  <2>7. MemoryIsDecided'
    BY <1>0, <1>5 DEF Query, MemoryIsDecided, Active
  <2>8. QED
    BY <2>5, <2>6, <2>7 DEF RiskInv
<1>6. ASSUME NEW r \in Readers, Keep(r) PROVE RiskInv'
  <2>1. memory' \in Memory /\ memory'.day <= date
    BY <1>0, <1>6 DEF Keep, Memory, Reading, NoDate, DaysPast
  <2>2. reading' \in [Readers -> Reading] /\ \A q \in Readers : reading'[q] = IF q = r THEN NotReading ELSE reading[q]
    BY <1>0, <1>6, ReaderTyped DEF Keep
  <2>3. RiskTypeOK'
    BY <1>0, <1>6, <2>1, <2>2 DEF Keep, RiskTypeOK
  <2>4. QueriedIsDecided' /\ DaysPast'
    BY <1>0, <1>6, <2>1, <2>2 DEF Keep, QueriedIsDecided, DaysPast, Active, NotReading
  <2>5. MemoryIsDecided'
    BY <1>0, <1>6 DEF Keep, MemoryIsDecided, QueriedIsDecided, Active
  <2>6. QED
    BY <2>3, <2>4, <2>5 DEF RiskInv
<1>7. ASSUME NextDate PROVE RiskInv'
  <2>1. RiskTypeOK'
    BY <1>0, <1>7 DEF NextDate, RiskTypeOK
  <2>2. QueriedIsDecided'
    BY <1>0, <1>7 DEF NextDate, QueriedIsDecided, Active
  <2>3. DaysPast' /\ MemoryIsDecided'
    BY <1>0, <1>7 DEF NextDate, DaysPast, MemoryIsDecided, Memory, Reading, NoDate
  <2>4. QED
    BY <2>1, <2>2, <2>3 DEF RiskInv
<1>8. ASSUME UNCHANGED riskVars PROVE RiskInv'
  BY <1>8 DEF riskVars, RiskInv, RiskTypeOK, QueriedIsDecided, MemoryIsDecided, DaysPast, Active
<1>9. QED
  BY <1>1, <1>2, <1>3, <1>4, <1>5, <1>6, <1>7, <1>8 DEF RiskNext

\* Once nobody is between a decision and emptying the memory, what counts as
\* accepted is what is decided (risk_acceptance.apply).
THEOREM AcceptedAsDecided == RiskSpec => []AcceptedIsDecided
<1>1. RiskInv => AcceptedIsDecided
  BY DEF RiskInv, MemoryIsDecided, AcceptedIsDecided, Accepted
<1>2. QED
  BY RiskInitInv, RiskNextInv, <1>1, PTL DEF RiskSpec
(***************************************************************************)
(* PART II: DomainOwnership                                                *)
(***************************************************************************)
\* An entry of status verified was verified on an administrator's word, with
\* its own token found, or it is one of those made again meanwhile.
VerifiedOnProof ==
    \A z \in Zones : proof[z].status = "verified" =>
        proof[z].method = "admin" \/ z \in swapped \/ proof[z].seen = proof[z].token

\* What a check found is the token it had read.
FoundOwnToken == \A c \in Checkers : checking[c].phase = "found" => checking[c].seen = checking[c].token

OwnershipInv == OwnershipTypeOK /\ VerifiedOnProof /\ FoundOwnToken

LEMMA ProofTyped ==
    /\ NoProof \in Proof
    /\ \A t \in 0..MaxTokens, s \in {"none", "pending", "verified"} :
          LET row == [NoProof EXCEPT !.status = s, !.token = t] IN row \in Proof /\ row.status = s
<1> USE OwnershipConstants
<1>1. NoProof \in Proof
  BY DEF NoProof, Proof, NoToken
<1>2. QED
  BY <1>1 DEF Proof

LEMMA CheckTyped ==
    /\ NotChecking \in Checking /\ NotChecking.phase = "idle"
    /\ \A z \in Zones, t \in 0..MaxTokens :
          LET row == [NotChecking EXCEPT !.phase = "read", !.zone = z, !.token = t] IN
          row \in Checking /\ row.phase = "read"
<1> USE OwnershipConstants
<1>1. (CHOOSE z \in Zones : TRUE) \in Zones
  OBVIOUS
<1>2. NotChecking \in Checking /\ NotChecking.phase = "idle"
  BY <1>1 DEF NotChecking, Checking, NoToken
<1>3. QED
  BY <1>2 DEF Checking

LEMMA CheckMoved ==
    ASSUME NEW row \in Checking
    PROVE  /\ \A p \in {"dns", "failed"} : [row EXCEPT !.phase = p] \in Checking /\ [row EXCEPT !.phase = p].phase = p
           /\ \A m \in {"dns", "http"}, t \in 0..MaxTokens :
                 LET moved == [[[row EXCEPT !.phase = "found"] EXCEPT !.method = m] EXCEPT !.seen = t] IN
                 moved \in Checking /\ moved.seen = t /\ moved.token = row.token
BY DEF Checking

\* A step that changes one check, and none of the entries.
LEMMA OneChecks ==
    ASSUME OwnershipInv, NEW c \in Checkers, NEW row \in Checking, checking' = [checking EXCEPT ![c] = row],
           row.phase = "found" => row.seen = row.token,
           UNCHANGED <<proof, tokens, placed, year, swapped>>
    PROVE  OwnershipInv'
<1>1. checking' \in [Checkers -> Checking] /\ \A q \in Checkers : checking'[q] = IF q = c THEN row ELSE checking[q]
  BY DEF OwnershipInv, OwnershipTypeOK
<1>2. OwnershipTypeOK'
  BY <1>1 DEF OwnershipInv, OwnershipTypeOK
<1>3. VerifiedOnProof' /\ FoundOwnToken'
  BY <1>1 DEF OwnershipInv, VerifiedOnProof, FoundOwnToken
<1>4. QED
  BY <1>2, <1>3 DEF OwnershipInv

\* A step that changes one entry.
LEMMA OneEntry ==
    ASSUME OwnershipInv, NEW z \in Zones, NEW row \in Proof, proof' = [proof EXCEPT ![z] = row],
           row.status = "verified" => row.method = "admin" \/ z \in swapped' \/ row.seen = row.token,
           tokens' \in 0..MaxTokens, swapped' \in SUBSET Zones, swapped \ {z} \subseteq swapped',
           UNCHANGED <<placed, year>>, checking' \in [Checkers -> Checking], FoundOwnToken'
    PROVE  OwnershipInv'
<1>1. proof' \in [Zones -> Proof] /\ \A y \in Zones : proof'[y] = IF y = z THEN row ELSE proof[y]
  BY DEF OwnershipInv, OwnershipTypeOK
<1>2. OwnershipTypeOK'
  BY <1>1 DEF OwnershipInv, OwnershipTypeOK
<1>3. VerifiedOnProof'
  <2> SUFFICES ASSUME NEW y \in Zones, proof'[y].status = "verified"
               PROVE  proof'[y].method = "admin" \/ y \in swapped' \/ proof'[y].seen = proof'[y].token
    BY DEF VerifiedOnProof
  <2>1. CASE y = z
    BY <1>1, <2>1
  <2>2. CASE y # z
    BY <1>1, <2>2 DEF OwnershipInv, VerifiedOnProof
  <2>3. QED
    BY <2>1, <2>2
<1>4. QED
  BY <1>2, <1>3 DEF OwnershipInv

LEMMA OwnershipInitInv == OwnershipInit => OwnershipInv
<1> SUFFICES ASSUME OwnershipInit PROVE OwnershipInv
  OBVIOUS
<1>1. OwnershipTypeOK
  <2>1. 0 \in 0..MaxTokens /\ 0 \in 0..MaxYears
    BY OwnershipConstants
  <2>2. QED
    BY <2>1, ProofTyped, CheckTyped DEF OwnershipInit, OwnershipTypeOK, NoToken
<1>2. \A z \in Zones : proof[z].status = "none"
  BY DEF OwnershipInit, NoProof
<1>3. \A c \in Checkers : checking[c].phase = "idle"
  BY CheckTyped DEF OwnershipInit
<1>4. QED
  BY <1>1, <1>2, <1>3 DEF OwnershipInv, VerifiedOnProof, FoundOwnToken

\* An entry that is asked for is there afterwards, and a new one is pending.
LEMMA RequestedInv ==
    ASSUME OwnershipInv, NEW z \in Zones, Requested(z),
           UNCHANGED <<placed, year, swapped>>, checking' \in [Checkers -> Checking], FoundOwnToken'
    PROVE  OwnershipInv' /\ proof'[z].token \in 0..MaxTokens
<1> USE OwnershipConstants
<1>0. proof \in [Zones -> Proof] /\ tokens \in 0..MaxTokens /\ swapped \subseteq Zones
  BY DEF OwnershipInv, OwnershipTypeOK
<1>1. CASE proof[z].status # "none"
  <2>1. proof' = proof /\ tokens' = tokens
    BY <1>1 DEF Requested
  <2>2. OwnershipTypeOK' /\ VerifiedOnProof'
    BY <2>1 DEF OwnershipInv, OwnershipTypeOK, VerifiedOnProof
  <2>3. proof'[z].token \in 0..MaxTokens
    BY <1>0, <2>1 DEF Proof
  <2>4. QED
    BY <2>2, <2>3 DEF OwnershipInv
<1>2. CASE proof[z].status = "none"
  <2> DEFINE row == [NoProof EXCEPT !.status = "pending", !.token = tokens + 1]
  <2>1. tokens' = tokens + 1 /\ tokens + 1 \in 0..MaxTokens /\ proof' = [proof EXCEPT ![z] = row]
    BY <1>0, <1>2 DEF Requested
  <2>2. row \in Proof /\ row.status = "pending"
    BY <2>1, ProofTyped
  <2> HIDE DEF row
  <2>3. OwnershipInv'
    BY <1>0, <2>1, <2>2, OneEntry
  <2>4. proof'[z] = row
    BY <1>0, <2>1
  <2>5. row.token \in 0..MaxTokens
    BY <2>2 DEF Proof
  <2>6. QED
    BY <2>3, <2>4, <2>5
<1>3. QED
  BY <1>1, <1>2

LEMMA OwnershipNextInv ==
    ASSUME OwnershipInv, [OwnershipNext]_ownershipVars
    PROVE  OwnershipInv'
<1> USE OwnershipConstants
<1>0. /\ OwnershipTypeOK /\ VerifiedOnProof /\ FoundOwnToken /\ proof \in [Zones -> Proof]
      /\ tokens \in 0..MaxTokens /\ placed \in [Zones -> 0..MaxTokens] /\ checking \in [Checkers -> Checking]
      /\ year \in 0..MaxYears /\ swapped \subseteq Zones
  BY DEF OwnershipInv, OwnershipTypeOK
<1>1. ASSUME NEW z \in Zones, RequestVerification(z) PROVE OwnershipInv'
  <2>1. FoundOwnToken'
    BY <1>0, <1>1 DEF RequestVerification, FoundOwnToken
  <2>2. QED
    BY <1>0, <1>1, <2>1, RequestedInv DEF RequestVerification
<1>2. ASSUME NEW z \in Zones, Attest(z) PROVE OwnershipInv'
  <2> DEFINE t == IF proof[z].status = "none" THEN tokens + 1 ELSE proof[z].token
  <2> DEFINE row == [status |-> "verified", method |-> "admin", verified |-> year, seen |-> NoToken, token |-> t]
  <2>1. t \in 0..MaxTokens /\ tokens' \in 0..MaxTokens
    BY <1>0, <1>2 DEF Attest, Proof
  <2>2. proof' = [proof EXCEPT ![z] = row]
    BY <1>0, <1>2 DEF Attest
  <2> HIDE DEF t
  <2>3. row \in Proof /\ row.method = "admin"
    BY <1>0, <2>1 DEF Proof, NoToken
  <2> HIDE DEF row
  <2>4. FoundOwnToken'
    BY <1>0, <1>2 DEF Attest, FoundOwnToken
  <2>5. QED
    BY <1>0, <1>2, <2>1, <2>2, <2>3, <2>4, OneEntry DEF Attest
<1>3. ASSUME NEW z \in Zones, RevokeProof(z) PROVE OwnershipInv'
  <2>1. FoundOwnToken' /\ NoProof.status = "none"
    BY <1>0, <1>3 DEF RevokeProof, FoundOwnToken, NoProof
  <2>2. QED
    BY <1>0, <1>3, <2>1, OneEntry, ProofTyped DEF RevokeProof
<1>4. ASSUME NEW z \in Zones, Place(z) PROVE OwnershipInv'
  <2>1. placed' \in [Zones -> 0..MaxTokens]
    BY <1>0, <1>4 DEF Place
  <2>2. OwnershipTypeOK' /\ VerifiedOnProof' /\ FoundOwnToken'
    BY <1>0, <1>4, <2>1 DEF Place, OwnershipTypeOK, VerifiedOnProof, FoundOwnToken
  <2>3. QED
    BY <2>2 DEF OwnershipInv
<1>5. ASSUME NEW c \in Checkers, ProbeDns(c) PROVE OwnershipInv'
  <2> DEFINE was == checking[c]
  <2> DEFINE t == placed[checking[c].zone]
  <2> DEFINE found == [[[was EXCEPT !.phase = "found"] EXCEPT !.method = "dns"] EXCEPT !.seen = t]
  <2>1. was \in Checking /\ t \in 0..MaxTokens
    BY <1>0 DEF Checking
  <2>0. found \in Checking /\ found.seen = t /\ found.token = was.token
    <3> HIDE DEF was, t
    <3>1. QED
      BY <2>1, CheckMoved
  <2>2. CASE Found(c) /\ checking' = [checking EXCEPT ![c] = found]
    <3>1. found \in Checking /\ found.seen = found.token
      BY <2>0, <2>2 DEF Found
    <3> HIDE DEF found
    <3>2. QED
      BY <1>5, <2>2, <3>1, OneChecks DEF ProbeDns
  <2>3. CASE checking' = [checking EXCEPT ![c] = [checking[c] EXCEPT !.phase = "dns"]]
    BY <1>5, <2>1, <2>3, CheckMoved, OneChecks DEF ProbeDns
  <2>4. QED
    BY <1>0, <1>5, <2>2, <2>3 DEF ProbeDns
<1>6. ASSUME NEW c \in Checkers, ProbeHttp(c) PROVE OwnershipInv'
  <2> DEFINE was == checking[c]
  <2> DEFINE t == placed[checking[c].zone]
  <2> DEFINE found == [[[was EXCEPT !.phase = "found"] EXCEPT !.method = "http"] EXCEPT !.seen = t]
  <2>1. was \in Checking /\ t \in 0..MaxTokens
    BY <1>0 DEF Checking
  <2>0. found \in Checking /\ found.seen = t /\ found.token = was.token
    <3> HIDE DEF was, t
    <3>1. QED
      BY <2>1, CheckMoved
  <2>2. CASE Found(c) /\ checking' = [checking EXCEPT ![c] = found]
    <3>1. found \in Checking /\ found.seen = found.token
      BY <2>0, <2>2 DEF Found
    <3> HIDE DEF found
    <3>2. QED
      BY <1>6, <2>2, <3>1, OneChecks DEF ProbeHttp
  <2>3. CASE checking' = [checking EXCEPT ![c] = [checking[c] EXCEPT !.phase = "failed"]]
    BY <1>6, <2>1, <2>3, CheckMoved, OneChecks DEF ProbeHttp
  <2>4. QED
    BY <1>0, <1>6, <2>2, <2>3 DEF ProbeHttp
<1>7. ASSUME NEW c \in Checkers, WriteCheck(c) PROVE OwnershipInv'
  <2> DEFINE z == checking[c].zone
  <2>1. checking[c] \in Checking /\ z \in Zones
    BY <1>0 DEF Checking
  <2>2. checking' \in [Checkers -> Checking] /\ \A q \in Checkers : checking'[q] = IF q = c THEN NotChecking ELSE checking[q]
    BY <1>0, <1>7, CheckTyped DEF WriteCheck
  <2>3. FoundOwnToken'
    BY <1>0, <2>2, CheckTyped DEF FoundOwnToken
  <2>4. CASE checking[c].phase = "found" /\ proof[z].status # "none"
    <3> DEFINE was == proof[z]
    <3> DEFINE m == checking[c].method
    <3> DEFINE t == checking[c].seen
    <3> DEFINE row == [was EXCEPT !.status = "verified", !.method = m, !.verified = year, !.seen = t]
    <3>1. proof' = [proof EXCEPT ![z] = row] /\ swapped' = IF proof[z].token # checking[c].token THEN swapped \cup {z}
                                                          ELSE swapped \ {z}
      BY <1>0, <1>7, <2>1, <2>4 DEF WriteCheck
    <3>2. checking[c].method \in {"none", "dns", "http"} /\ checking[c].seen \in 0..MaxTokens /\ proof[z] \in Proof
      BY <1>0, <2>1 DEF Checking
    <3>3. row \in Proof /\ row.seen = t /\ row.token = was.token
      <4> DEFINE y == year
      <4>1. was \in Proof /\ m \in {"none", "dns", "http"} /\ t \in 0..MaxTokens /\ y \in 0..MaxYears
        BY <1>0, <3>2
      <4>2. row = [was EXCEPT !.status = "verified", !.method = m, !.verified = y, !.seen = t]
        OBVIOUS
      <4> HIDE DEF was, m, t, y, row
      <4>3. QED
        BY <4>1, <4>2 DEF Proof
    <3>4. checking[c].seen = checking[c].token
      BY <1>0, <2>4 DEF FoundOwnToken
    <3> HIDE DEF row
    <3>5. row.seen = row.token \/ z \in swapped'
      BY <3>1, <3>3, <3>4
    <3>6. swapped' \in SUBSET Zones /\ swapped \ {z} \subseteq swapped'
      BY <1>0, <2>1, <3>1
    <3> HIDE DEF z
    <3>7. QED
      BY <1>0, <1>7, <2>1, <2>2, <2>3, <3>1, <3>3, <3>5, <3>6, OneEntry DEF WriteCheck
  <2>5. CASE ~(checking[c].phase = "found" /\ proof[z].status # "none")
    <3>1. UNCHANGED <<proof, swapped, tokens, placed, year>>
      BY <1>7, <2>5 DEF WriteCheck
    <3>2. OwnershipTypeOK' /\ VerifiedOnProof'
      BY <1>0, <2>2, <3>1 DEF OwnershipTypeOK, VerifiedOnProof
    <3>3. QED
      BY <2>3, <3>2 DEF OwnershipInv
  <2>6. QED
    BY <2>4, <2>5
<1>8. ASSUME NEW c \in Checkers, NEW z \in Zones, BeginCheck(c, z) PROVE OwnershipInv'
  <2> DEFINE row == [NotChecking EXCEPT !.phase = "read", !.zone = z, !.token = proof'[z].token]
  <2>1. proof'[z].token \in 0..MaxTokens
    <3>1. CASE proof[z].status # "none"
      BY <1>0, <1>8, <3>1 DEF BeginCheck, Requested, Proof
    <3>2. CASE proof[z].status = "none"
      <4> DEFINE new == [NoProof EXCEPT !.status = "pending", !.token = tokens + 1]
      <4>1. tokens + 1 \in 0..MaxTokens /\ proof' = [proof EXCEPT ![z] = new]
        BY <1>0, <1>8, <3>2 DEF BeginCheck, Requested
      <4>2. new \in Proof
        BY <4>1, ProofTyped
      <4> HIDE DEF new
      <4>3. QED
        BY <1>0, <4>1, <4>2 DEF Proof
    <3>3. QED
      BY <3>1, <3>2
  <2>2. row \in Checking /\ row.phase = "read"
    BY <2>1, CheckTyped
  <2>3. checking' = [checking EXCEPT ![c] = row]
    BY <1>8 DEF BeginCheck
  <2> HIDE DEF row
  <2>4. checking' \in [Checkers -> Checking] /\ \A q \in Checkers : checking'[q] = IF q = c THEN row ELSE checking[q]
    BY <1>0, <2>2, <2>3
  <2>5. FoundOwnToken'
    BY <1>0, <2>2, <2>4 DEF FoundOwnToken
  <2>6. QED
    BY <1>8, <2>4, <2>5, RequestedInv DEF BeginCheck
<1>9. ASSUME YearPasses PROVE OwnershipInv'
  BY <1>0, <1>9 DEF YearPasses, OwnershipInv, OwnershipTypeOK, VerifiedOnProof, FoundOwnToken
<1>10. ASSUME UNCHANGED ownershipVars PROVE OwnershipInv'
  BY <1>0, <1>10 DEF ownershipVars, OwnershipInv, OwnershipTypeOK, VerifiedOnProof, FoundOwnToken
<1>11. QED
  BY <1>1, <1>2, <1>3, <1>4, <1>5, <1>6, <1>7, <1>8, <1>9, <1>10 DEF OwnershipNext

\* ProbedOnProof: a name is probed on an administrator's word, or on a token
\* found at the entry that covers it within max_age_days, whatever the checks
\* in flight wrote; the entry made again while its token was looked for is
\* the only exception.
THEOREM VerifiedAsProved == OwnershipSpec => []ProbedOnProof
<1>1. ASSUME OwnershipInv PROVE ProbedOnProof
  <2> USE OwnershipConstants
  <2> SUFFICES ASSUME NEW z \in Zones, NEW y \in Below[z], proof[y].status = "verified", ~Expired(y)
               PROVE  \/ proof[y].method = "admin" \/ y \in swapped
                      \/ proof[y].seen = proof[y].token /\ (MaxAge = 0 \/ year - proof[y].verified <= MaxAge)
    BY DEF ProbedOnProof, IsVerified
  <2>1. y \in Zones
    OBVIOUS
  <2>2. year \in Nat /\ proof[y].verified \in Nat /\ MaxAge \in Nat
    BY <1>1, <2>1 DEF OwnershipInv, OwnershipTypeOK, Proof
  <2>3. QED
    BY <1>1, <2>1, <2>2 DEF OwnershipInv, VerifiedOnProof, Expired
<1>2. QED
  BY <1>1, OwnershipInitInv, OwnershipNextInv, PTL DEF OwnershipSpec
(***************************************************************************)
(* PART III: Accounts                                                      *)
(***************************************************************************)
\* Who is signed in, or asks something, has a row, though it may be gone.
KnownAccounts ==
    \A b \in Browsers :
        /\ cookie[b].kind = "user" => users[cookie[b].id].status # "none"
        /\ asking[b].step # "none" => users[asking[b].id].status # "none"

\* The moment a session began, and the one its request is to stamp it with.
Moments(b) == {cookie[b].issued} \cup (IF asking[b].step = "written" THEN {asking[b].stamp} ELSE {})

MomentsPast == \A b \in Browsers : cookie[b].issued <= stamps /\ asking[b].stamp <= stamps

\* A session that was ended began before the moment its account records, if
\* that moment is no longer owed.
EndedBefore ==
    \A b \in Browsers : cookie[b].old =>
        /\ cookie[b].kind = "user"
        /\ \/ users[cookie[b].id].status = "gone" \/ cookie[b].id \in owed
           \/ \A n \in Moments(b) : n < users[cookie[b].id].cutoff

\* The moment a request is about to write ends every session that is to end,
\* unless there were more to end since.
EndsTheOld ==
    \A b, c \in Browsers :
        asking[b].step \in {"others", "all"} /\ ~asking[b].late /\ cookie[c].old /\ cookie[c].id = asking[b].id =>
            \A n \in Moments(c) : n < asking[b].stamp

\* Two requests that end the sessions of one account are both too late.
EndsAlone ==
    \A b, c \in Browsers :
        b # c /\ asking[b].step \in Ends /\ asking[c].step \in Ends /\ asking[b].id = asking[c].id => asking[b].late

\* A replacement is one of the own account, and does not end its own session.
EndsOthers ==
    \A b \in Browsers :
        /\ asking[b].step \in {"replaced", "others", "written"} => asking[b].id = cookie[b].id
        /\ asking[b].step \in {"replaced", "others"} /\ ~asking[b].late => ~cookie[b].old

\* Who confirms an authenticator confirms one of the own account, with the
\* proof it needs unless something was set since.
ConfirmsOwn ==
    \A b \in Browsers : asking[b].step = "confirm" =>
        /\ asking[b].id = cookie[b].id
        /\ asking[b].late \/ users[asking[b].id].secret = NoSecret \/ cookie[b].proved # NoSecret

RolesAsSaid == \A i \in Ids : Exists(i) => users[i].role = said[i]

EndsKept == EndedBefore /\ EndsTheOld /\ EndsAlone /\ EndsOthers

AccountInv == AccountTypeOK /\ KnownAccounts /\ MomentsPast /\ ConfirmsOwn /\ RolesAsSaid /\ EndsKept

\* A session as it was but for the authenticator that is set up.
SameSession(c, was) ==
    c.kind = was.kind /\ c.id = was.id /\ c.issued = was.issued /\ c.old = was.old

\* What a step may do to a row, to a session and to a request.
RowStep(i) ==
    /\ users[i].status # "none" => users'[i].status # "none"
    /\ users[i].status = "gone" => users'[i].status = "gone"
    /\ users[i].status # "none" => users'[i].status = "gone" \/ users[i].cutoff <= users'[i].cutoff
    /\ users'[i].status \in {"on", "off"} => users'[i].role = said'[i]

RowLives(i) ==
    /\ users[i].status # "none" => users'[i].status # "none"
    /\ users'[i].status \in {"on", "off"} => users'[i].role = said'[i]

CookieStep(b) ==
    /\ cookie'[b].issued <= stamps'
    /\ \/ cookie'[b].kind = cookie[b].kind /\ cookie'[b].id = cookie[b].id
       \/ cookie'[b].kind = "user" => users'[cookie'[b].id].status # "none"

SecretKept(i) == users'[i].secret \in {NoSecret, users[i].secret}

AskStep(b) ==
    /\ asking'[b].stamp <= stamps'
    /\ \/ asking'[b].step # "confirm" /\ (asking'[b].step # "none" => users'[asking'[b].id].status # "none")
       \/ /\ asking'[b].step = asking[b].step /\ asking'[b].id = asking[b].id
          /\ cookie'[b].id = cookie[b].id
          /\ \/ asking'[b].late
             \/ asking'[b].late = asking[b].late /\ SecretKept(asking[b].id) /\ cookie'[b].proved = cookie[b].proved
       \/ /\ asking'[b].id = cookie'[b].id /\ users'[asking'[b].id].status # "none"
          /\ users'[asking'[b].id].secret = NoSecret \/ cookie'[b].proved # NoSecret

\* What a step may do that neither begins to end sessions nor goes on with it.
EndsStep(b) ==
    /\ cookie'[b].old => /\ cookie[b].old /\ cookie'[b].kind = cookie[b].kind /\ cookie'[b].id = cookie[b].id
                         /\ Moments(b)' \subseteq Moments(b)
    /\ \/ asking'[b].step \notin Ends \cup {"written"}
       \/ /\ asking'[b].step = asking[b].step /\ asking'[b].id = asking[b].id /\ asking'[b].stamp = asking[b].stamp
          /\ asking'[b].late \/ asking'[b].late = asking[b].late
          /\ cookie'[b].id = cookie[b].id

\* What a step that keeps to these makes of the invariant.
LEMMA KnownStepInv ==
    ASSUME AccountInv, AccountTypeOK', stamps <= stamps',
           \A i \in Ids : RowLives(i), \A b \in Browsers : CookieStep(b) /\ AskStep(b)
    PROVE  KnownAccounts' /\ MomentsPast' /\ ConfirmsOwn' /\ RolesAsSaid'
<1>1. RolesAsSaid'
  BY DEF RolesAsSaid, RowLives, Exists
<1>2. \A b \in Browsers : cookie[b].id \in Ids /\ asking[b].id \in Ids /\ cookie'[b].id \in Ids /\ asking'[b].id \in Ids
  BY DEF AccountInv, AccountTypeOK, Cookie, Asking
<1>3. KnownAccounts'
  <2> SUFFICES ASSUME NEW b \in Browsers
               PROVE  /\ cookie'[b].kind = "user" => users'[cookie'[b].id].status # "none"
                      /\ asking'[b].step # "none" => users'[asking'[b].id].status # "none"
    BY DEF KnownAccounts
  <2>1. cookie'[b].kind = "user" => users'[cookie'[b].id].status # "none"
    BY <1>2 DEF AccountInv, KnownAccounts, CookieStep, RowLives
  <2>2. asking'[b].step # "none" => users'[asking'[b].id].status # "none"
    BY <1>2 DEF AccountInv, KnownAccounts, AskStep, RowLives
  <2>3. QED
    BY <2>1, <2>2
<1>4. MomentsPast'
  BY DEF MomentsPast, CookieStep, AskStep
<1>5. ConfirmsOwn'
  <2> SUFFICES ASSUME NEW b \in Browsers, asking'[b].step = "confirm"
               PROVE  /\ asking'[b].id = cookie'[b].id
                      /\ asking'[b].late \/ users'[asking'[b].id].secret = NoSecret \/ cookie'[b].proved # NoSecret
    BY DEF ConfirmsOwn
  <2>1. QED
    BY DEF AccountInv, ConfirmsOwn, AskStep, SecretKept
<1>6. QED
  BY <1>1, <1>3, <1>4, <1>5

LEMMA EndsStepInv ==
    ASSUME AccountInv, AccountTypeOK', owed \subseteq owed',
           \A i \in Ids : RowStep(i), \A b \in Browsers : EndsStep(b)
    PROVE  EndsKept'
<1>1. \A b \in Browsers : /\ cookie[b].id \in Ids /\ cookie[b].issued \in Int /\ asking[b].stamp \in Int
                          /\ asking[b].late \in BOOLEAN /\ asking'[b].late \in BOOLEAN
  BY DEF AccountInv, AccountTypeOK, Cookie, Asking
<1>2. \A i \in Ids : users[i].cutoff \in Int /\ users'[i].cutoff \in Int
  BY DEF AccountInv, AccountTypeOK, Row
<1>3. ASSUME NEW b \in Browsers, cookie'[b].old
      PROVE  /\ cookie[b].old /\ cookie'[b].kind = cookie[b].kind /\ cookie'[b].id = cookie[b].id
             /\ Moments(b)' \subseteq Moments(b)
  BY <1>3 DEF EndsStep
<1>4. ASSUME NEW b \in Browsers, NEW n \in Moments(b) PROVE n \in Int
  BY <1>1, <1>4 DEF Moments
<1>5. EndedBefore'
  <2> SUFFICES ASSUME NEW b \in Browsers, cookie'[b].old
               PROVE  /\ cookie'[b].kind = "user"
                      /\ \/ users'[cookie'[b].id].status = "gone" \/ cookie'[b].id \in owed'
                         \/ \A n \in Moments(b)' : n < users'[cookie'[b].id].cutoff
    BY DEF EndedBefore
  <2> DEFINE i == cookie[b].id
  <2>1. /\ cookie[b].old /\ cookie'[b].kind = cookie[b].kind /\ cookie'[b].id = i /\ Moments(b)' \subseteq Moments(b)
        /\ i \in Ids
    BY <1>1, <1>3
  <2>2. cookie[b].kind = "user" /\ users[i].status # "none"
        /\ (users[i].status = "gone" \/ i \in owed \/ \A n \in Moments(b) : n < users[i].cutoff)
    BY <2>1 DEF AccountInv, EndsKept, EndedBefore, KnownAccounts
  <2>3. RowStep(i)
    BY <2>1
  <2> HIDE DEF i
  <2>4. CASE users[i].status = "gone" \/ i \in owed \/ users'[i].status = "gone"
    BY <2>1, <2>2, <2>3, <2>4 DEF RowStep
  <2>5. CASE users[i].cutoff <= users'[i].cutoff /\ \A n \in Moments(b) : n < users[i].cutoff
    BY <1>2, <1>4, <2>1, <2>2, <2>5
  <2>6. QED
    BY <2>2, <2>3, <2>4, <2>5 DEF RowStep
<1>6. EndsTheOld'
  <2> SUFFICES ASSUME NEW b \in Browsers, NEW c \in Browsers, asking'[b].step \in {"others", "all"}, ~asking'[b].late,
                      cookie'[c].old, cookie'[c].id = asking'[b].id, NEW n \in Moments(c)'
               PROVE  n < asking'[b].stamp
    BY DEF EndsTheOld
  <2>1. asking[b].step \in {"others", "all"} /\ ~asking[b].late /\ asking[b].id = asking'[b].id
        /\ asking[b].stamp = asking'[b].stamp
    BY <1>1 DEF EndsStep, Ends
  <2>2. cookie[c].old /\ cookie[c].id = cookie'[c].id /\ n \in Moments(c)
    BY <1>3
  <2>3. QED
    BY <2>1, <2>2 DEF AccountInv, EndsKept, EndsTheOld
<1>7. EndsAlone'
  <2> SUFFICES ASSUME NEW b \in Browsers, NEW c \in Browsers, b # c, asking'[b].step \in Ends, asking'[c].step \in Ends,
                      asking'[b].id = asking'[c].id
               PROVE  asking'[b].late
    BY DEF EndsAlone
  <2>1. QED
    BY <1>1 DEF EndsStep, AccountInv, EndsKept, EndsAlone
<1>8. EndsOthers'
  <2> SUFFICES ASSUME NEW b \in Browsers
               PROVE  /\ asking'[b].step \in {"replaced", "others", "written"} => asking'[b].id = cookie'[b].id
                      /\ asking'[b].step \in {"replaced", "others"} /\ ~asking'[b].late => ~cookie'[b].old
    BY DEF EndsOthers
  <2>1. QED
    BY <1>1 DEF EndsStep, Ends, AccountInv, EndsKept, EndsOthers
<1>9. QED
  BY <1>5, <1>6, <1>7, <1>8 DEF EndsKept

LEMMA AccountStepInv ==
    ASSUME AccountInv, AccountTypeOK', stamps <= stamps', owed \subseteq owed',
           \A i \in Ids : RowStep(i), \A b \in Browsers : CookieStep(b) /\ AskStep(b) /\ EndsStep(b)
    PROVE  AccountInv'
<1>1. \A i \in Ids : RowLives(i)
  BY DEF RowStep, RowLives
<1>2. QED
  BY <1>1, KnownStepInv, EndsStepInv DEF AccountInv

\* Rows as they are, or as they were but for what is counted, locked, known
\* or in hand.
Alike(row, was) ==
    row.status = was.status /\ row.role = was.role /\ row.secret = was.secret /\ row.cutoff = was.cutoff

LEMMA RowsTyped ==
    /\ NoRow \in Row /\ NoRow.status = "none" /\ NoRow.secret = NoSecret
    /\ LET row == [NoRow EXCEPT !.status = "gone"] IN row \in Row /\ row.status = "gone" /\ row.secret = NoSecret
<1> USE AccountConstants
<1>1. NoRow \in Row /\ NoRow.status = "none" /\ NoRow.secret = NoSecret
  BY DEF NoRow, Row, NoSecret
<1>2. QED
  BY <1>1 DEF Row

LEMMA RowCounted ==
    ASSUME NEW row \in Row
    PROVE  /\ \A f \in 0..MaxFailed : [row EXCEPT !.failed = f] \in Row /\ Alike([row EXCEPT !.failed = f], row)
           /\ LET locked == [row EXCEPT !.failed = 0, !.locked = TRUE] IN locked \in Row /\ Alike(locked, row)
           /\ LET open == [row EXCEPT !.failed = 0, !.locked = FALSE] IN open \in Row /\ Alike(open, row)
           /\ LET open == [row EXCEPT !.locked = FALSE] IN open \in Row /\ Alike(open, row)
<1>1. 0 \in 0..MaxFailed
  BY AccountConstants
<1>2. ASSUME NEW f \in 0..MaxFailed PROVE [row EXCEPT !.failed = f] \in Row /\ Alike([row EXCEPT !.failed = f], row)
  BY DEF Row, Alike
<1>3. LET locked == [row EXCEPT !.failed = 0, !.locked = TRUE] IN locked \in Row /\ Alike(locked, row)
  BY <1>1 DEF Row, Alike
<1>4. LET open == [row EXCEPT !.failed = 0, !.locked = FALSE] IN open \in Row /\ Alike(open, row)
  BY <1>1 DEF Row, Alike
<1>5. LET open == [row EXCEPT !.locked = FALSE] IN open \in Row /\ Alike(open, row)
  BY DEF Row, Alike
<1>6. QED
  BY <1>2, <1>3, <1>4, <1>5

LEMMA RowGiven ==
    ASSUME NEW row \in Row
    PROVE  /\ \A codes \in SUBSET Codes : [row EXCEPT !.codes = codes] \in Row /\ Alike([row EXCEPT !.codes = codes], row)
           /\ LET reset == [row EXCEPT !.password = TRUE, !.failed = 0, !.locked = FALSE] IN
              reset \in Row /\ Alike(reset, row)
<1>1. 0 \in 0..MaxFailed
  BY AccountConstants
<1>2. ASSUME NEW codes \in SUBSET Codes PROVE [row EXCEPT !.codes = codes] \in Row /\ Alike([row EXCEPT !.codes = codes], row)
  BY DEF Row, Alike
<1>3. LET reset == [row EXCEPT !.password = TRUE, !.failed = 0, !.locked = FALSE] IN
      reset \in Row /\ Alike(reset, row)
  BY <1>1 DEF Row, Alike
<1>4. QED
  BY <1>2, <1>3

LEMMA SessionsTyped ==
    /\ NoCookie \in Cookie /\ NoCookie.kind = "none" /\ NoCookie.issued = 0 /\ ~NoCookie.old
    /\ \A i \in Ids, kind \in {"pending", "loose"} :
          LET c == [NoCookie EXCEPT !.kind = kind, !.id = i] IN
          c \in Cookie /\ c.kind = kind /\ c.issued = 0 /\ ~c.old
    /\ \A i \in Ids, n \in 0..MaxStamps :
          LET c == [NoCookie EXCEPT !.kind = "user", !.id = i, !.issued = n] IN
          c \in Cookie /\ c.kind = "user" /\ c.id = i /\ c.issued = n /\ ~c.old
    /\ \A i \in Ids :
          LET c == [NoCookie EXCEPT !.kind = "loose", !.id = i, !.stray = TRUE] IN
          c \in Cookie /\ c.kind = "loose" /\ c.issued = 0 /\ ~c.old
    /\ \A s, p \in 0..MaxSecrets :
          LET c == [NoCookie EXCEPT !.setup = s, !.proved = p] IN
          c \in Cookie /\ c.kind = "none" /\ c.issued = 0 /\ ~c.old
<1>1. (CHOOSE i \in Ids : TRUE) \in Ids
  BY AccountConstants
<1>2. NoCookie \in Cookie /\ NoCookie.kind = "none" /\ NoCookie.issued = 0 /\ ~NoCookie.old
  <2>1. 0 \in 0..MaxStamps /\ 0 \in 0..MaxSecrets
    BY AccountConstants
  <2>2. QED
    BY <1>1, <2>1 DEF NoCookie, Cookie, NoSecret
<1>3. QED
  BY <1>2 DEF Cookie

LEMMA SessionSet ==
    ASSUME NEW c \in Cookie, NEW s \in 0..MaxSecrets, NEW p \in 0..MaxSecrets
    PROVE  /\ LET set == [c EXCEPT !.setup = s] IN set \in Cookie /\ SameSession(set, c)
           /\ LET set == [[c EXCEPT !.setup = s] EXCEPT !.proved = p] IN set \in Cookie /\ SameSession(set, c)
           /\ LET set == [[c EXCEPT !.proved = p] EXCEPT !.setup = s] IN set \in Cookie /\ SameSession(set, c)
BY DEF Cookie, SameSession

LEMMA SignsIn ==
    ASSUME NEW a \in Asking, NEW s, s = [a EXCEPT !.step = "signed", !.failed = 0]
    PROVE  s \in Asking /\ s.step = "signed" /\ s.id = a.id /\ s.stamp = a.stamp
<1>1. 0 \in 0..MaxFailed
  BY AccountConstants
<1>2. QED
  BY <1>1 DEF Asking

LEMMA KeepsSetup ==
    ASSUME NEW s \in 0..MaxSecrets, NEW p \in 0..MaxSecrets, NEW c, c = [NoCookie EXCEPT !.setup = s, !.proved = p]
    PROVE  c \in Cookie /\ c.kind = "none" /\ c.issued = 0 /\ ~c.old
<1>1. NoCookie \in Cookie /\ NoCookie.kind = "none" /\ NoCookie.issued = 0 /\ ~NoCookie.old
  BY SessionsTyped
<1>2. QED
  BY <1>1 DEF Cookie

LEMMA RequestsTyped ==
    /\ NotAsking \in Asking /\ NotAsking.step = "none" /\ NotAsking.stamp = 0
    /\ \A a \in Asking :
          /\ LET s == [a EXCEPT !.step = "passed"] IN s \in Asking /\ s.step = "passed" /\ s.id = a.id /\ s.stamp = a.stamp
          /\ LET s == [a EXCEPT !.late = TRUE] IN
             s \in Asking /\ s.step = a.step /\ s.id = a.id /\ s.stamp = a.stamp /\ s.late
    /\ AccountTypeOK => \A i \in Ids, step \in {"password", "code", "confirm"} :
          /\ ReadRow(step, i) \in Asking /\ ReadRow(step, i).step = step /\ ReadRow(step, i).id = i
          /\ ReadRow(step, i).stamp = 0
<1>1. 0 \in 0..MaxFailed /\ 0 \in 0..MaxSecrets /\ 0 \in 0..MaxStamps /\ (CHOOSE i \in Ids : TRUE) \in Ids
  BY AccountConstants
<1>2. NotAsking \in Asking /\ NotAsking.step = "none" /\ NotAsking.stamp = 0
  BY <1>1 DEF NotAsking, Asking, NoSecret
<1>3. ASSUME NEW a \in Asking
      PROVE  /\ LET s == [a EXCEPT !.step = "passed"] IN s \in Asking /\ s.step = "passed" /\ s.id = a.id /\ s.stamp = a.stamp
             /\ LET s == [a EXCEPT !.late = TRUE] IN
                s \in Asking /\ s.step = a.step /\ s.id = a.id /\ s.stamp = a.stamp /\ s.late
  BY <1>1 DEF Asking
<1>4. ASSUME AccountTypeOK, NEW i \in Ids, NEW step \in {"password", "code", "confirm"}
      PROVE  /\ ReadRow(step, i) \in Asking /\ ReadRow(step, i).step = step /\ ReadRow(step, i).id = i
             /\ ReadRow(step, i).stamp = 0
  BY <1>1, <1>4 DEF AccountTypeOK, Row, Asking, ReadRow
<1>5. QED
  BY <1>2, <1>3, <1>4

\* A step that keeps the invariant and gives no account an authenticator.
Unproved == AccountInv' /\ \A i \in Ids : SecretKept(i)

\* A step of one browser, that leaves what is known of the others alone.
LEMMA OneBrowser ==
    ASSUME AccountInv, NEW b \in Browsers, NEW ck \in Cookie, NEW ak \in Asking,
           cookie' = [cookie EXCEPT ![b] = ck], asking' = [asking EXCEPT ![b] = ak],
           users' \in [Ids -> Row], \A i \in Ids : RowStep(i) /\ SecretKept(i),
           stamps' \in 0..MaxStamps, stamps <= stamps', secrets' \in 0..MaxSecrets,
           UNCHANGED <<apiTokens, syncing, said, owed>>, ck.issued <= stamps', ak.stamp \in {0, asking[b].stamp},
           SameSession(ck, cookie[b]) \/ (~ck.old /\ (ck.kind = "user" => users'[ck.id].status # "none")),
           \/ ak.step \in {"none", "password", "signed", "code", "passed"} /\ (ak.step # "none" => users'[ak.id].status # "none")
           \/ /\ ak.step = "confirm" /\ ak.id = ck.id /\ users'[ak.id].status # "none"
              /\ users'[ak.id].secret = NoSecret \/ ck.proved # NoSecret
    PROVE  Unproved
<1>1. /\ cookie' \in [Browsers -> Cookie] /\ asking' \in [Browsers -> Asking]
      /\ \A c \in Browsers : cookie'[c] = (IF c = b THEN ck ELSE cookie[c]) /\ asking'[c] = (IF c = b THEN ak ELSE asking[c])
  BY DEF AccountInv, AccountTypeOK
<1>2. AccountTypeOK'
  BY <1>1 DEF AccountInv, AccountTypeOK
<1>3. \A c \in Browsers : cookie[c].issued <= stamps' /\ asking[c].stamp <= stamps' /\ 0 <= stamps'
  <2>1. \A c \in Browsers : /\ cookie[c].issued \in Int /\ cookie[c].issued <= stamps /\ stamps \in Int /\ stamps' \in Int
                            /\ asking[c].stamp \in Int /\ asking[c].stamp <= stamps /\ 0 <= stamps'
    BY AccountConstants DEF AccountInv, AccountTypeOK, Cookie, Asking, MomentsPast
  <2>2. QED
    BY <2>1
<1>4. \A c \in Browsers : CookieStep(c)
  BY <1>1, <1>3 DEF CookieStep, SameSession
<1>5. ASSUME NEW c \in Browsers PROVE AskStep(c) /\ EndsStep(c)
  <2>1. CASE c = b
    <3>1. AskStep(c)
      BY <1>1, <1>3, <2>1 DEF AskStep
    <3>2. EndsStep(c)
      BY <1>1, <2>1 DEF EndsStep, Ends, SameSession, Moments
    <3>3. QED
      BY <3>1, <3>2
  <2>2. CASE c # b
    <3>1. AskStep(c)
      BY <1>1, <1>3, <2>2 DEF AskStep, AccountInv, AccountTypeOK, Asking
    <3>2. EndsStep(c)
      BY <1>1, <2>2 DEF EndsStep, Moments, AccountInv, AccountTypeOK, Asking
    <3>3. QED
      BY <3>1, <3>2
  <2>3. QED
    BY <2>1, <2>2
<1>6. QED
  BY <1>2, <1>4, <1>5, AccountStepInv DEF Unproved

\* A step of no browser.
LEMMA NoBrowser ==
    ASSUME AccountInv, UNCHANGED <<cookie, asking, owed>>, users' \in [Ids -> Row],
           \A i \in Ids : RowStep(i) /\ SecretKept(i), UNCHANGED <<stamps, secrets>>,
           apiTokens' \in [Ids -> Roles \cup {NoApiToken}], syncing' \in Syncing, said' \in [Ids -> Roles]
    PROVE  Unproved
<1>1. AccountTypeOK' /\ stamps <= stamps'
  BY DEF AccountInv, AccountTypeOK
<1>2. \A c \in Browsers : CookieStep(c)
  BY DEF CookieStep, AccountInv, MomentsPast
<1>3. \A c \in Browsers : AskStep(c)
  BY DEF AskStep, AccountInv, AccountTypeOK, Asking, MomentsPast
<1>4. \A c \in Browsers : EndsStep(c)
  BY DEF EndsStep, Moments
<1>5. QED
  BY <1>1, <1>2, <1>3, <1>4, AccountStepInv DEF Unproved

LEMMA RowsStay ==
    ASSUME AccountInv, UNCHANGED <<users, said>>
    PROVE  users' \in [Ids -> Row] /\ \A i \in Ids : RowStep(i) /\ SecretKept(i)
<1>1. \A i \in Ids : users[i] \in Row /\ users[i].cutoff <= users[i].cutoff
  BY DEF AccountInv, AccountTypeOK, Row
<1>2. QED
  BY <1>1 DEF AccountInv, AccountTypeOK, RolesAsSaid, Exists, RowStep, SecretKept

\* A step that writes one row.
LEMMA OneRow ==
    ASSUME AccountInv, NEW i \in Ids, NEW row \in Row, users' = [users EXCEPT ![i] = row] \/ users' = WithRow(i, row),
           said' \in [Ids -> Roles], \A j \in Ids \ {i} : said'[j] = said[j],
           users[i].status # "none" => row.status # "none",
           users[i].status = "gone" => row.status = "gone" \/ users' = WithRow(i, row),
           users[i].status # "none" => row.status = "gone" \/ users[i].cutoff <= row.cutoff,
           users'[i].status \in {"on", "off"} => users'[i].role = said'[i],
           row.secret \in {NoSecret, users[i].secret}
    PROVE  /\ users' \in [Ids -> Row] /\ \A j \in Ids : RowStep(j) /\ SecretKept(j)
           /\ \A j \in Ids : users[j].status # "none" => users'[j].status # "none"
<1>1. users \in [Ids -> Row]
  BY DEF AccountInv, AccountTypeOK
<1>2. users' \in [Ids -> Row] /\ \A j \in Ids \ {i} : users'[j] = users[j]
  BY <1>1 DEF WithRow
<1>3. users'[i] = row \/ (users'[i] = users[i] /\ ~Exists(i))
  BY <1>1 DEF WithRow
<1>4. \A j \in Ids : users[j].cutoff <= users[j].cutoff
  BY <1>1 DEF Row
<1>5. \A j \in Ids \ {i} : RowStep(j) /\ SecretKept(j)
  BY <1>2, <1>4 DEF RowStep, SecretKept, AccountInv, RolesAsSaid, Exists
<1>6. users[i].status = "gone" => users'[i].status = "gone"
  BY <1>1 DEF WithRow, Exists
<1>7. RowStep(i) /\ SecretKept(i)
  BY <1>3, <1>4, <1>6 DEF RowStep, SecretKept
<1>8. QED
  BY <1>2, <1>5, <1>7 DEF RowStep

\* A step that writes one row and changes nothing of it that counts here.
LEMMA OneRowAlike ==
    ASSUME AccountInv, NEW i \in Ids, NEW row \in Row, users' = [users EXCEPT ![i] = row] \/ users' = WithRow(i, row),
           Alike(row, users[i]), said' = said
    PROVE  /\ users' \in [Ids -> Row] /\ \A j \in Ids : RowStep(j) /\ SecretKept(j)
           /\ \A j \in Ids : users[j].status # "none" => users'[j].status # "none"
<1>1. users \in [Ids -> Row] /\ said \in [Ids -> Roles] /\ users[i].cutoff <= users[i].cutoff
  BY DEF AccountInv, AccountTypeOK, Row
<1>2. users'[i] = row \/ users'[i] = users[i]
  BY <1>1 DEF WithRow
<1>3. users'[i].status \in {"on", "off"} => users'[i].role = said'[i]
  BY <1>2 DEF Alike, AccountInv, RolesAsSaid, Exists
<1>4. QED
  BY <1>1, <1>3, OneRow DEF Alike
LEMMA AccountInitInv == AccountInit => AccountInv
<1> SUFFICES ASSUME AccountInit PROVE AccountInv
  OBVIOUS
<1> USE AccountConstants
<1>1. Bootstrapped \in Row
  BY RowsTyped DEF Bootstrapped, Row
<1>2. PICK first \in {NoRow, Bootstrapped} : users = [i \in Ids |-> IF i = CHOOSE j \in Ids : TRUE THEN first ELSE NoRow]
  BY DEF AccountInit
<1>3. users \in [Ids -> Row]
  <2>1. NoRow \in Row /\ first \in Row
    BY <1>1, <1>2, RowsTyped
  <2>2. QED
    BY <1>2, <2>1
<1>4. said = [i \in Ids |-> users[i].role] /\ said \in [Ids -> Roles]
  BY <1>3 DEF AccountInit, Row
<1>5. NotSyncing \in Syncing
  <2>1. (CHOOSE i \in Ids : TRUE) \in Ids
    OBVIOUS
  <2>2. QED
    BY <2>1 DEF NotSyncing, Syncing
<1>6. /\ cookie \in [Browsers -> Cookie] /\ asking \in [Browsers -> Asking] /\ syncing \in Syncing
      /\ apiTokens \in [Ids -> Roles \cup {NoApiToken}] /\ stamps = 0 /\ secrets = 0 /\ owed = {}
  BY <1>5, SessionsTyped, RequestsTyped DEF AccountInit
<1>7. \A b \in Browsers : cookie[b] = NoCookie /\ asking[b] = NotAsking
  BY DEF AccountInit
<1>8. AccountTypeOK
  BY <1>3, <1>4, <1>6 DEF AccountTypeOK
<1>9. KnownAccounts /\ MomentsPast /\ ConfirmsOwn /\ RolesAsSaid /\ EndsKept
  <2>1. /\ NotAsking.step = "none" /\ NotAsking.stamp = 0
        /\ NoCookie.kind = "none" /\ NoCookie.issued = 0 /\ ~NoCookie.old
    BY SessionsTyped, RequestsTyped
  <2>2. KnownAccounts /\ MomentsPast /\ ConfirmsOwn /\ RolesAsSaid
    BY <1>4, <1>6, <1>7, <2>1 DEF KnownAccounts, MomentsPast, ConfirmsOwn, RolesAsSaid
  <2>3. EndsKept
    BY <1>7, <2>1 DEF EndsKept, EndedBefore, EndsTheOld, EndsAlone, EndsOthers, Ends
  <2>4. QED
    BY <2>2, <2>3
<1>10. QED
  BY <1>8, <1>9 DEF AccountInv

\* What the requests of a browser do, one by one.
LEMMA SignInInv ==
    ASSUME AccountInv, NEW b \in Browsers,
           \/ TurnedAway(b) \/ Logout(b) \/ PasswordWrong(b) \/ PasswordRight(b)
           \/ EnterCode(b) \/ CodeRight(b) \/ CodeWrong(b) \/ Enter(b)
           \/ \E i \in Ids : EnterPassword(b, i) \/ SingleSignOn(b, i)
    PROVE  Unproved
<1> USE AccountConstants
<1>0. /\ AccountTypeOK /\ users \in [Ids -> Row] /\ cookie \in [Browsers -> Cookie] /\ asking \in [Browsers -> Asking]
      /\ stamps \in 0..MaxStamps /\ secrets \in 0..MaxSecrets /\ cookie[b] \in Cookie /\ asking[b] \in Asking
      /\ cookie[b].id \in Ids /\ asking[b].id \in Ids /\ cookie[b].issued <= stamps
      /\ KnownAccounts /\ ConfirmsOwn
  BY DEF AccountInv, AccountTypeOK, Cookie, Asking, MomentsPast
<1>01. cookie = [cookie EXCEPT ![b] = cookie[b]] /\ asking = [asking EXCEPT ![b] = asking[b]]
  BY <1>0
<1>02. NotAsking \in Asking /\ NotAsking.step = "none" /\ NotAsking.stamp = 0 /\ NoCookie \in Cookie /\ NoCookie.kind = "none" /\ NoCookie.issued = 0
       /\ ~NoCookie.old /\ 0 <= stamps /\ stamps <= stamps
  <2>1. 0 <= stamps /\ stamps <= stamps
    BY <1>0
  <2>2. QED
    BY <2>1, RequestsTyped, SessionsTyped
<1>04. UNCHANGED <<users, said>> => users' \in [Ids -> Row] /\ \A i \in Ids : RowStep(i) /\ SecretKept(i)
  BY RowsStay
<1>03. SameSession(cookie[b], cookie[b])
  BY DEF SameSession
<1>1. ASSUME TurnedAway(b) PROVE Unproved
  <2> DEFINE c == [NoCookie EXCEPT !.setup = cookie[b].setup, !.proved = cookie[b].proved]
  <2>1. c \in Cookie /\ c.kind = "none" /\ c.issued = 0 /\ ~c.old
    <3>1. cookie[b] \in Cookie
      BY <1>0
    <3>2. cookie[b].setup \in 0..MaxSecrets /\ cookie[b].proved \in 0..MaxSecrets
      BY <3>1 DEF Cookie
    <3>3. QED
      BY <3>2, KeepsSetup
  <2>2. cookie' = [cookie EXCEPT ![b] = c] /\ asking[b].step = "none"
    BY <1>1 DEF TurnedAway
  <2>3. PICK ck \in Cookie : cookie' = [cookie EXCEPT ![b] = ck] /\ ck.kind = "none" /\ ck.issued = 0 /\ ~ck.old
    <3> HIDE DEF c
    <3>1. QED
      BY <2>1, <2>2
  <2>4. UNCHANGED <<users, asking, apiTokens, syncing, stamps, secrets, said, owed>> /\ asking[b].step = "none"
    BY <1>1 DEF TurnedAway
  <2> HIDE DEF c
  <2>5. /\ ck.issued <= stamps' /\ stamps <= stamps' /\ stamps' \in 0..MaxStamps /\ secrets' \in 0..MaxSecrets
        /\ ck.kind # "user"
    BY <1>0, <1>02, <2>3, <2>4
  <2>6. asking' = [asking EXCEPT ![b] = asking[b]] /\ users' \in [Ids -> Row] /\ \A i \in Ids : RowStep(i) /\ SecretKept(i)
    BY <1>01, <1>04, <2>4
  <2>7. UNCHANGED <<apiTokens, syncing, said, owed>> /\ asking[b].step # "confirm" /\ asking[b] \in Asking
    BY <1>0, <2>4
  <2>8. QED
    BY <2>3, <2>4, <2>5, <2>6, <2>7, OneBrowser
<1>2. ASSUME Logout(b) PROVE Unproved
  <2>1. /\ cookie' = [cookie EXCEPT ![b] = NoCookie] /\ asking[b].step = "none"
        /\ UNCHANGED <<users, apiTokens, asking, syncing, stamps, secrets, said, owed>>
    BY <1>2 DEF Logout
  <2>2. asking' = [asking EXCEPT ![b] = asking[b]] /\ users' \in [Ids -> Row] /\ \A i \in Ids : RowStep(i) /\ SecretKept(i)
    BY <1>01, <1>04, <2>1
  <2>3. /\ NoCookie.issued <= stamps' /\ stamps <= stamps' /\ stamps' \in 0..MaxStamps /\ secrets' \in 0..MaxSecrets
        /\ NoCookie.kind # "user"
    BY <1>0, <1>02, <2>1
  <2>4. QED
    BY <1>0, <1>02, <2>1, <2>2, <2>3, OneBrowser
<1>3. ASSUME NEW i \in Ids, EnterPassword(b, i) PROVE Unproved
  <2>1. PICK a \in Asking : a = ReadRow("password", i) /\ a.step = "password" /\ a.id = i /\ a.stamp = 0
    BY <1>0, RequestsTyped
  <2>2. /\ asking' = [asking EXCEPT ![b] = a] /\ users[i].status # "none"
        /\ UNCHANGED <<users, apiTokens, cookie, syncing, stamps, secrets, said, owed>>
    BY <1>3, <2>1 DEF EnterPassword
  <2>3. /\ cookie' = [cookie EXCEPT ![b] = cookie[b]] /\ users' \in [Ids -> Row] /\ \A j \in Ids : RowStep(j) /\ SecretKept(j)
        /\ cookie[b].issued <= stamps' /\ stamps <= stamps' /\ stamps' \in 0..MaxStamps /\ secrets' \in 0..MaxSecrets
    BY <1>0, <1>01, <1>02, <1>04, <2>2
  <2>4. QED
    BY <1>0, <1>03, <2>1, <2>2, <2>3, OneBrowser
<1>4. ASSUME PasswordWrong(b) \/ CodeWrong(b) PROVE Unproved
  <2> DEFINE i == asking[b].id
  <2> DEFINE row == Failure(users[i], asking[b])
  <2>1. row \in Row /\ Alike(row, users[i])
    <3>1. users[i] \in Row /\ asking[b].failed \in 0..MaxFailed
      BY <1>0 DEF Asking
    <3>2. CASE asking[b].failed + 1 >= MaxFailed
      BY <3>1, <3>2, RowCounted DEF Failure
    <3>3. CASE ~(asking[b].failed + 1 >= MaxFailed)
      <4>1. asking[b].failed + 1 \in 0..MaxFailed
        BY <3>1, <3>3
      <4>2. QED
        BY <3>1, <3>3, <4>1, RowCounted DEF Failure
    <3>4. QED
      BY <3>2, <3>3
  <2>2. users' = WithRow(i, row) /\ said' = said /\ UNCHANGED <<apiTokens, syncing, stamps, secrets, owed>>
        /\ asking' = [asking EXCEPT ![b] = NotAsking]
    BY <1>4 DEF PasswordWrong, CodeWrong
  <2>3. PICK c \in {NoCookie, cookie[b]} : cookie' = [cookie EXCEPT ![b] = c]
    BY <1>01, <1>4 DEF PasswordWrong, CodeWrong
  <2>4. c \in Cookie /\ c.issued <= stamps
        /\ (SameSession(c, cookie[b]) \/ (~c.old /\ (c.kind = "user" => users'[c.id].status # "none")))
    BY <1>0, <1>02, <1>03, <2>3
  <2> HIDE DEF row
  <2>5. users' \in [Ids -> Row] /\ \A j \in Ids : RowStep(j) /\ SecretKept(j)
    BY <1>0, <2>1, <2>2, OneRowAlike
  <2>6. QED
    BY <1>0, <1>02, <2>2, <2>3, <2>4, <2>5, OneBrowser
<1>5. ASSUME PasswordRight(b) PROVE Unproved
  <2> DEFINE i == asking[b].id
  <2> DEFINE row == [users[i] EXCEPT !.failed = 0, !.locked = FALSE]
  <2>1. row \in Row /\ Alike(row, users[i])
    BY <1>0, RowCounted
  <2>2. users' = WithRow(i, row) /\ said' = said /\ UNCHANGED <<apiTokens, syncing, stamps, secrets, owed>> /\ i \in Ids
    BY <1>0, <1>5 DEF PasswordRight
  <2> HIDE DEF row
  <2>3. users' \in [Ids -> Row] /\ (\A j \in Ids : RowStep(j) /\ SecretKept(j))
        /\ users'[i].status # "none"
    <3>1. users[i].status # "none"
      BY <1>0, <1>5 DEF PasswordRight, KnownAccounts
    <3>2. QED
      BY <1>0, <2>1, <2>2, <3>1, OneRowAlike
  <2>4. CASE cookie' = cookie /\ asking' = [asking EXCEPT ![b] = NotAsking]
    BY <1>0, <1>01, <1>02, <1>03, <2>2, <2>3, <2>4, OneBrowser
  <2>5. CASE /\ cookie' = [cookie EXCEPT ![b] = [NoCookie EXCEPT !.kind = "pending", !.id = i]]
             /\ asking' = [asking EXCEPT ![b] = NotAsking]
    <3> DEFINE c == [NoCookie EXCEPT !.kind = "pending", !.id = i]
    <3>1. c \in Cookie /\ c.kind = "pending" /\ c.issued = 0 /\ ~c.old
      BY <2>2, SessionsTyped
    <3>2. cookie' = [cookie EXCEPT ![b] = c]
      BY <2>5
    <3> HIDE DEF c, i
    <3>3. /\ c.issued <= stamps' /\ stamps <= stamps' /\ stamps' \in 0..MaxStamps /\ secrets' \in 0..MaxSecrets
          /\ c.kind # "user" /\ NotAsking.step # "confirm"
      BY <1>0, <1>02, <2>2, <3>1
    <3>4. asking' = [asking EXCEPT ![b] = NotAsking] /\ NotAsking \in Asking /\ NotAsking.step = "none" /\ NotAsking.stamp = 0
      BY <1>02, <2>5
    <3>5. QED
      BY <2>2, <2>3, <3>1, <3>2, <3>3, <3>4, OneBrowser
  <2>6. CASE cookie' = cookie /\ asking' = [asking EXCEPT ![b] = [asking[b] EXCEPT !.step = "signed", !.failed = 0]]
    <3>0. PICK a : a = [asking[b] EXCEPT !.step = "signed", !.failed = 0]
      OBVIOUS
    <3>1. a \in Asking /\ a.step = "signed" /\ a.id = i /\ a.stamp = asking[b].stamp
      <4>1. asking[b] \in Asking
        BY <1>0
      <4>2. a \in Asking /\ a.step = "signed" /\ a.id = asking[b].id /\ a.stamp = asking[b].stamp
        BY <3>0, <4>1, SignsIn
      <4>3. QED
        BY <1>0, <4>2
    <3>2. asking' = [asking EXCEPT ![b] = a]
      BY <2>6, <3>0
    <3>3. /\ cookie[b].issued <= stamps' /\ stamps <= stamps' /\ stamps' \in 0..MaxStamps /\ secrets' \in 0..MaxSecrets
          /\ a.step # "confirm"
      BY <1>0, <1>02, <2>2, <3>1
    <3>4. cookie' = [cookie EXCEPT ![b] = cookie[b]] /\ cookie[b] \in Cookie
      BY <1>0, <1>01, <2>6
    <3>5. users'[a.id].status # "none"
      BY <2>3, <3>1
    <3> HIDE DEF i
    <3>6. QED
      BY <1>03, <2>2, <2>3, <3>1, <3>2, <3>3, <3>4, <3>5, OneBrowser
  <2>7. QED
    BY <1>0, <1>5, <2>4, <2>5, <2>6 DEF PasswordRight
<1>6. ASSUME EnterCode(b) PROVE Unproved
  <2>1. CASE cookie' = [cookie EXCEPT ![b] = NoCookie] /\ UNCHANGED asking
    <3>1. asking[b].step = "none" /\ UNCHANGED <<users, apiTokens, asking, syncing, stamps, secrets, said, owed>>
      BY <1>6, <2>1 DEF EnterCode
    <3>2. asking' = [asking EXCEPT ![b] = asking[b]] /\ users' \in [Ids -> Row] /\ \A i \in Ids : RowStep(i) /\ SecretKept(i)
      BY <1>01, <1>04, <3>1
    <3>3. /\ NoCookie.issued <= stamps' /\ stamps <= stamps' /\ stamps' \in 0..MaxStamps /\ secrets' \in 0..MaxSecrets
          /\ NoCookie.kind # "user"
      BY <1>0, <1>02, <3>1
    <3>4. QED
      BY <1>0, <1>02, <2>1, <3>1, <3>2, <3>3, OneBrowser
  <2>2. CASE /\ asking' = [asking EXCEPT ![b] = ReadRow("code", cookie[b].id)] /\ UNCHANGED cookie
             /\ users[cookie[b].id].status = "on"
    <3>1. PICK a \in Asking : a = ReadRow("code", cookie[b].id) /\ a.step = "code" /\ a.id = cookie[b].id /\ a.stamp = 0
      BY <1>0, RequestsTyped
    <3>2. /\ asking' = [asking EXCEPT ![b] = a] /\ users[cookie[b].id].status # "none"
          /\ UNCHANGED <<users, apiTokens, cookie, syncing, stamps, secrets, said, owed>>
      BY <1>6, <2>2, <3>1 DEF EnterCode
    <3>3. /\ cookie' = [cookie EXCEPT ![b] = cookie[b]] /\ users' \in [Ids -> Row] /\ \A j \in Ids : RowStep(j) /\ SecretKept(j)
          /\ cookie[b].issued <= stamps' /\ stamps <= stamps' /\ stamps' \in 0..MaxStamps /\ secrets' \in 0..MaxSecrets
      BY <1>0, <1>01, <1>02, <1>04, <3>2
    <3>4. QED
      BY <1>0, <1>03, <3>1, <3>2, <3>3, OneBrowser
  <2>3. QED
    BY <1>6, <2>1, <2>2 DEF EnterCode
<1>7. ASSUME CodeRight(b) PROVE Unproved
  <2> DEFINE i == asking[b].id
  <2> DEFINE a == [asking[b] EXCEPT !.step = "passed"]
  <2>1. a \in Asking /\ a.step = "passed" /\ a.id = i /\ a.stamp = asking[b].stamp
    BY <1>0, RequestsTyped
  <2>2. asking' = [asking EXCEPT ![b] = a] /\ UNCHANGED <<apiTokens, cookie, syncing, stamps, secrets, said, owed>>
    BY <1>7 DEF CodeRight
  <2> HIDE DEF a
  <2>3. users[i].status # "none"
    BY <1>0, <1>7 DEF CodeRight, KnownAccounts
  <2>4. users' \in [Ids -> Row] /\ (\A j \in Ids : RowStep(j) /\ SecretKept(j)) /\ users'[i].status # "none"
    <3>1. CASE UNCHANGED users
      BY <2>2, <2>3, <3>1, RowsStay
    <3>2. ASSUME NEW k \in asking[b].codes, users' = Consumed(i, asking[b], k)
          PROVE  users' \in [Ids -> Row] /\ (\A j \in Ids : RowStep(j) /\ SecretKept(j)) /\ users'[i].status # "none"
      <4> DEFINE codes == asking[b].codes \ {k}
      <4> DEFINE row == [users[i] EXCEPT !.codes = codes]
      <4>1. codes \in SUBSET Codes /\ users[i] \in Row
        BY <1>0 DEF Asking
      <4>2. row \in Row /\ Alike(row, users[i])
        BY <4>1, RowGiven
      <4>3. users' = WithRow(i, row)
        BY <3>2 DEF Consumed
      <4> HIDE DEF row
      <4>4. QED
        BY <1>0, <2>2, <2>3, <4>2, <4>3, OneRowAlike
    <3>3. QED
      BY <1>7, <3>1, <3>2 DEF CodeRight
  <2>5. QED
    BY <1>0, <1>01, <1>02, <1>03, <2>1, <2>2, <2>4, OneBrowser
<1>8. ASSUME Enter(b) PROVE Unproved
  <2> DEFINE i == asking[b].id
  <2> DEFINE c == [NoCookie EXCEPT !.kind = "user", !.id = i, !.issued = stamps + 1]
  <2> DEFINE row == [users[i] EXCEPT !.failed = 0, !.locked = FALSE]
  <2>1. stamps + 1 \in 0..MaxStamps /\ stamps' = stamps + 1
    BY <1>0, <1>8 DEF Enter
  <2>2. c \in Cookie /\ c.kind = "user" /\ c.id = i /\ c.issued = stamps + 1 /\ ~c.old
    <3>1. i \in Ids
      BY <1>0
    <3> HIDE DEF i
    <3>2. QED
      BY <2>1, <3>1, SessionsTyped
  <2>3. row \in Row /\ Alike(row, users[i])
    BY <1>0, RowCounted
  <2>4. (users' = users \/ users' = WithRow(i, row)) /\ cookie' = [cookie EXCEPT ![b] = c]
        /\ asking' = [asking EXCEPT ![b] = NotAsking] /\ UNCHANGED <<apiTokens, syncing, secrets, said, owed>>
    BY <1>8 DEF Enter
  <2>5. users[i].status # "none"
    BY <1>0, <1>8 DEF Enter, KnownAccounts
  <2> HIDE DEF c, row
  <2>6. users' \in [Ids -> Row] /\ (\A j \in Ids : RowStep(j) /\ SecretKept(j)) /\ users'[i].status # "none"
    <3>1. CASE users' = users
      BY <2>4, <2>5, <3>1, RowsStay
    <3>2. CASE users' = WithRow(i, row)
      BY <1>0, <2>3, <2>4, <2>5, <3>2, OneRowAlike
    <3>3. QED
      BY <2>4, <3>1, <3>2
  <2>7. /\ c.issued <= stamps' /\ stamps <= stamps' /\ stamps' \in 0..MaxStamps /\ secrets' \in 0..MaxSecrets
        /\ users'[c.id].status # "none"
    BY <1>0, <2>1, <2>2, <2>4, <2>6
  <2>8. NotAsking \in Asking /\ NotAsking.step = "none" /\ NotAsking.stamp = 0
    BY <1>02
  <2> HIDE DEF i
  <2>9. QED
    BY <2>2, <2>4, <2>6, <2>7, <2>8, OneBrowser
<1>9. ASSUME NEW i \in Ids, SingleSignOn(b, i) PROVE Unproved
  <2>1. CASE stamps < MaxStamps /\ stamps' = stamps + 1 /\ users[i].status = "on"
             /\ cookie' = [cookie EXCEPT ![b] = [NoCookie EXCEPT !.kind = "user", !.id = i, !.issued = stamps + 1]]
    <3> DEFINE c == [NoCookie EXCEPT !.kind = "user", !.id = i, !.issued = stamps + 1]
    <3>1. stamps + 1 \in 0..MaxStamps /\ stamps <= stamps + 1
      BY <1>0, <2>1
    <3>2. c \in Cookie /\ c.kind = "user" /\ c.id = i /\ c.issued = stamps + 1 /\ ~c.old
      BY <3>1, SessionsTyped
    <3>3. cookie' = [cookie EXCEPT ![b] = c] /\ asking[b].step = "none"
      BY <1>9, <2>1 DEF SingleSignOn
    <3> HIDE DEF c
    <3>4. UNCHANGED <<users, asking, apiTokens, syncing, secrets, said, owed>>
      BY <1>9 DEF SingleSignOn
    <3>5. /\ c.issued <= stamps' /\ stamps <= stamps' /\ stamps' \in 0..MaxStamps /\ secrets' \in 0..MaxSecrets
          /\ users'[c.id].status # "none"
      BY <1>0, <2>1, <3>1, <3>2, <3>4
    <3>6. asking' = [asking EXCEPT ![b] = asking[b]] /\ asking[b] \in Asking /\ asking[b].step # "confirm"
      BY <1>0, <1>01, <3>3, <3>4
    <3>7. QED
      BY <1>04, <3>2, <3>3, <3>4, <3>5, <3>6, OneBrowser
  <2>2. CASE cookie' = [cookie EXCEPT ![b] = [NoCookie EXCEPT !.kind = "loose", !.id = i]] /\ UNCHANGED stamps
    <3> DEFINE c == [NoCookie EXCEPT !.kind = "loose", !.id = i]
    <3>1. c \in Cookie /\ c.kind = "loose" /\ c.issued = 0 /\ ~c.old
      BY SessionsTyped
    <3>2. cookie' = [cookie EXCEPT ![b] = c] /\ asking[b].step = "none"
      BY <1>9, <2>2 DEF SingleSignOn
    <3> HIDE DEF c
    <3>3. UNCHANGED <<users, asking, apiTokens, syncing, secrets, said, stamps, owed>>
      BY <1>9, <2>2 DEF SingleSignOn
    <3>4. /\ c.issued <= stamps' /\ stamps <= stamps' /\ stamps' \in 0..MaxStamps /\ secrets' \in 0..MaxSecrets
          /\ c.kind # "user"
      BY <1>0, <1>02, <3>1, <3>3
    <3>5. asking' = [asking EXCEPT ![b] = asking[b]] /\ asking[b] \in Asking /\ asking[b].step # "confirm"
      BY <1>0, <1>01, <3>2, <3>3
    <3>6. QED
      BY <1>04, <3>1, <3>2, <3>3, <3>4, <3>5, OneBrowser
  <2>3. QED
    BY <1>9, <2>1, <2>2 DEF SingleSignOn
<1>10. QED
  BY <1>1, <1>2, <1>3, <1>4, <1>5, <1>6, <1>7, <1>8, <1>9
\* The authenticator, but for the step that sets it.
LEMMA MfaInv ==
    ASSUME AccountInv, NEW b \in Browsers,
           StartMfa(b) \/ ReplaceMfa(b) \/ ProofEnds(b) \/ ConfirmMfa(b) \/ RequestFails(b) \/ DisableMfa(b)
    PROVE  Unproved
<1> USE AccountConstants
<1>0. /\ AccountTypeOK /\ users \in [Ids -> Row] /\ cookie \in [Browsers -> Cookie] /\ asking \in [Browsers -> Asking]
      /\ stamps \in 0..MaxStamps /\ secrets \in 0..MaxSecrets /\ cookie[b] \in Cookie /\ asking[b] \in Asking
      /\ cookie[b].id \in Ids /\ asking[b].id \in Ids /\ cookie[b].issued <= stamps /\ cookie[b].issued \in Int
      /\ cookie[b].setup \in 0..MaxSecrets /\ cookie[b].proved \in 0..MaxSecrets
      /\ KnownAccounts /\ ConfirmsOwn /\ NoSecret \in 0..MaxSecrets
  BY DEF AccountInv, AccountTypeOK, Cookie, Asking, MomentsPast, NoSecret
<1>1. cookie = [cookie EXCEPT ![b] = cookie[b]] /\ asking = [asking EXCEPT ![b] = asking[b]]
  BY <1>0
<1>2. stamps <= stamps /\ SameSession(cookie[b], cookie[b])
  BY <1>0 DEF SameSession
<1>3. UNCHANGED <<users, said>> => users' \in [Ids -> Row] /\ \A i \in Ids : RowStep(i) /\ SecretKept(i)
  BY RowsStay
\* A step that sets up or proves, and asks for nothing.
<1>4. ASSUME NEW c \in Cookie, SameSession(c, cookie[b]),
             cookie' = [cookie EXCEPT ![b] = c], asking[b].step = "none", secrets' \in 0..MaxSecrets,
             users' \in [Ids -> Row], \A i \in Ids : RowStep(i) /\ SecretKept(i),
             UNCHANGED <<apiTokens, asking, syncing, stamps, said, owed>>
      PROVE  Unproved
  <2>1. /\ c.issued <= stamps' /\ stamps <= stamps' /\ stamps' \in 0..MaxStamps
        /\ asking' = [asking EXCEPT ![b] = asking[b]] /\ asking[b].step # "confirm"
    BY <1>0, <1>1, <1>2, <1>4 DEF SameSession
  <2>2. QED
    BY <1>0, <1>4, <2>1, OneBrowser
<1>5. ASSUME StartMfa(b) PROVE Unproved
  <2> DEFINE n == secrets + 1
  <2> DEFINE c == [cookie[b] EXCEPT !.setup = n]
  <2>1. n \in 0..MaxSecrets /\ secrets' = n
    BY <1>0, <1>5 DEF StartMfa
  <2>2. c \in Cookie /\ SameSession(c, cookie[b])
    <3> DEFINE was == cookie[b]
    <3>1. was \in Cookie
      BY <1>0
    <3> HIDE DEF n, was
    <3>2. QED
      BY <1>0, <2>1, <3>1, SessionSet
  <2>3. cookie' = [cookie EXCEPT ![b] = c]
    BY <1>0, <1>5 DEF StartMfa
  <2>4. UNCHANGED <<users, apiTokens, asking, syncing, stamps, said, owed>> /\ asking[b].step = "none"
    BY <1>5 DEF StartMfa, Local
  <2> HIDE DEF c, n
  <2>5. QED
    BY <1>0, <1>3, <1>4, <2>1, <2>2, <2>3, <2>4
<1>6. ASSUME ReplaceMfa(b) PROVE Unproved
  <2> DEFINE n == secrets + 1
  <2> DEFINE i == cookie[b].id
  <2> DEFINE p == users[i].secret
  <2> DEFINE c == [[cookie[b] EXCEPT !.setup = n] EXCEPT !.proved = p]
  <2>1. n \in 0..MaxSecrets /\ secrets' = n /\ p \in 0..MaxSecrets
    BY <1>0, <1>6 DEF ReplaceMfa, Row
  <2>2. c \in Cookie /\ SameSession(c, cookie[b])
    <3> DEFINE was == cookie[b]
    <3>1. was \in Cookie
      BY <1>0
    <3> HIDE DEF n, was, p
    <3>2. QED
      BY <1>0, <2>1, <3>1, SessionSet
  <2>3. cookie' = [cookie EXCEPT ![b] = c]
    BY <1>0, <1>6 DEF ReplaceMfa
  <2>4. UNCHANGED <<apiTokens, asking, syncing, stamps, said, owed>> /\ asking[b].step = "none"
    BY <1>6 DEF ReplaceMfa, Local
  <2>5. users' \in [Ids -> Row] /\ \A j \in Ids : RowStep(j) /\ SecretKept(j)
    <3>1. CASE UNCHANGED users
      BY <1>3, <2>4, <3>1
    <3>2. ASSUME NEW k \in users[i].codes, users' = Consumed(i, users[i], k)
          PROVE  users' \in [Ids -> Row] /\ \A j \in Ids : RowStep(j) /\ SecretKept(j)
      <4> DEFINE codes == users[i].codes \ {k}
      <4> DEFINE row == [users[i] EXCEPT !.codes = codes]
      <4>1. codes \in SUBSET Codes /\ users[i] \in Row
        BY <1>0 DEF Row
      <4>2. row \in Row /\ Alike(row, users[i])
        BY <4>1, RowGiven
      <4>3. users' = WithRow(i, row)
        BY <3>2 DEF Consumed
      <4> HIDE DEF row
      <4>4. QED
        BY <1>0, <2>4, <4>2, <4>3, OneRowAlike
    <3>3. QED
      BY <1>6, <3>1, <3>2 DEF ReplaceMfa
  <2> HIDE DEF c, n, i, p
  <2>6. QED
    BY <1>0, <1>4, <2>1, <2>2, <2>3, <2>4, <2>5
<1>7. ASSUME ProofEnds(b) PROVE Unproved
  <2> DEFINE s == IF cookie[b].proved = NoSecret THEN NoSecret ELSE cookie[b].setup
  <2> DEFINE c == [[cookie[b] EXCEPT !.proved = NoSecret] EXCEPT !.setup = s]
  <2>1. s \in 0..MaxSecrets
    BY <1>0
  <2>2. c \in Cookie /\ SameSession(c, cookie[b])
    <3> DEFINE was == cookie[b]
    <3>1. was \in Cookie
      BY <1>0
    <3> HIDE DEF s, was
    <3>2. QED
      BY <1>0, <2>1, <3>1, SessionSet
  <2>3. cookie' = [cookie EXCEPT ![b] = c]
    BY <1>0, <1>7 DEF ProofEnds, Cookie
  <2>4. UNCHANGED <<users, apiTokens, asking, syncing, stamps, secrets, said, owed>> /\ asking[b].step = "none"
    BY <1>7 DEF ProofEnds
  <2> HIDE DEF c, s
  <2>5. QED
    BY <1>0, <1>3, <1>4, <2>1, <2>2, <2>3, <2>4
<1>8. ASSUME ConfirmMfa(b) PROVE Unproved
  <2> DEFINE i == cookie[b].id
  <2>1. users[i].status # "none" /\ asking[b].step = "none" /\ UNCHANGED <<users, apiTokens, syncing, stamps, secrets, said, owed>>
    BY <1>0, <1>8 DEF ConfirmMfa, Local, KnownAccounts
  <2>2. CASE MayConfirm(b, users[i]) /\ asking' = [asking EXCEPT ![b] = ReadRow("confirm", i)] /\ UNCHANGED cookie
    <3>1. PICK a \in Asking : a = ReadRow("confirm", i) /\ a.step = "confirm" /\ a.id = i /\ a.stamp = 0
      BY <1>0, RequestsTyped
    <3>2. /\ cookie[b].issued <= stamps' /\ stamps <= stamps' /\ stamps' \in 0..MaxStamps /\ secrets' \in 0..MaxSecrets
          /\ cookie' = [cookie EXCEPT ![b] = cookie[b]] /\ asking' = [asking EXCEPT ![b] = a]
          /\ users' \in [Ids -> Row] /\ \A j \in Ids : RowStep(j) /\ SecretKept(j)
      BY <1>0, <1>1, <1>2, <1>3, <2>1, <2>2, <3>1
    <3>3. users'[i].status # "none" /\ (users'[i].secret = NoSecret \/ cookie[b].proved # NoSecret)
      BY <2>1, <2>2 DEF MayConfirm
    <3>4. QED
      BY <1>0, <1>2, <2>1, <3>1, <3>2, <3>3, OneBrowser
  <2>3. CASE cookie' = [cookie EXCEPT ![b].setup = NoSecret, ![b].proved = NoSecret] /\ UNCHANGED asking
    <3> DEFINE c == [[cookie[b] EXCEPT !.setup = NoSecret] EXCEPT !.proved = NoSecret]
    <3>1. c \in Cookie /\ SameSession(c, cookie[b])
      <4> DEFINE was == cookie[b]
      <4>1. was \in Cookie
        BY <1>0
      <4> HIDE DEF was
      <4>2. QED
        BY <1>0, <4>1, SessionSet
    <3>2. cookie' = [cookie EXCEPT ![b] = c]
      BY <1>0, <2>3
    <3> HIDE DEF c
    <3>3. QED
      BY <1>0, <1>3, <1>4, <2>1, <2>3, <3>1, <3>2
  <2>4. QED
    BY <1>8, <2>2, <2>3 DEF ConfirmMfa
<1>9. ASSUME RequestFails(b) PROVE Unproved
  <2> DEFINE bare == [[cookie[b] EXCEPT !.setup = NoSecret] EXCEPT !.proved = NoSecret]
  <2>1. bare \in Cookie /\ SameSession(bare, cookie[b])
    <3> DEFINE was == cookie[b]
    <3>1. was \in Cookie
      BY <1>0
    <3> HIDE DEF was
    <3>2. QED
      BY <1>0, <3>1, SessionSet
  <2>2. PICK c \in {bare, cookie[b]} : cookie' = [cookie EXCEPT ![b] = c]
    BY <1>0, <1>9 DEF RequestFails, SetUp
  <2>3. /\ UNCHANGED <<users, apiTokens, syncing, stamps, secrets, said, owed>>
        /\ asking' = [asking EXCEPT ![b] = NotAsking] /\ NotAsking \in Asking /\ NotAsking.step = "none"
        /\ NotAsking.stamp = 0
    BY <1>9, RequestsTyped DEF RequestFails
  <2> HIDE DEF bare
  <2>4. /\ c \in Cookie /\ c.issued <= stamps' /\ stamps <= stamps' /\ stamps' \in 0..MaxStamps
        /\ secrets' \in 0..MaxSecrets /\ SameSession(c, cookie[b])
    BY <1>0, <1>2, <2>1, <2>2, <2>3 DEF SameSession
  <2>5. QED
    BY <1>3, <2>2, <2>3, <2>4, OneBrowser
<1>10. ASSUME DisableMfa(b) PROVE Unproved
  <2> DEFINE i == cookie[b].id
  <2> DEFINE row == [users[i] EXCEPT !.secret = NoSecret, !.codes = {}]
  <2>1. /\ row \in Row /\ row.secret = NoSecret /\ row.status = users[i].status /\ row.role = users[i].role
        /\ row.cutoff = users[i].cutoff
    <3> DEFINE was == users[i]
    <3>1. was \in Row /\ NoSecret \in 0..MaxSecrets /\ {} \in SUBSET Codes
      BY <1>0
    <3>2. row = [was EXCEPT !.secret = NoSecret, !.codes = {}]
      OBVIOUS
    <3> HIDE DEF was, row
    <3>3. /\ row \in Row /\ row.secret = NoSecret /\ row.status = was.status /\ row.role = was.role
          /\ row.cutoff = was.cutoff
      BY <3>1, <3>2 DEF Row
    <3>4. QED
      BY <3>3 DEF was
  <2>2. users' = [users EXCEPT ![i] = row]
    BY <1>0, <1>10 DEF DisableMfa
  <2>3. /\ UNCHANGED <<apiTokens, cookie, asking, syncing, stamps, secrets, said, owed>> /\ i \in Ids /\ asking[b].step = "none"
        /\ users[i].status # "none"
    BY <1>0, <1>10 DEF DisableMfa, Local, KnownAccounts
  <2> HIDE DEF row, i
  <2>4. said' \in [Ids -> Roles] /\ users[i].cutoff <= users[i].cutoff /\ (users'[i].status \in {"on", "off"} => users'[i].role = said'[i])
    <3>1. users'[i] = row /\ users[i].cutoff \in Int
      BY <1>0, <2>2, <2>3 DEF Row
    <3>2. QED
      BY <1>0, <2>1, <2>3, <3>1 DEF AccountInv, AccountTypeOK, RolesAsSaid, Exists
  <2>5. users' \in [Ids -> Row] /\ \A j \in Ids : RowStep(j) /\ SecretKept(j)
    BY <2>1, <2>2, <2>3, <2>4, OneRow
  <2>6. QED
    BY <1>0, <2>3, <2>5, NoBrowser DEF AccountTypeOK
<1>11. QED
  BY <1>5, <1>6, <1>7, <1>8, <1>9, <1>10
\* What the administrator and the directory write, and the tokens.
LEMMA AdministratorInv ==
    ASSUME AccountInv,
           \/ SyncWrite
           \/ \E b \in Browsers, role \in Roles : CreateToken(b, role)
           \/ \E i \in Ids :
                 \/ LockEnds(i) \/ ToggleUser(i) \/ ResetPassword(i) \/ DeleteUser(i) \/ SyncRead(i) \/ EndToken(i)
                 \/ \E role \in Roles : SetRole(i, role) \/ \E password \in BOOLEAN : CreateUser(i, role, password)
    PROVE  Unproved
<1> USE AccountConstants
<1>0. /\ AccountTypeOK /\ users \in [Ids -> Row] /\ apiTokens \in [Ids -> Roles \cup {NoApiToken}]
      /\ syncing \in Syncing /\ said \in [Ids -> Roles] /\ \A i \in Ids : users[i].role \in Roles /\ users[i].cutoff <= users[i].cutoff
  BY DEF AccountInv, AccountTypeOK, Row
<1>1. UNCHANGED <<users, said>> => users' \in [Ids -> Row] /\ \A i \in Ids : RowStep(i) /\ SecretKept(i)
  BY RowsStay
\* A step that writes one row of an account there is, or makes one.
<1>2. ASSUME NEW i \in Ids, NEW row \in Row, users' = [users EXCEPT ![i] = row], row.status # "none",
             users[i].status # "gone", users[i].status # "none" => row.cutoff = users[i].cutoff \/ row.status = "gone",
             row.secret \in {NoSecret, users[i].secret}, row.status \in {"on", "off"} => row.role = said'[i],
             said' \in [Ids -> Roles], \A j \in Ids \ {i} : said'[j] = said[j],
             apiTokens' \in [Ids -> Roles \cup {NoApiToken}], UNCHANGED <<cookie, asking, syncing, stamps, secrets, owed>>
      PROVE  Unproved
  <2>1. users'[i] = row
    BY <1>0, <1>2
  <2>2. users[i].status # "none" => row.status = "gone" \/ users[i].cutoff <= row.cutoff
    BY <1>0, <1>2
  <2>3. users' \in [Ids -> Row] /\ \A j \in Ids : RowStep(j) /\ SecretKept(j)
    BY <1>2, <2>1, <2>2, OneRow
  <2>4. QED
    BY <1>0, <1>2, <2>3, NoBrowser
<1>3. ASSUME NEW i \in Ids, LockEnds(i) PROVE Unproved
  <2> DEFINE row == [users[i] EXCEPT !.locked = FALSE]
  <2>1. row \in Row /\ Alike(row, users[i])
    BY <1>0, RowCounted
  <2>2. users' = [users EXCEPT ![i] = row]
    BY <1>3 DEF LockEnds
  <2> HIDE DEF row
  <2>3. users' \in [Ids -> Row] /\ \A j \in Ids : RowStep(j) /\ SecretKept(j)
    BY <1>3, <2>1, <2>2, OneRowAlike DEF LockEnds
  <2>4. QED
    BY <1>0, <1>3, <2>3, NoBrowser DEF LockEnds
<1>4. ASSUME NEW i \in Ids, ResetPassword(i) PROVE Unproved
  <2> DEFINE row == [users[i] EXCEPT !.password = TRUE, !.failed = 0, !.locked = FALSE]
  <2>1. row \in Row /\ Alike(row, users[i])
    BY <1>0, RowGiven
  <2>2. users' = [users EXCEPT ![i] = row]
    BY <1>4 DEF ResetPassword, Change
  <2> HIDE DEF row
  <2>3. users' \in [Ids -> Row] /\ \A j \in Ids : RowStep(j) /\ SecretKept(j)
    BY <1>4, <2>1, <2>2, OneRowAlike DEF ResetPassword
  <2>4. QED
    BY <1>0, <1>4, <2>3, NoBrowser DEF ResetPassword
<1>5. ASSUME NEW i \in Ids, ToggleUser(i) PROVE Unproved
  <2> DEFINE status == IF users[i].status = "on" THEN "off" ELSE "on"
  <2> DEFINE row == [users[i] EXCEPT !.status = status]
  <2>1. row \in Row /\ row.status \in {"on", "off"} /\ row.role = users[i].role /\ row.cutoff = users[i].cutoff
        /\ row.secret = users[i].secret
    <3> DEFINE was == users[i]
    <3>1. was \in Row /\ status \in {"on", "off"}
      BY <1>0
    <3>2. row = [was EXCEPT !.status = status]
      OBVIOUS
    <3> HIDE DEF was, status, row
    <3>3. row \in Row /\ row.status \in {"on", "off"} /\ row.role = was.role /\ row.cutoff = was.cutoff /\ row.secret = was.secret
      BY <3>1, <3>2 DEF Row
    <3>4. QED
      BY <3>3 DEF was
  <2>2. users' = [users EXCEPT ![i] = row] /\ Exists(i)
    BY <1>0, <1>5 DEF ToggleUser, Change, Row
  <2>3. UNCHANGED <<apiTokens, cookie, asking, syncing, stamps, secrets, said, owed>> /\ users[i].role = said[i]
    BY <1>5, <2>2 DEF ToggleUser, AccountInv, RolesAsSaid
  <2> HIDE DEF row
  <2>4. QED
    BY <1>0, <1>2, <2>1, <2>2, <2>3 DEF Exists
<1>6. ASSUME NEW i \in Ids, DeleteUser(i) PROVE Unproved
  <2> DEFINE row == [NoRow EXCEPT !.status = "gone"]
  <2>1. row \in Row /\ row.status = "gone" /\ row.secret = NoSecret
    BY RowsTyped
  <2>2. users' = [users EXCEPT ![i] = row] /\ Exists(i)
    BY <1>6 DEF DeleteUser, Change
  <2>3. UNCHANGED <<cookie, asking, syncing, stamps, secrets, said, owed>> /\ apiTokens' \in [Ids -> Roles \cup {NoApiToken}]
    BY <1>0, <1>6 DEF DeleteUser
  <2> HIDE DEF row
  <2>4. QED
    BY <1>0, <1>2, <2>1, <2>2, <2>3 DEF Exists
<1>7. ASSUME NEW i \in Ids, NEW role \in Roles, SetRole(i, role) PROVE Unproved
  <2> DEFINE row == [users[i] EXCEPT !.role = role]
  <2>1. row \in Row /\ row.status = users[i].status /\ row.role = role /\ row.cutoff = users[i].cutoff
        /\ row.secret = users[i].secret
    <3> DEFINE was == users[i]
    <3>1. was \in Row
      BY <1>0
    <3>2. row = [was EXCEPT !.role = role]
      OBVIOUS
    <3> HIDE DEF was, row
    <3>3. row \in Row /\ row.status = was.status /\ row.role = role /\ row.cutoff = was.cutoff /\ row.secret = was.secret
      BY <3>1, <3>2 DEF Row
    <3>4. QED
      BY <3>3 DEF was
  <2>2. users' = [users EXCEPT ![i] = row] /\ Exists(i)
    BY <1>0, <1>7 DEF SetRole, Change
  <2>3. UNCHANGED <<apiTokens, cookie, asking, syncing, stamps, secrets, owed>> /\ said' = [said EXCEPT ![i] = role]
    BY <1>7 DEF SetRole
  <2>4. said' \in [Ids -> Roles] /\ said'[i] = role /\ \A j \in Ids \ {i} : said'[j] = said[j]
    BY <1>0, <2>3
  <2> HIDE DEF row
  <2>5. QED
    BY <1>0, <1>2, <2>1, <2>2, <2>3, <2>4 DEF Exists
<1>8. ASSUME NEW i \in Ids, NEW role \in Roles, NEW password \in BOOLEAN, CreateUser(i, role, password) PROVE Unproved
  <2> DEFINE row == [NoRow EXCEPT !.status = "on", !.role = role, !.password = password]
  <2>1. row \in Row /\ row.status = "on" /\ row.role = role /\ row.secret = NoSecret
    <3>1. NoRow \in Row /\ NoRow.secret = NoSecret
      BY RowsTyped
    <3>2. row = [NoRow EXCEPT !.status = "on", !.role = role, !.password = password]
      OBVIOUS
    <3> HIDE DEF row
    <3>3. QED
      BY <3>1, <3>2 DEF Row
  <2>2. users' = [users EXCEPT ![i] = row] /\ users[i].status = "none" /\ said' = [said EXCEPT ![i] = role]
        /\ UNCHANGED <<apiTokens, cookie, asking, syncing, stamps, secrets, owed>>
    BY <1>8 DEF CreateUser
  <2>3. said' \in [Ids -> Roles] /\ said'[i] = role /\ \A j \in Ids \ {i} : said'[j] = said[j]
    BY <1>0, <2>2
  <2> HIDE DEF row
  <2>4. QED
    BY <1>0, <1>2, <2>1, <2>2, <2>3
<1>9. ASSUME NEW i \in Ids, SyncRead(i) PROVE Unproved
  <2>1. syncing' \in Syncing
    BY <1>0, <1>9 DEF SyncRead, Syncing
  <2>2. QED
    BY <1>0, <1>1, <1>9, <2>1, NoBrowser DEF SyncRead
<1>10. ASSUME SyncWrite PROVE Unproved
  <2> DEFINE i == syncing.id
  <2>1. i \in Ids /\ syncing.role \in Roles
    BY <1>0 DEF Syncing
  <2>2. PICK status \in {"on", "off"}, named \in Roles \cup {"none"} :
           LET role == IF named = "none" THEN syncing.role ELSE named IN
           /\ users' = WithRow(i, [users[i] EXCEPT !.status = status, !.role = role])
           /\ said' = IF named = "none" /\ said[i] = syncing.role THEN said
                      ELSE [said EXCEPT ![i] = IF named = "none" THEN users'[i].role ELSE named]
    BY <1>10 DEF SyncWrite, KeptRole
  <2> DEFINE role == IF named = "none" THEN syncing.role ELSE named
  <2> DEFINE row == [users[i] EXCEPT !.status = status, !.role = role]
  <2>3. role \in Roles /\ users' = WithRow(i, row)
    BY <2>1, <2>2
  <2>4. row \in Row /\ row.status = status /\ row.role = role /\ row.cutoff = users[i].cutoff /\ row.secret = users[i].secret
    <3> DEFINE was == users[i]
    <3>1. was \in Row
      BY <1>0, <2>1
    <3>2. row = [was EXCEPT !.status = status, !.role = role]
      OBVIOUS
    <3> HIDE DEF was, row, role
    <3>3. row \in Row /\ row.status = status /\ row.role = role /\ row.cutoff = was.cutoff /\ row.secret = was.secret
      BY <2>3, <3>1, <3>2 DEF Row
    <3>4. QED
      BY <3>3 DEF was
  <2> HIDE DEF row
  <2>5. IF Exists(i) THEN users'[i] = row ELSE users'[i] = users[i]
    BY <1>0, <2>1, <2>3 DEF WithRow
  <2>6. users'[i].role \in Roles
    BY <1>0, <2>1, <2>3, <2>4, <2>5
  <2>7. said' \in [Ids -> Roles] /\ \A j \in Ids \ {i} : said'[j] = said[j]
    BY <1>0, <2>1, <2>2, <2>6
  <2>8. users'[i].status \in {"on", "off"} => users'[i].role = said'[i]
    <3>1. CASE Exists(i)
      <4>1. users'[i].role = role
        BY <2>4, <2>5, <3>1
      <4>2. CASE named = "none" /\ said[i] = syncing.role
        BY <2>2, <4>1, <4>2
      <4>3. CASE named = "none" /\ said[i] # syncing.role
        BY <1>0, <2>1, <2>2, <4>3
      <4>4. CASE named # "none"
        BY <1>0, <2>1, <2>2, <4>1, <4>4
      <4>5. QED
        BY <4>2, <4>3, <4>4
    <3>2. CASE ~Exists(i)
      BY <2>5, <3>2 DEF Exists
    <3>3. QED
      BY <3>1, <3>2
  <2>9. users[i].cutoff <= row.cutoff /\ row.status # "none"
    BY <1>0, <2>1, <2>4
  <2> HIDE DEF i
  <2>10. users' \in [Ids -> Row] /\ \A j \in Ids : RowStep(j) /\ SecretKept(j)
    BY <2>1, <2>3, <2>4, <2>7, <2>8, <2>9, OneRow
  <2>11. syncing' \in Syncing /\ UNCHANGED <<apiTokens, cookie, asking, stamps, secrets, owed>>
    <3>1. (CHOOSE j \in Ids : TRUE) \in Ids
      OBVIOUS
    <3>2. QED
      BY <1>10, <3>1 DEF SyncWrite, NotSyncing, Syncing
  <2>12. QED
    BY <1>0, <2>7, <2>10, <2>11, NoBrowser
<1>11. ASSUME NEW b \in Browsers, NEW role \in Roles, CreateToken(b, role) PROVE Unproved
  <2>1. apiTokens' \in [Ids -> Roles \cup {NoApiToken}]
    BY <1>0, <1>11 DEF CreateToken
  <2>2. QED
    BY <1>0, <1>1, <1>11, <2>1, NoBrowser DEF CreateToken
<1>12. ASSUME NEW i \in Ids, EndToken(i) PROVE Unproved
  <2>1. apiTokens' \in [Ids -> Roles \cup {NoApiToken}]
    BY <1>0, <1>12 DEF EndToken
  <2>2. QED
    BY <1>0, <1>1, <1>12, <2>1, NoBrowser DEF EndToken
<1>13. QED
  BY <1>3, <1>4, <1>5, <1>6, <1>7, <1>8, <1>9, <1>10, <1>11, <1>12
\* What ending the sessions of an account makes of them, and of requests.
LEMMA SessionsMarked ==
    ASSUME NEW i \in Ids, AccountTypeOK
    PROVE  /\ AllOld(i) \in [Browsers -> Cookie]
           /\ \A c \in Browsers :
                 /\ AllOld(i)[c].old => cookie[c].old \/ (cookie[c].kind = "user" /\ cookie[c].id = i)
                 /\ AllOld(i)[c].kind = cookie[c].kind /\ AllOld(i)[c].id = cookie[c].id
                 /\ AllOld(i)[c].issued = cookie[c].issued /\ AllOld(i)[c].proved = cookie[c].proved
<1>1. ASSUME NEW c \in Browsers
      PROVE  LET marked == [cookie[c] EXCEPT !.old = TRUE] IN
             /\ marked \in Cookie /\ marked.kind = cookie[c].kind /\ marked.id = cookie[c].id
             /\ marked.issued = cookie[c].issued /\ marked.proved = cookie[c].proved
  BY DEF Cookie, AccountTypeOK
<1>2. cookie \in [Browsers -> Cookie]
  BY DEF AccountTypeOK
<1>3. QED
  BY <1>1, <1>2 DEF AllOld

LEMMA RequestsMarked ==
    ASSUME NEW i \in Ids, AccountTypeOK
    PROVE  /\ Interrupted(i) \in [Browsers -> Asking]
           /\ \A c \in Browsers :
                 /\ Interrupted(i)[c].step = asking[c].step /\ Interrupted(i)[c].id = asking[c].id
                 /\ Interrupted(i)[c].stamp = asking[c].stamp
                 /\ asking[c].step # "none" /\ asking[c].id = i => Interrupted(i)[c].late
                 /\ ~(asking[c].step # "none" /\ asking[c].id = i) => Interrupted(i)[c] = asking[c]
                 /\ Interrupted(i)[c].late \/ Interrupted(i)[c].late = asking[c].late
<1>1. ASSUME NEW c \in Browsers
      PROVE  LET marked == [asking[c] EXCEPT !.late = TRUE] IN
             /\ marked \in Asking /\ marked.step = asking[c].step /\ marked.id = asking[c].id
             /\ marked.stamp = asking[c].stamp /\ marked.late
  <2>1. asking[c] \in Asking
    BY DEF AccountTypeOK
  <2>2. QED
    BY <2>1, RequestsTyped
<1>2. asking \in [Browsers -> Asking]
  BY DEF AccountTypeOK
<1>3. QED
  BY <1>1, <1>2 DEF Interrupted

\* A request that begins to end the sessions of an account: all are old but
\* its own, what others end of that account is too late, and so is this one
\* when others do.
LEMMA EndsBegin ==
    ASSUME AccountInv, AccountTypeOK', NEW b \in Browsers, NEW i \in Ids, owed' = owed \cup {i},
           \A j \in Ids : RowStep(j), asking[b].step \notin Ends,
           \A c \in Browsers :
               /\ cookie'[c].kind = cookie[c].kind /\ cookie'[c].id = cookie[c].id /\ cookie'[c].issued = cookie[c].issued
               /\ cookie'[c].old => cookie[c].old \/ (cookie[c].kind = "user" /\ cookie[c].id = i),
           \A c \in Browsers \ {b} : asking'[c] = Interrupted(i)[c],
           asking'[b].step \in {"replaced", "reset"}, asking'[b].id = i, asking'[b].late = Overlaps(i),
           asking'[b].step = "replaced" => cookie'[b].id = i /\ ~cookie'[b].old
    PROVE  EndsKept'
<1>1. \A c \in Browsers : /\ cookie[c].id \in Ids /\ asking[c].id \in Ids /\ asking[c].late \in BOOLEAN
                          /\ asking'[c].late \in BOOLEAN
  BY DEF AccountInv, AccountTypeOK, Cookie, Asking
<1>2. \A j \in Ids : users[j].cutoff \in Int /\ users'[j].cutoff \in Int
  BY DEF AccountInv, AccountTypeOK, Row
<1>3. \A c \in Browsers \ {b} :
         /\ asking'[c].step = asking[c].step /\ asking'[c].id = asking[c].id /\ asking'[c].stamp = asking[c].stamp
         /\ asking[c].step # "none" /\ asking[c].id = i => asking'[c].late
         /\ asking'[c].late \/ asking'[c].late = asking[c].late
  BY RequestsMarked DEF AccountInv
<1>4. ASSUME NEW c \in Browsers PROVE Moments(c)' \subseteq Moments(c)
  BY <1>3 DEF Moments
<1>5. ASSUME NEW c \in Browsers, NEW n \in Moments(c) PROVE n \in Int
  BY <1>5 DEF Moments, AccountInv, AccountTypeOK, Cookie, Asking
<1>6. EndedBefore'
  <2> SUFFICES ASSUME NEW c \in Browsers, cookie'[c].old
               PROVE  /\ cookie'[c].kind = "user"
                      /\ \/ users'[cookie'[c].id].status = "gone" \/ cookie'[c].id \in owed'
                         \/ \A n \in Moments(c)' : n < users'[cookie'[c].id].cutoff
    BY DEF EndedBefore
  <2>1. CASE cookie[c].kind = "user" /\ cookie[c].id = i
    BY <2>1
  <2>2. CASE cookie[c].old
    <3> DEFINE j == cookie[c].id
    <3>1. cookie[c].kind = "user" /\ cookie'[c].id = j /\ cookie'[c].kind = "user" /\ j \in Ids /\ users[j].status # "none"
          /\ (users[j].status = "gone" \/ j \in owed \/ \A n \in Moments(c) : n < users[j].cutoff)
      BY <1>1, <2>2 DEF AccountInv, EndsKept, EndedBefore, KnownAccounts
    <3>2. RowStep(j)
      BY <3>1
    <3> HIDE DEF j
    <3>3. CASE users[j].status = "gone" \/ j \in owed \/ users'[j].status = "gone"
      BY <3>1, <3>2, <3>3 DEF RowStep
    <3>4. CASE users[j].cutoff <= users'[j].cutoff /\ \A n \in Moments(c) : n < users[j].cutoff
      BY <1>2, <1>4, <1>5, <3>1, <3>4
    <3>5. QED
      BY <3>1, <3>2, <3>3, <3>4 DEF RowStep
  <2>3. QED
    BY <2>1, <2>2
<1>7. EndsTheOld'
  <2> SUFFICES ASSUME NEW x \in Browsers, NEW c \in Browsers, asking'[x].step \in {"others", "all"}, ~asking'[x].late,
                      cookie'[c].old, cookie'[c].id = asking'[x].id, NEW n \in Moments(c)'
               PROVE  n < asking'[x].stamp
    BY DEF EndsTheOld
  <2>1. x # b
    OBVIOUS
  <2>2. /\ asking[x].step \in {"others", "all"} /\ ~asking[x].late /\ asking[x].id # i
        /\ asking'[x].id = asking[x].id /\ asking'[x].stamp = asking[x].stamp
    BY <1>1, <1>3, <2>1
  <2>3. cookie[c].old /\ cookie[c].id = asking[x].id /\ n \in Moments(c)
    BY <1>4, <2>2
  <2>4. QED
    BY <2>2, <2>3 DEF AccountInv, EndsKept, EndsTheOld
<1>8. EndsAlone'
  <2> SUFFICES ASSUME NEW x \in Browsers, NEW c \in Browsers, x # c, asking'[x].step \in Ends, asking'[c].step \in Ends,
                      asking'[x].id = asking'[c].id
               PROVE  asking'[x].late
    BY DEF EndsAlone
  <2>1. CASE x = b
    <3>1. asking[c].step \in Ends /\ asking[c].id = i
      BY <1>3, <2>1
    <3>2. QED
      BY <2>1, <3>1 DEF Overlaps
  <2>2. CASE c = b
    <3>1. asking[x].step \in Ends /\ asking[x].id = i
      BY <1>3, <2>2
    <3>2. QED
      BY <1>3, <2>2, <3>1 DEF Ends
  <2>3. CASE x # b /\ c # b
    BY <1>1, <1>3, <2>3 DEF AccountInv, EndsKept, EndsAlone
  <2>4. QED
    BY <2>1, <2>2, <2>3
<1>9. EndsOthers'
  <2> SUFFICES ASSUME NEW x \in Browsers
               PROVE  /\ asking'[x].step \in {"replaced", "others", "written"} => asking'[x].id = cookie'[x].id
                      /\ asking'[x].step \in {"replaced", "others"} /\ ~asking'[x].late => ~cookie'[x].old
    BY DEF EndsOthers
  <2>1. CASE x = b
    BY <2>1
  <2>2. CASE x # b
    BY <1>1, <1>3, <2>2 DEF AccountInv, EndsKept, EndsOthers
  <2>3. QED
    BY <2>1, <2>2
<1>10. QED
  BY <1>6, <1>7, <1>8, <1>9 DEF EndsKept

\* The first step of an administrator's reset.
LEMMA ResetInv ==
    ASSUME AccountInv, NEW b \in Browsers, NEW i \in Ids, ResetMfa(b, i)
    PROVE  Unproved
<1> USE AccountConstants
<1>0. /\ AccountTypeOK /\ users \in [Ids -> Row] /\ cookie \in [Browsers -> Cookie] /\ asking \in [Browsers -> Asking]
      /\ KnownAccounts /\ RolesAsSaid /\ NoSecret \in 0..MaxSecrets /\ stamps \in Int /\ 0 <= stamps
      /\ \A c \in Browsers : cookie[c].issued <= stamps /\ asking[c].stamp <= stamps /\ asking[c].id \in Ids
      /\ \A j \in Ids : users[j].cutoff \in Int
  BY DEF AccountInv, AccountTypeOK, Asking, Row, MomentsPast, NoSecret
<1> DEFINE row == [users[i] EXCEPT !.secret = NoSecret, !.codes = {}]
<1> DEFINE mine == [NotAsking EXCEPT !.step = "reset", !.id = i, !.late = Overlaps(i)]
<1>1. Exists(i) /\ users' = [users EXCEPT ![i] = row] /\ asking[b].step = "none"
  BY DEF ResetMfa, Change
<1>2. /\ row \in Row /\ row.secret = NoSecret /\ row.status = users[i].status /\ row.role = users[i].role
      /\ row.cutoff = users[i].cutoff
  <2> DEFINE was == users[i]
  <2>1. was \in Row /\ {} \in SUBSET Codes
    BY <1>0
  <2>2. row = [was EXCEPT !.secret = NoSecret, !.codes = {}]
    OBVIOUS
  <2> HIDE DEF was, row
  <2>3. row \in Row /\ row.secret = NoSecret /\ row.status = was.status /\ row.role = was.role /\ row.cutoff = was.cutoff
    BY <1>0, <2>1, <2>2 DEF Row
  <2>4. QED
    BY <2>3 DEF was
<1>3. mine \in Asking /\ mine.step = "reset" /\ mine.id = i /\ mine.late = Overlaps(i) /\ mine.stamp = 0
  <2>1. Overlaps(i) \in BOOLEAN
    BY DEF Overlaps
  <2>2. NotAsking \in Asking /\ NotAsking.stamp = 0
    BY RequestsTyped
  <2>3. QED
    BY <2>1, <2>2 DEF Asking, Ends
<1>4. /\ cookie' = AllOld(i) /\ asking' = [Interrupted(i) EXCEPT ![b] = mine] /\ owed' = owed \cup {i}
      /\ UNCHANGED <<apiTokens, syncing, stamps, secrets, said>>
  BY DEF ResetMfa
<1> HIDE DEF row, mine
<1>5. asking' \in [Browsers -> Asking] /\ asking'[b] = mine /\ \A c \in Browsers \ {b} : asking'[c] = Interrupted(i)[c]
  BY <1>0, <1>3, <1>4, RequestsMarked
<1>6. users' \in [Ids -> Row] /\ users'[i] = row /\ \A j \in Ids \ {i} : users'[j] = users[j]
  BY <1>0, <1>1, <1>2
<1>7. AccountTypeOK'
  BY <1>0, <1>4, <1>5, <1>6, SessionsMarked DEF AccountTypeOK
<1>8. \A j \in Ids : RowStep(j) /\ SecretKept(j)
  <2>1. \A j \in Ids \ {i} : RowStep(j) /\ SecretKept(j)
    BY <1>0, <1>4, <1>6 DEF RowStep, SecretKept, RolesAsSaid, Exists
  <2>2. RowStep(i) /\ SecretKept(i)
    BY <1>0, <1>1, <1>2, <1>4, <1>6 DEF RowStep, SecretKept, RolesAsSaid, Exists
  <2>3. QED
    BY <2>1, <2>2
<1>9. \A c \in Browsers :
         /\ cookie'[c].kind = cookie[c].kind /\ cookie'[c].id = cookie[c].id /\ cookie'[c].issued = cookie[c].issued
         /\ cookie'[c].proved = cookie[c].proved
         /\ cookie'[c].old => cookie[c].old \/ (cookie[c].kind = "user" /\ cookie[c].id = i)
  BY <1>0, <1>4, SessionsMarked
<1>10. \A c \in Browsers : CookieStep(c)
  BY <1>0, <1>4, <1>9 DEF CookieStep
<1>11. ASSUME NEW c \in Browsers PROVE AskStep(c)
  <2>1. CASE c = b
    BY <1>0, <1>1, <1>2, <1>3, <1>4, <1>5, <1>6, <2>1 DEF AskStep, Exists
  <2>2. CASE c # b
    <3>1. SecretKept(asking[c].id)
      BY <1>0, <1>8
    <3>2. asking'[c].step = asking[c].step /\ asking'[c].id = asking[c].id /\ asking'[c].stamp = asking[c].stamp
          /\ (asking'[c].late \/ asking'[c].late = asking[c].late)
      BY <1>0, <1>5, <2>2, RequestsMarked
    <3>3. QED
      BY <1>0, <1>4, <1>9, <3>1, <3>2 DEF AskStep
  <2>3. QED
    BY <2>1, <2>2
<1>12. EndsKept'
  BY <1>1, <1>3, <1>4, <1>5, <1>7, <1>8, <1>9, EndsBegin DEF Ends
<1>13. stamps <= stamps' /\ \A j \in Ids : RowLives(j)
  BY <1>0, <1>4, <1>8 DEF RowStep, RowLives
<1>14. QED
  BY <1>7, <1>8, <1>10, <1>11, <1>12, <1>13, KnownStepInv DEF Unproved, AccountInv

\* A moment is taken: it is later than any there was.
LEMMA TakeInv ==
    ASSUME AccountInv, NEW b \in Browsers, TakeStamp(b)
    PROVE  Unproved
<1>0. /\ AccountTypeOK /\ asking \in [Browsers -> Asking] /\ KnownAccounts /\ stamps \in 0..MaxStamps
      /\ asking[b] \in Asking /\ asking[b].id \in Ids
      /\ \A c \in Browsers : /\ cookie[c].issued \in Int /\ asking[c].stamp \in Int /\ asking[c].id \in Ids
                             /\ cookie[c].issued <= stamps /\ asking[c].stamp <= stamps
  BY DEF AccountInv, AccountTypeOK, Asking, Cookie, MomentsPast
<1> DEFINE n == stamps + 1
<1> DEFINE step == IF asking[b].step = "replaced" THEN "others" ELSE "all"
<1> DEFINE mine == [asking[b] EXCEPT !.step = step, !.stamp = n]
<1>1. n \in 0..MaxStamps /\ stamps' = n /\ asking[b].step \in {"replaced", "reset"}
      /\ asking' = [asking EXCEPT ![b] = mine] /\ UNCHANGED <<users, apiTokens, cookie, syncing, secrets, said, owed>>
  <2>1. n \in 0..MaxStamps /\ stamps' = n /\ asking[b].step \in {"replaced", "reset"}
    BY <1>0, AccountConstants DEF TakeStamp
  <2>2. asking' = [asking EXCEPT ![b] = mine]
    BY DEF TakeStamp
  <2>3. QED
    BY <2>1, <2>2 DEF TakeStamp
<1>2. mine \in Asking /\ mine.step = step /\ mine.id = asking[b].id /\ mine.stamp = n /\ mine.late = asking[b].late
  <2> DEFINE was == asking[b]
  <2>1. was \in Asking /\ step \in Ends /\ mine = [was EXCEPT !.step = step, !.stamp = n]
    BY <1>0 DEF Ends
  <2> HIDE DEF was, mine, step, n
  <2>2. mine \in Asking /\ mine.step = step /\ mine.id = was.id /\ mine.stamp = n /\ mine.late = was.late
    BY <1>1, <2>1 DEF Asking, Ends
  <2>3. QED
    BY <2>2 DEF was
<1> HIDE DEF mine, n
<1>3. asking' \in [Browsers -> Asking] /\ asking'[b] = mine /\ \A c \in Browsers \ {b} : asking'[c] = asking[c]
  BY <1>0, <1>1, <1>2
<1>4. AccountTypeOK' /\ stamps <= stamps' /\ stamps < n
  BY <1>0, <1>1, <1>3 DEF AccountTypeOK, n
<1>5. \A j \in Ids : RowLives(j) /\ SecretKept(j)
  BY <1>1, RowsStay DEF RowStep, RowLives
<1>6. \A c \in Browsers : CookieStep(c)
  BY <1>0, <1>1, <1>4 DEF CookieStep, n
<1>7. \A c \in Browsers : AskStep(c)
  <2> SUFFICES ASSUME NEW c \in Browsers PROVE AskStep(c)
    OBVIOUS
  <2>1. CASE c = b
    BY <1>0, <1>1, <1>2, <1>3, <2>1 DEF AskStep, KnownAccounts, n
  <2>2. CASE c # b
    BY <1>0, <1>1, <1>3, <1>5, <2>2 DEF AskStep, n
  <2>3. QED
    BY <2>1, <2>2
<1>8. EndsKept'
  <2>1. ASSUME NEW c \in Browsers PROVE Moments(c)' \subseteq Moments(c)
    BY <1>1, <1>2, <1>3 DEF Moments
  <2>2. ASSUME NEW c \in Browsers, NEW m \in Moments(c) PROVE m \in Int /\ m <= stamps
    BY <1>0, <2>2 DEF Moments
  <2>3. EndedBefore'
    BY <1>1, <2>1 DEF AccountInv, EndsKept, EndedBefore
  <2>4. EndsTheOld'
    <3> SUFFICES ASSUME NEW x \in Browsers, NEW c \in Browsers, asking'[x].step \in {"others", "all"}, ~asking'[x].late,
                        cookie'[c].old, cookie'[c].id = asking'[x].id, NEW m \in Moments(c)'
                 PROVE  m < asking'[x].stamp
      BY DEF EndsTheOld
    <3>1. m \in Moments(c) /\ m \in Int /\ m <= stamps
      BY <2>1, <2>2
    <3>2. CASE x = b
      BY <1>0, <1>1, <1>2, <1>3, <1>4, <3>1, <3>2
    <3>3. CASE x # b
      BY <1>1, <1>3, <3>1, <3>3 DEF AccountInv, EndsKept, EndsTheOld
    <3>4. QED
      BY <3>2, <3>3
  <2>5. EndsAlone'
    BY <1>1, <1>2, <1>3 DEF AccountInv, EndsKept, EndsAlone, Ends
  <2>6. EndsOthers'
    BY <1>1, <1>2, <1>3 DEF AccountInv, EndsKept, EndsOthers
  <2>7. QED
    BY <2>3, <2>4, <2>5, <2>6 DEF EndsKept
<1>9. QED
  BY <1>4, <1>5, <1>6, <1>7, <1>8, KnownStepInv DEF Unproved, AccountInv

\* The moment is written: who is late leaves the account owed.
LEMMA EndSessionsInv ==
    ASSUME AccountInv, NEW b \in Browsers, EndSessions(b)
    PROVE  Unproved
<1>0. /\ AccountTypeOK /\ users \in [Ids -> Row] /\ asking \in [Browsers -> Asking] /\ KnownAccounts /\ RolesAsSaid
      /\ stamps \in Int /\ 0 <= stamps /\ asking[b] \in Asking /\ asking[b].stamp \in 0..MaxStamps
      /\ \A c \in Browsers : /\ cookie[c].issued <= stamps /\ asking[c].stamp <= stamps /\ asking[c].id \in Ids
                             /\ cookie[c].id \in Ids
  BY DEF AccountInv, AccountTypeOK, Asking, Cookie, MomentsPast
<1> DEFINE i == asking[b].id
<1> DEFINE row == [users[i] EXCEPT !.cutoff = asking[b].stamp]
<1> DEFINE mine == IF asking[b].step = "others" THEN [asking[b] EXCEPT !.step = "written"] ELSE NotAsking
<1>1. /\ asking[b].step \in {"others", "all"} /\ users' = WithRow(i, row) /\ asking' = [asking EXCEPT ![b] = mine]
      /\ UNCHANGED <<apiTokens, cookie, syncing, stamps, secrets, said>>
      /\ owed' = (IF asking[b].late THEN owed \cup {i} ELSE owed \ {i}) /\ i \in Ids /\ users[i].status # "none"
  BY <1>0 DEF EndSessions, KnownAccounts
<1>2. /\ row \in Row /\ row.secret = users[i].secret /\ row.status = users[i].status /\ row.role = users[i].role
      /\ row.cutoff = asking[b].stamp
  <2> DEFINE was == users[i]
  <2> DEFINE stamp == asking[b].stamp
  <2>1. was \in Row /\ stamp \in 0..MaxStamps /\ row = [was EXCEPT !.cutoff = stamp]
    BY <1>0, <1>1
  <2> HIDE DEF was, row, stamp
  <2>2. row \in Row /\ row.secret = was.secret /\ row.status = was.status /\ row.role = was.role /\ row.cutoff = stamp
    BY <2>1 DEF Row
  <2>3. QED
    BY <2>2 DEF was, stamp
<1>3. /\ mine \in Asking /\ mine.stamp \in {0, asking[b].stamp}
      /\ \/ asking[b].step = "others" /\ mine.step = "written" /\ mine.id = i /\ mine.stamp = asking[b].stamp
         \/ asking[b].step = "all" /\ mine.step = "none"
  <2>1. CASE asking[b].step = "others"
    BY <1>0, <2>1 DEF Asking
  <2>2. CASE asking[b].step = "all"
    BY <2>2, RequestsTyped
  <2>3. QED
    BY <1>1, <2>1, <2>2
<1> HIDE DEF row, mine
<1>4. asking' \in [Browsers -> Asking] /\ asking'[b] = mine /\ \A c \in Browsers \ {b} : asking'[c] = asking[c]
  BY <1>0, <1>1, <1>3
<1>5. /\ users' \in [Ids -> Row] /\ \A j \in Ids \ {i} : users'[j] = users[j]
      /\ IF Exists(i) THEN users'[i] = row ELSE users'[i] = users[i]
  BY <1>0, <1>1, <1>2 DEF WithRow
<1>6. AccountTypeOK' /\ stamps <= stamps'
  BY <1>0, <1>1, <1>4, <1>5 DEF AccountTypeOK
<1>7. \A j \in Ids : RowLives(j) /\ SecretKept(j)
  <2>1. \A j \in Ids \ {i} : RowLives(j) /\ SecretKept(j)
    BY <1>0, <1>1, <1>5 DEF RowLives, SecretKept, RolesAsSaid, Exists
  <2>2. RowLives(i) /\ SecretKept(i)
    BY <1>0, <1>1, <1>2, <1>5 DEF RowLives, SecretKept, RolesAsSaid, Exists
  <2>3. QED
    BY <2>1, <2>2
<1>8. \A c \in Browsers : CookieStep(c)
  BY <1>0, <1>1 DEF CookieStep
<1>9. \A c \in Browsers : AskStep(c)
  <2> SUFFICES ASSUME NEW c \in Browsers PROVE AskStep(c)
    OBVIOUS
  <2>1. CASE c = b
    BY <1>0, <1>1, <1>3, <1>4, <1>7, <2>1 DEF AskStep, RowLives
  <2>2. CASE c # b
    <3>1. SecretKept(asking[c].id)
      BY <1>0, <1>7
    <3>2. QED
      BY <1>0, <1>1, <1>4, <2>2, <3>1 DEF AskStep
  <2>3. QED
    BY <2>1, <2>2
<1>10. EndsKept'
  <2>1. ASSUME NEW c \in Browsers, c # b \/ asking[b].step = "all" PROVE Moments(c)' = Moments(c)
    BY <1>1, <1>3, <1>4, <2>1 DEF Moments
  <2>2. asking[b].step = "others" => cookie[b].id = i /\ (~asking[b].late => ~cookie[b].old)
    BY DEF AccountInv, EndsKept, EndsOthers
  <2>3. EndedBefore'
    <3> SUFFICES ASSUME NEW c \in Browsers, cookie[c].old
                 PROVE  /\ cookie[c].kind = "user"
                        /\ \/ users'[cookie[c].id].status = "gone" \/ cookie[c].id \in owed'
                           \/ \A n \in Moments(c)' : n < users'[cookie[c].id].cutoff
      BY <1>1 DEF EndedBefore
    <3>1. cookie[c].kind = "user" /\ cookie[c].id \in Ids
          /\ (users[cookie[c].id].status = "gone" \/ cookie[c].id \in owed \/ \A n \in Moments(c) : n < users[cookie[c].id].cutoff)
      BY <1>0 DEF AccountInv, EndsKept, EndedBefore
    <3>2. CASE cookie[c].id # i
      <4>1. users'[cookie[c].id] = users[cookie[c].id] /\ (cookie[c].id \in owed => cookie[c].id \in owed')
        BY <1>1, <1>5, <3>1, <3>2
      <4>2. c # b \/ asking[b].step = "all"
        BY <1>1, <2>2, <3>2
      <4>3. QED
        BY <2>1, <3>1, <4>1, <4>2
    <3>3. CASE cookie[c].id = i /\ asking[b].late
      BY <1>1, <3>1, <3>3
    <3>4. CASE cookie[c].id = i /\ ~asking[b].late
      <4>1. c # b \/ asking[b].step = "all"
        BY <1>1, <2>2, <3>4
      <4>2. \A n \in Moments(c)' : n < asking[b].stamp
        BY <1>1, <2>1, <3>4, <4>1 DEF AccountInv, EndsKept, EndsTheOld
      <4>3. CASE Exists(i)
        BY <1>2, <1>5, <3>1, <3>4, <4>2, <4>3
      <4>4. CASE ~Exists(i)
        <5>1. users'[i].status = "gone"
          BY <1>0, <1>1, <1>5, <4>4 DEF Exists, Row
        <5>2. QED
          BY <3>1, <3>4, <5>1
      <4>5. QED
        BY <4>3, <4>4
    <3>5. QED
      BY <3>2, <3>3, <3>4
  <2>4. EndsTheOld'
    <3> SUFFICES ASSUME NEW x \in Browsers, NEW c \in Browsers, asking'[x].step \in {"others", "all"}, ~asking'[x].late,
                        cookie[c].old, cookie[c].id = asking'[x].id, NEW n \in Moments(c)'
                 PROVE  n < asking'[x].stamp
      BY <1>1 DEF EndsTheOld
    <3>1. x # b /\ asking'[x] = asking[x]
      BY <1>3, <1>4
    <3>2. c # b \/ asking[b].step = "all"
      <4> SUFFICES ASSUME c = b, asking[b].step = "others" PROVE FALSE
        BY <1>1
      <4>1. asking[x].id = asking[b].id /\ asking[x].step \in Ends /\ asking[b].step \in Ends
        BY <2>2, <3>1 DEF Ends
      <4>2. QED
        BY <3>1, <4>1 DEF AccountInv, EndsKept, EndsAlone
    <3>3. QED
      BY <2>1, <3>1, <3>2 DEF AccountInv, EndsKept, EndsTheOld
  <2>5. EndsAlone'
    BY <1>3, <1>4 DEF AccountInv, EndsKept, EndsAlone, Ends
  <2>6. EndsOthers'
    BY <1>1, <1>3, <1>4, <2>2 DEF AccountInv, EndsKept, EndsOthers
  <2>7. QED
    BY <2>3, <2>4, <2>5, <2>6 DEF EndsKept
<1>11. QED
  BY <1>6, <1>7, <1>8, <1>9, <1>10, KnownStepInv DEF Unproved, AccountInv

\* The session of the replacement is stamped with that moment.
LEMMA EndMfaInv ==
    ASSUME AccountInv, NEW b \in Browsers, EndMfa(b)
    PROVE  Unproved
<1> USE AccountConstants
<1>0. /\ AccountTypeOK /\ cookie \in [Browsers -> Cookie] /\ asking \in [Browsers -> Asking] /\ KnownAccounts
      /\ cookie[b] \in Cookie /\ asking[b] \in Asking /\ asking[b].id \in Ids /\ asking[b].stamp \in 0..MaxStamps
      /\ NoSecret \in 0..MaxSecrets /\ stamps \in Int /\ 0 <= stamps
      /\ \A c \in Browsers : cookie[c].issued <= stamps /\ asking[c].stamp <= stamps /\ asking[c].id \in Ids
  BY DEF AccountInv, AccountTypeOK, Cookie, Asking, MomentsPast, NoSecret
<1> DEFINE bare == [[cookie[b] EXCEPT !.setup = NoSecret] EXCEPT !.proved = NoSecret]
<1> DEFINE stamped == [bare EXCEPT !.issued = asking[b].stamp]
<1> DEFINE stray == [NoCookie EXCEPT !.kind = "loose", !.id = asking[b].id, !.stray = TRUE]
<1>1. bare \in Cookie /\ SameSession(bare, cookie[b])
  <2> DEFINE was == cookie[b]
  <2>1. was \in Cookie
    BY <1>0
  <2> HIDE DEF was
  <2>2. QED
    BY <1>0, <2>1, SessionSet
<1>2. /\ stamped \in Cookie /\ stamped.kind = cookie[b].kind /\ stamped.id = cookie[b].id
      /\ stamped.issued = asking[b].stamp /\ stamped.old = cookie[b].old
  <2> DEFINE stamp == asking[b].stamp
  <2>1. stamp \in 0..MaxStamps /\ stamped = [bare EXCEPT !.issued = stamp]
    BY <1>0
  <2> HIDE DEF bare, stamped, stamp
  <2>2. /\ stamped \in Cookie /\ stamped.kind = bare.kind /\ stamped.id = bare.id
        /\ stamped.issued = stamp /\ stamped.old = bare.old
    BY <1>1, <2>1 DEF Cookie
  <2>3. QED
    BY <1>1, <2>2 DEF SameSession, stamp
<1>3. stray \in Cookie /\ stray.kind = "loose" /\ stray.issued = 0 /\ ~stray.old
  <2> DEFINE i == asking[b].id
  <2>1. i \in Ids /\ stray = [NoCookie EXCEPT !.kind = "loose", !.id = i, !.stray = TRUE]
    BY <1>0
  <2> HIDE DEF i, stray
  <2>2. QED
    BY <2>1, SessionsTyped
<1>4. PICK ck \in {stamped, stray} : cookie' = [cookie EXCEPT ![b] = ck]
  BY <1>0 DEF EndMfa, SetUp
<1>5. /\ asking[b].step = "written" /\ asking' = [asking EXCEPT ![b] = NotAsking]
      /\ UNCHANGED <<users, apiTokens, syncing, stamps, secrets, said, owed>>
      /\ NotAsking \in Asking /\ NotAsking.step = "none" /\ NotAsking.stamp = 0
  BY RequestsTyped DEF EndMfa
<1> HIDE DEF bare, stamped, stray
<1>6. /\ ck \in Cookie /\ ck.issued <= stamps
      /\ \/ ~ck.old /\ ck.kind # "user"
         \/ /\ ck.kind = cookie[b].kind /\ ck.id = cookie[b].id /\ ck.old = cookie[b].old
            /\ ck.issued = asking[b].stamp
  BY <1>0, <1>2, <1>3, <1>4
<1>7. /\ cookie' \in [Browsers -> Cookie] /\ cookie'[b] = ck /\ \A c \in Browsers \ {b} : cookie'[c] = cookie[c]
      /\ asking' \in [Browsers -> Asking] /\ asking'[b] = NotAsking /\ \A c \in Browsers \ {b} : asking'[c] = asking[c]
  BY <1>0, <1>4, <1>5, <1>6
<1>8. AccountTypeOK' /\ stamps <= stamps'
  BY <1>0, <1>5, <1>7 DEF AccountTypeOK
<1>9. \A j \in Ids : RowStep(j) /\ SecretKept(j)
  BY <1>5, RowsStay
<1>10. \A c \in Browsers : CookieStep(c)
  BY <1>0, <1>5, <1>6, <1>7 DEF CookieStep
<1>11. \A c \in Browsers : AskStep(c)
  BY <1>0, <1>5, <1>7, <1>9 DEF AskStep
<1>12. ASSUME NEW c \in Browsers PROVE EndsStep(c)
  <2>1. CASE c = b
    BY <1>5, <1>6, <1>7, <2>1 DEF EndsStep, Moments, Ends
  <2>2. CASE c # b
    BY <1>7, <2>2 DEF EndsStep, Moments
  <2>3. QED
    BY <2>1, <2>2
<1>13. owed \subseteq owed'
  BY <1>5
<1>14. QED
  BY <1>8, <1>9, <1>10, <1>11, <1>12, <1>13, AccountStepInv DEF Unproved

\* Only a session that confirms a setup of its own account gives the account
\* another authenticator, and only with the proof it needs.
OnProof ==
    \A i \in Ids :
        users[i].secret # NoSecret /\ users'[i].secret \notin {NoSecret, users[i].secret} =>
            \E b \in Browsers :
                /\ asking[b].step = "confirm" /\ asking[b].id = i /\ cookie[b].setup = users'[i].secret
                /\ cookie[b].proved # NoSecret \/ asking[b].late

LEMMA WriteInv ==
    ASSUME AccountInv, NEW b \in Browsers, WriteMfa(b)
    PROVE  AccountInv' /\ OnProof
<1> USE AccountConstants
<1>0. /\ AccountTypeOK /\ users \in [Ids -> Row] /\ cookie \in [Browsers -> Cookie] /\ asking \in [Browsers -> Asking]
      /\ stamps \in Int /\ 0 <= stamps /\ KnownAccounts /\ RolesAsSaid /\ ConfirmsOwn /\ NoSecret \in 0..MaxSecrets
      /\ \A c \in Browsers : /\ cookie[c].issued <= stamps /\ asking[c].stamp <= stamps /\ asking[c].id \in Ids
                             /\ cookie[c].id \in Ids /\ cookie[c].setup \in 0..MaxSecrets
      /\ \A j \in Ids : users[j].cutoff \in Int
  BY DEF AccountInv, AccountTypeOK, Cookie, Asking, Row, MomentsPast, NoSecret
<1> DEFINE i == cookie[b].id
<1> DEFINE setup == cookie[b].setup
<1> DEFINE row == [users[i] EXCEPT !.secret = setup, !.codes = Codes]
<1>1. /\ i \in Ids /\ asking[b].step = "confirm" /\ asking[b].id = i /\ users[i].status # "none" /\ setup \in 0..MaxSecrets
      /\ UNCHANGED <<apiTokens, syncing, secrets, stamps, said>> /\ users' = WithRow(i, row)
  BY <1>0 DEF WriteMfa, ConfirmsOwn, KnownAccounts
<1>2. /\ row \in Row /\ row.secret = setup /\ row.status = users[i].status /\ row.role = users[i].role
      /\ row.cutoff = users[i].cutoff
  <2> DEFINE was == users[i]
  <2>1. was \in Row
    BY <1>0, <1>1
  <2>2. row = [was EXCEPT !.secret = setup, !.codes = Codes]
    OBVIOUS
  <2> HIDE DEF was, row, setup
  <2>3. row \in Row /\ row.secret = setup /\ row.status = was.status /\ row.role = was.role /\ row.cutoff = was.cutoff
    BY <1>1, <2>1, <2>2 DEF Row
  <2>4. QED
    BY <2>3 DEF was
<1> HIDE DEF row
<1>3. /\ users' \in [Ids -> Row] /\ \A j \in Ids \ {i} : users'[j] = users[j]
      /\ IF Exists(i) THEN users'[i] = row ELSE users'[i] = users[i]
  BY <1>0, <1>1, <1>2 DEF WithRow
<1>4. \A j \in Ids \ {i} : RowStep(j) /\ SecretKept(j)
  BY <1>0, <1>1, <1>3 DEF RowStep, SecretKept, RolesAsSaid, Exists
<1>5. RowStep(i)
  BY <1>0, <1>1, <1>2, <1>3 DEF RowStep, RolesAsSaid, Exists
<1>6. OnProof
  <2> SUFFICES ASSUME NEW j \in Ids, users[j].secret # NoSecret, users'[j].secret \notin {NoSecret, users[j].secret}
               PROVE  \E c \in Browsers :
                          /\ asking[c].step = "confirm" /\ asking[c].id = j /\ cookie[c].setup = users'[j].secret
                          /\ cookie[c].proved # NoSecret \/ asking[c].late
    BY DEF OnProof
  <2>1. j = i
    BY <1>4 DEF SecretKept
  <2>2. users'[i].secret = setup
    BY <1>2, <1>3, <2>1
  <2>3. cookie[b].proved # NoSecret \/ asking[b].late
    BY <1>0, <1>1, <2>1 DEF ConfirmsOwn
  <2>4. QED
    BY <1>1, <2>1, <2>2, <2>3
\* What is the same with a replacement and without: those that confirm for
\* the account are overtaken.
<1>7. ASSUME cookie' \in [Browsers -> Cookie], asking' \in [Browsers -> Asking], owed' \in SUBSET Ids,
             \A c \in Browsers : CookieStep(c),
             \A c \in Browsers \ {b} : cookie'[c].id = cookie[c].id /\ cookie'[c].proved = cookie[c].proved,
             \A c \in Browsers \ {b} : asking'[c] = Interrupted(i)[c],
             asking'[b].step # "confirm" /\ (asking'[b].step # "none" => asking'[b].id = i), asking'[b].stamp <= stamps,
             AccountTypeOK' => EndsKept'
      PROVE  AccountInv' /\ OnProof
  <2>1. AccountTypeOK' /\ stamps <= stamps'
    BY <1>0, <1>1, <1>3, <1>7 DEF AccountTypeOK
  <2>2. ASSUME NEW c \in Browsers PROVE AskStep(c)
    <3>1. CASE c = b
      BY <1>1, <1>5, <1>7, <3>1 DEF AskStep, RowStep
    <3>2. CASE c # b
      <4>1. /\ asking'[c].step = asking[c].step /\ asking'[c].id = asking[c].id /\ asking'[c].stamp <= stamps'
            /\ cookie'[c].id = cookie[c].id /\ cookie'[c].proved = cookie[c].proved
            /\ asking[c].step # "none" /\ asking[c].id = i => asking'[c].late
            /\ ~(asking[c].step # "none" /\ asking[c].id = i) => asking'[c].late = asking[c].late
        BY <1>0, <1>1, <1>7, <3>2, RequestsMarked
      <4>2. CASE asking[c].step # "none" /\ asking[c].id = i
        BY <4>1, <4>2 DEF AskStep
      <4>3. CASE asking[c].id # i
        <5>1. SecretKept(asking[c].id)
          BY <1>0, <1>4, <4>3
        <5>2. QED
          BY <4>1, <4>3, <5>1 DEF AskStep
      <4>4. CASE asking[c].step = "none"
        BY <4>1, <4>4 DEF AskStep
      <4>5. QED
        BY <4>2, <4>3, <4>4
    <3>3. QED
      BY <3>1, <3>2
  <2>3. \A j \in Ids : RowLives(j)
    BY <1>4, <1>5 DEF RowStep, RowLives
  <2>4. QED
    BY <1>6, <1>7, <2>1, <2>2, <2>3, KnownStepInv DEF AccountInv
<1>8. CASE asking[b].secret # NoSecret
  <2> DEFINE marked == AllOld(i)[b]
  <2> DEFINE own == [marked EXCEPT !.old = FALSE]
  <2> DEFINE was == Interrupted(i)[b]
  <2> DEFINE mine == [was EXCEPT !.step = "replaced", !.late = Overlaps(i)]
  <2>1. /\ asking' = [Interrupted(i) EXCEPT ![b] = mine] /\ owed' = owed \cup {i}
        /\ cookie' = [AllOld(i) EXCEPT ![b].old = FALSE]
    BY <1>1, <1>8 DEF WriteMfa
  <2>2. marked \in Cookie /\ marked.kind = cookie[b].kind /\ marked.id = i /\ marked.issued = cookie[b].issued
    BY <1>0, <1>1, SessionsMarked
  <2>3. own \in Cookie /\ own.kind = cookie[b].kind /\ own.id = i /\ own.issued = cookie[b].issued /\ ~own.old
    <3> HIDE DEF marked
    <3>1. QED
      BY <2>2 DEF Cookie
  <2>4. mine \in Asking /\ mine.step = "replaced" /\ mine.id = i /\ mine.late = Overlaps(i) /\ mine.stamp <= stamps
    <3>1. was \in Asking /\ was.id = i /\ was.stamp <= stamps /\ Overlaps(i) \in BOOLEAN
      BY <1>0, <1>1, RequestsMarked DEF Overlaps
    <3> DEFINE overlaps == Overlaps(i)
    <3>2. overlaps \in BOOLEAN /\ mine = [was EXCEPT !.step = "replaced", !.late = overlaps]
      BY <3>1
    <3> HIDE DEF was, mine, overlaps, i
    <3>3. /\ mine \in Asking /\ mine.step = "replaced" /\ mine.id = was.id /\ mine.late = overlaps
          /\ mine.stamp = was.stamp
      BY <3>1, <3>2 DEF Asking, Ends
    <3>4. QED
      BY <3>1, <3>3 DEF overlaps
  <2> HIDE DEF mine, was
  <2>5. asking' \in [Browsers -> Asking] /\ asking'[b] = mine /\ \A c \in Browsers \ {b} : asking'[c] = Interrupted(i)[c]
    BY <1>0, <1>1, <2>1, <2>4, RequestsMarked
  <2>6. cookie' \in [Browsers -> Cookie] /\ cookie'[b] = own /\ \A c \in Browsers \ {b} : cookie'[c] = AllOld(i)[c]
    BY <1>0, <1>1, <2>1, <2>3, SessionsMarked
  <2> HIDE DEF own, marked
  <2>7. \A c \in Browsers :
           /\ cookie'[c].kind = cookie[c].kind /\ cookie'[c].id = cookie[c].id /\ cookie'[c].issued = cookie[c].issued
           /\ cookie'[c].old => cookie[c].old \/ (cookie[c].kind = "user" /\ cookie[c].id = i)
           /\ c # b => cookie'[c].proved = cookie[c].proved
    BY <1>0, <1>1, <2>3, <2>6, SessionsMarked
  <2>8. \A c \in Browsers : CookieStep(c)
    BY <1>0, <1>1, <2>7 DEF CookieStep
  <2>9. ASSUME AccountTypeOK' PROVE EndsKept'
    <3>1. \A j \in Ids : RowStep(j)
      BY <1>4, <1>5
    <3>2. asking[b].step \notin Ends /\ asking'[b].step \in {"replaced", "reset"} /\ asking'[b].id = i
          /\ asking'[b].late = Overlaps(i) /\ cookie'[b].id = i /\ ~cookie'[b].old
      BY <1>1, <2>3, <2>4, <2>5, <2>6 DEF Ends
    <3> HIDE DEF i
    <3>3. QED
      BY <1>1, <2>1, <2>5, <2>7, <2>9, <3>1, <3>2, EndsBegin
  <2>10. owed' \in SUBSET Ids
    BY <1>0, <1>1, <2>1 DEF AccountTypeOK
  <2>11. asking'[b].step # "confirm" /\ asking'[b].id = i /\ asking'[b].stamp <= stamps
    BY <2>4, <2>5
  <2> HIDE DEF i, setup
  <2>12. QED
    BY <1>7, <2>5, <2>6, <2>7, <2>8, <2>9, <2>10, <2>11
<1>9. CASE asking[b].secret = NoSecret
  <2> DEFINE bare == [[cookie[b] EXCEPT !.setup = NoSecret] EXCEPT !.proved = NoSecret]
  <2>1. bare \in Cookie /\ SameSession(bare, cookie[b])
    <3> DEFINE was == cookie[b]
    <3>1. was \in Cookie
      BY <1>0
    <3> HIDE DEF was, i, setup
    <3>2. QED
      BY <1>0, <3>1, SessionSet
  <2>2. PICK ck \in {cookie[b], bare} : cookie' = [cookie EXCEPT ![b] = ck]
    BY <1>0, <1>9 DEF WriteMfa, SetUp
  <2>3. asking' = [Interrupted(i) EXCEPT ![b] = NotAsking] /\ owed' = owed
    BY <1>1, <1>9 DEF WriteMfa
  <2> HIDE DEF bare
  <2>4. ck \in Cookie /\ SameSession(ck, cookie[b])
    BY <1>0, <2>1, <2>2 DEF SameSession
  <2>5. /\ NotAsking.step = "none" /\ NotAsking.stamp = 0 /\ asking' \in [Browsers -> Asking] /\ asking'[b] = NotAsking
        /\ \A c \in Browsers \ {b} : asking'[c] = Interrupted(i)[c]
    <3>1. Interrupted(i) \in [Browsers -> Asking] /\ NotAsking \in Asking
      BY <1>0, <1>1, RequestsMarked, RequestsTyped
    <3>2. QED
      BY <2>3, <3>1, RequestsTyped
  <2>6. cookie' \in [Browsers -> Cookie] /\ cookie'[b] = ck /\ \A c \in Browsers \ {b} : cookie'[c] = cookie[c]
    BY <1>0, <2>2, <2>4
  <2>7. \A c \in Browsers : CookieStep(c)
    BY <1>0, <1>1, <2>4, <2>6 DEF CookieStep, SameSession
  <2>8. ASSUME NEW c \in Browsers PROVE EndsStep(c)
    <3>1. CASE c = b
      BY <2>4, <2>5, <2>6, <3>1 DEF EndsStep, SameSession, Moments, Ends
    <3>2. CASE c # b
      <4>1. /\ asking'[c].step = asking[c].step /\ asking'[c].id = asking[c].id /\ asking'[c].stamp = asking[c].stamp
            /\ (asking'[c].late \/ asking'[c].late = asking[c].late) /\ cookie'[c] = cookie[c]
        BY <1>0, <1>1, <2>5, <2>6, <3>2, RequestsMarked
      <4>2. QED
        BY <4>1 DEF EndsStep, Moments
    <3>3. QED
      BY <3>1, <3>2
  <2>9. AccountTypeOK' => EndsKept'
    BY <1>4, <1>5, <2>3, <2>8, EndsStepInv
  <2>10. owed' \in SUBSET Ids /\ asking'[b].step = "none" /\ asking'[b].stamp <= stamps
    BY <1>0, <2>3, <2>5 DEF AccountTypeOK
  <2> HIDE DEF i, setup
  <2>11. QED
    BY <1>7, <2>5, <2>6, <2>7, <2>9, <2>10
<1>10. QED
  BY <1>8, <1>9

LEMMA AccountNextInv ==
    ASSUME AccountInv, [AccountNext]_accountVars
    PROVE  AccountInv' /\ OnProof
<1>1. Unproved => AccountInv' /\ OnProof
  BY DEF Unproved, OnProof, SecretKept
<1>2. CASE UNCHANGED accountVars
  <2>1. AccountTypeOK' /\ KnownAccounts' /\ MomentsPast' /\ ConfirmsOwn' /\ RolesAsSaid'
    BY <1>2 DEF accountVars, AccountInv, AccountTypeOK, KnownAccounts, MomentsPast, ConfirmsOwn, RolesAsSaid, Exists
  <2>2. EndsKept'
    BY <1>2 DEF accountVars, AccountInv, EndsKept, EndedBefore, EndsTheOld, EndsAlone, EndsOthers, Moments
  <2>3. OnProof
    BY <1>2 DEF accountVars, OnProof
  <2>4. QED
    BY <2>1, <2>2, <2>3 DEF AccountInv
<1>3. ASSUME NEW b \in Browsers, WriteMfa(b) PROVE AccountInv' /\ OnProof
  BY <1>3, WriteInv
<1>4. ASSUME NEW b \in Browsers, NEW i \in Ids, ResetMfa(b, i) PROVE AccountInv' /\ OnProof
  BY <1>1, <1>4, ResetInv
<1>5. ASSUME NEW b \in Browsers, TakeStamp(b) \/ EndSessions(b) \/ EndMfa(b) PROVE AccountInv' /\ OnProof
  BY <1>1, <1>5, TakeInv, EndSessionsInv, EndMfaInv
<1>6. QED
  BY <1>1, <1>2, <1>3, <1>4, <1>5, SignInInv, MfaInv, AdministratorInv DEF AccountNext

\* OldSessionsEnd: once the authenticator of an account is replaced or taken
\* off, a session it had then is refused where the account can be read, in
\* whatever order browsers, the administrator and the directory read and
\* write; unless the moment that ends it was not written, or lost to another
\* such request (revoke_other_sessions, _refresh_from_db).
THEOREM SessionsEnded == AccountSpec => []OldSessionsEnd
<1>1. AccountInv => OldSessionsEnd
  <2> SUFFICES ASSUME AccountInv, NEW b \in Browsers, SessionAccepted(b, FALSE), cookie[b].old
               PROVE  cookie[b].id \in owed
    BY DEF OldSessionsEnd
  <2>1. cookie[b].issued \in Int /\ users[cookie[b].id].cutoff \in Int
    BY DEF AccountInv, AccountTypeOK, Cookie, Row
  <2>2. cookie[b].issued \in Moments(b)
    BY DEF Moments
  <2>3. QED
    BY <2>1, <2>2 DEF AccountInv, EndsKept, EndedBefore, SessionAccepted
<1>2. AccountInv /\ [AccountNext]_accountVars => AccountInv'
  BY AccountNextInv
<1>3. QED
  BY AccountInitInv, <1>1, <1>2, PTL DEF AccountSpec

\* RoleAsSaid: an account has the role it was last given, and a token is
\* worth no more (scim.py _role_from_payload, api_tokens.py).
THEOREM RolesKept == AccountSpec => []RoleAsSaid
<1>1. AccountInv => RoleAsSaid
  <2> SUFFICES ASSUME AccountInv, NEW i \in Ids, Exists(i)
               PROVE  /\ users[i].role = said[i]
                      /\ TokenRole(i) # NoApiToken => Rank[TokenRole(i)] <= Rank[said[i]]
    BY DEF RoleAsSaid
  <2>1. users[i].role = said[i]
    BY DEF AccountInv, RolesAsSaid
  <2>2. said[i] \in {"viewer", "user", "admin"}
    BY AccountConstants DEF AccountInv, AccountTypeOK
  <2>3. Rank[said[i]] <= Rank[said[i]]
    BY <2>2 DEF Rank
  <2>4. QED
    BY <2>1, <2>3 DEF TokenRole
<1>2. AccountInv /\ [AccountNext]_accountVars => AccountInv'
  BY AccountNextInv
<1>3. QED
  BY AccountInitInv, <1>1, <1>2, PTL DEF AccountSpec

\* ReplacedOnProof: no step of any request puts one authenticator in the
\* place of another without the proof it needs (app.py account_mfa_confirm).
THEOREM ReplacedWithProof == AccountSpec => ReplacedOnProof
<1>1. AccountInv /\ [AccountNext]_accountVars => AccountInv' /\ OnProof
  BY AccountNextInv
<1>2. QED
  BY AccountInitInv, <1>1, PTL DEF AccountSpec, ReplacedOnProof, OnProof

(***************************************************************************)
(* PART IV: AuditLog                                                       *)
(***************************************************************************)
\* Between a row and the one it was written after there never is another.
Follows == \A i, j \in Logged : i < j => i <= entries[j].prev

AuditInv == AuditTypeOK /\ Follows

LEMMA AuditInitInv == AuditInit => AuditInv
<1> SUFFICES ASSUME AuditInit PROVE AuditInv
  OBVIOUS
<1>1. Logged = {} /\ entries \in [Logged -> Entry]
  BY DEF AuditInit, Logged
<1>2. NotWriting \in Writing
  BY AuditConstants DEF NotWriting, Writing
<1>3. QED
  BY <1>1, <1>2, AuditConstants DEF AuditInit, AuditInv, AuditTypeOK, Follows, NotYet

\* The last row is the greatest, and there is one unless the log is empty.
LEMMA LastRow ==
    ASSUME AuditTypeOK
    PROVE  /\ LastHash \in Logged \cup {Genesis} /\ LastHash \in 0..lastId
           /\ \A j \in Logged : j <= LastHash
           /\ Logged # {} => LastHash \in Logged
<1>1. Logged \subseteq 1..lastId /\ lastId \in Nat /\ 1 \in Int /\ lastId \in Int
  BY AuditConstants DEF AuditTypeOK
<1>2. \E i \in Logged \cup {Genesis} : \A j \in Logged : j <= i
  <2>1. CASE Logged = {}
    BY <2>1
  <2>2. CASE Logged # {}
    <3>1. \E m \in Logged : \A k \in Logged : m >= k
      BY <1>1, <2>2, GreatestNumber, Zenon
    <3>2. \A k \in Logged : k \in Int
      BY <1>1
    <3>3. QED
      BY <3>1, <3>2
  <2>3. QED
    BY <2>1, <2>2
<1>3. LastHash \in Logged \cup {Genesis} /\ \A j \in Logged : j <= LastHash
  <2> DEFINE last(i) == \A j \in Logged : j <= i
  <2>1. LastHash = CHOOSE i \in Logged \cup {Genesis} : last(i)
    BY DEF LastHash
  <2>2. \E i \in Logged \cup {Genesis} : last(i)
    BY <1>2
  <2> HIDE DEF last
  <2>3. LastHash \in Logged \cup {Genesis} /\ last(LastHash)
    BY <2>1, <2>2, Zenon
  <2>4. QED
    BY <2>3 DEF last
<1>4. LastHash \in 0..lastId
  BY <1>1, <1>3 DEF Genesis
<1>5. ASSUME Logged # {} PROVE LastHash \in Logged
  <2>1. PICK j \in Logged : TRUE
    BY <1>5
  <2>2. j \in 1..lastId /\ j <= LastHash
    BY <1>1, <1>3
  <2>3. LastHash # Genesis
    BY <1>1, <1>4, <2>2 DEF Genesis
  <2>4. QED
    BY <1>3, <2>3
<1>6. QED
  BY <1>3, <1>4, <1>5

\* What is left of a log is a log, and its rows are those they were.
LEMMA OnlySome ==
    ASSUME AuditInv, NEW ids \in SUBSET Logged, entries' = Only(ids)
    PROVE  /\ Logged' = ids /\ \A i \in ids : entries'[i] = entries[i]
           /\ entries' \in [Logged' -> Entry] /\ Follows'
<1>1. entries \in [Logged -> Entry] /\ Follows
  BY DEF AuditInv, AuditTypeOK
<1>2. Logged' = ids /\ \A i \in ids : entries'[i] = entries[i]
  BY DEF Only, Logged
<1>3. entries' = [i \in ids |-> entries[i]]
  BY DEF Only
<1>4. entries' \in [Logged' -> Entry]
  BY <1>1, <1>2, <1>3
<1>5. Follows'
  BY <1>1, <1>2 DEF Follows
<1>6. QED
  BY <1>2, <1>4, <1>5

\* An entry comes last, after all that are there.
LEMMA Appended ==
    ASSUME AuditInv, NEW w \in Writers, writing[w].phase = "timed", lastId < MaxEntries,
           entries' = [i \in Logged \cup {lastId + 1} |->
                          IF i = lastId + 1 THEN [at |-> writing[w].at, prev |-> LastHash, edited |-> FALSE]
                          ELSE entries[i]]
    PROVE  /\ Logged' = Logged \cup {lastId + 1} /\ \A i \in Logged : entries'[i] = entries[i]
           /\ entries'[lastId + 1].prev = LastHash /\ entries'[lastId + 1].edited = FALSE
           /\ entries' \in [Logged' -> Entry] /\ Follows'
<1> DEFINE new == [at |-> writing[w].at, prev |-> LastHash, edited |-> FALSE]
<1>1. /\ entries \in [Logged -> Entry] /\ Logged \subseteq 1..lastId /\ lastId \in 0..MaxEntries /\ MaxEntries \in Nat
      /\ writing[w] \in Writing /\ Follows /\ AuditTypeOK
  BY AuditConstants DEF AuditInv, AuditTypeOK
<1>2. new \in Entry
  <2>1. LastHash \in 0..MaxEntries
    BY <1>1, LastRow
  <2>2. writing[w].at \in 0..MaxToday
    BY <1>1 DEF Writing
  <2>3. QED
    BY <2>1, <2>2 DEF Entry
<1>3. lastId + 1 \notin Logged
  BY <1>1
<1> HIDE DEF new
<1>4. entries' = [i \in Logged \cup {lastId + 1} |-> IF i = lastId + 1 THEN new ELSE entries[i]]
  BY DEF new
<1>5. Logged' = Logged \cup {lastId + 1}
  BY <1>4 DEF Logged
<1>6. entries'[lastId + 1] = new /\ \A i \in Logged : entries'[i] = entries[i]
  BY <1>3, <1>4
<1>7. entries' \in [Logged' -> Entry]
  BY <1>1, <1>2, <1>4, <1>5
<1>8. new.prev = LastHash /\ new.edited = FALSE
  BY DEF new
<1>9. Follows'
  <2> SUFFICES ASSUME NEW i \in Logged', NEW j \in Logged', i < j PROVE i <= entries'[j].prev
    BY DEF Follows
  <2>1. i \in Logged
    BY <1>1, <1>5
  <2>2. CASE j \in Logged
    BY <1>1, <1>6, <2>1, <2>2 DEF Follows
  <2>3. CASE j = lastId + 1
    <3>1. i <= LastHash
      BY <1>1, <2>1, LastRow
    <3>2. QED
      BY <1>6, <1>8, <2>3, <3>1
  <2>4. QED
    BY <1>5, <2>2, <2>3
<1>10. QED
  BY <1>5, <1>6, <1>7, <1>8, <1>9

LEMMA WriterMoves ==
    ASSUME AuditInv, NEW w \in Writers, NEW row \in Writing, writing' = [writing EXCEPT ![w] = row]
    PROVE  writing' \in [Writers -> Writing]
BY DEF AuditInv, AuditTypeOK

LEMMA WriterRows ==
    ASSUME NEW row \in Writing
    PROVE  /\ NotWriting \in Writing
           /\ \A p \in {"due", "purged"} : [row EXCEPT !.phase = p] \in Writing
           /\ \A t \in 0..MaxToday : [phase |-> "timed", at |-> t] \in Writing
BY AuditConstants DEF NotWriting, Writing

LEMMA SameLog ==
    ASSUME entries' = entries
    PROVE  Logged' = Logged /\ Broken' = Broken /\ (Follows => Follows')
<1>1. Logged' = Logged
  BY DEF Logged
<1>2. Broken' = Broken
  BY <1>1 DEF Broken, Breaks
<1>3. QED
  BY <1>1, <1>2 DEF Follows

LEMMA AuditNextInv ==
    ASSUME AuditInv, [AuditNext]_auditVars PROVE AuditInv'
<1> USE AuditConstants
<1>1. /\ entries \in [Logged -> Entry] /\ Logged \subseteq 1..lastId /\ lastId \in 0..MaxEntries
      /\ today \in 0..MaxToday /\ writing \in [Writers -> Writing] /\ lastRun \in NotYet..MaxToday
      /\ tampers \in 0..MaxTampers /\ Follows /\ Retention \in Writers
  BY DEF AuditInv, AuditTypeOK
<1>2. ASSUME entries' = entries, lastId' = lastId
      PROVE  entries' \in [Logged' -> Entry] /\ Logged' \subseteq 1..lastId' /\ Follows'
  BY <1>1, <1>2, SameLog
<1>3. \A w \in Writers : writing[w] \in Writing
  BY <1>1
<1>4. ASSUME NEW w \in Writers, TakeTime(w) PROVE AuditInv'
  <2>1. [phase |-> "timed", at |-> today] \in Writing
    BY <1>1, <1>3, WriterRows
  <2>2. writing' \in [Writers -> Writing]
    BY <1>4, <2>1, WriterMoves DEF TakeTime
  <2>3. QED
    BY <1>1, <1>2, <1>4, <2>2 DEF TakeTime, AuditInv, AuditTypeOK
<1>5. ASSUME NEW w \in Writers, AppendEntry(w) PROVE AuditInv'
  <2>1. writing' \in [Writers -> Writing]
    BY <1>3, <1>5, WriterMoves, WriterRows DEF AppendEntry
  <2>2. CASE UNCHANGED <<entries, lastId>>
    BY <1>1, <1>2, <1>5, <2>1, <2>2 DEF AppendEntry, AuditInv, AuditTypeOK
  <2>3. CASE lastId' = lastId + 1
    <3>1. lastId' # lastId /\ lastId < MaxEntries
      BY <1>1, <1>5, <2>3 DEF AppendEntry
    <3>2. /\ Logged' = Logged \cup {lastId + 1} /\ entries' \in [Logged' -> Entry] /\ Follows'
      BY <1>5, <3>1, Appended DEF AppendEntry
    <3>3. Logged' \subseteq 1..lastId' /\ lastId' \in 0..MaxEntries
      <4>1. lastId \in Nat /\ Logged \subseteq 1..lastId
        BY <1>1
      <4>2. 1..(lastId + 1) = (1..lastId) \cup {lastId + 1} /\ lastId + 1 \in 0..MaxEntries
        BY <3>1, <4>1
      <4>3. QED
        BY <2>3, <3>2, <4>1, <4>2
    <3>4. today' = today /\ lastRun' = lastRun /\ tampers' = tampers
      BY <1>5 DEF AppendEntry
    <3>5. AuditTypeOK'
      BY <1>1, <2>1, <3>2, <3>3, <3>4 DEF AuditTypeOK
    <3>6. QED
      BY <3>2, <3>5 DEF AuditInv
  <2>4. QED
    BY <1>5, <2>2, <2>3 DEF AppendEntry
<1>6. CASE StartPurge
  <2>1. writing' \in [Writers -> Writing]
    <3>1. [writing[Retention] EXCEPT !.phase = "due"] \in Writing
      BY <1>1, <1>3, WriterRows
    <3>2. writing' = [writing EXCEPT ![Retention] = [writing[Retention] EXCEPT !.phase = "due"]]
      BY <1>6 DEF StartPurge
    <3>3. QED
      BY <1>1, <3>1, <3>2, WriterMoves
  <2>2. lastRun' \in NotYet..MaxToday
    BY <1>1, <1>6 DEF StartPurge, NotYet
  <2>3. QED
    BY <1>1, <1>2, <1>6, <2>1, <2>2 DEF StartPurge, AuditInv, AuditTypeOK
<1>7. CASE PurgeAudit
  <2>1. writing' \in [Writers -> Writing]
    <3> DEFINE row == IF entries' = entries THEN NotWriting ELSE [writing[Retention] EXCEPT !.phase = "purged"]
    <3>1. row \in Writing
      BY <1>1, <1>3, WriterRows
    <3>2. writing' = [writing EXCEPT ![Retention] = row]
      BY <1>7 DEF PurgeAudit
    <3> HIDE DEF row
    <3>3. QED
      BY <1>1, <3>1, <3>2, WriterMoves
  <2>2. entries' \in [Logged' -> Entry] /\ Logged' \subseteq 1..lastId' /\ Follows'
    <3>1. CASE KeepDays = 0
      BY <1>2, <1>7, <3>1 DEF PurgeAudit
    <3>2. CASE KeepDays # 0
      <4> DEFINE ids == {i \in Logged : entries[i].at >= today - KeepDays}
      <4>1. entries' = Only(ids) /\ ids \subseteq Logged /\ lastId' = lastId
        BY <1>7, <3>2 DEF PurgeAudit, Purged
      <4> HIDE DEF ids
      <4>2. Logged' = ids /\ entries' \in [Logged' -> Entry] /\ Follows'
        BY <4>1, OnlySome
      <4>3. QED
        BY <1>1, <4>1, <4>2
    <3>3. QED
      BY <3>1, <3>2
  <2>3. QED
    BY <1>1, <1>7, <2>1, <2>2 DEF PurgeAudit, AuditInv, AuditTypeOK
<1>8. CASE PurgeFails
  <2>1. writing' \in [Writers -> Writing]
    BY <1>1, <1>3, <1>8, WriterMoves, WriterRows DEF PurgeFails
  <2>2. QED
    BY <1>1, <1>2, <1>8, <2>1 DEF PurgeFails, AuditInv, AuditTypeOK
<1>9. CASE NextDay
  BY <1>1, <1>2, <1>9 DEF NextDay, AuditInv, AuditTypeOK
<1>10. CASE Tamper
  <2>1. PICK i \in Logged : entries' = [entries EXCEPT ![i].edited = TRUE] \/ entries' = Only(Logged \ {i})
    BY <1>10 DEF Tamper
  <2>2. entries' \in [Logged' -> Entry] /\ Logged' \subseteq 1..lastId' /\ Follows'
    <3>1. CASE entries' = Only(Logged \ {i})
      <4>1. Logged' = Logged \ {i} /\ entries' \in [Logged' -> Entry] /\ Follows'
        BY <3>1, OnlySome
      <4>2. QED
        BY <1>1, <1>10, <4>1 DEF Tamper
    <3>2. CASE entries' = [entries EXCEPT ![i].edited = TRUE]
      <4>1. Logged' = Logged
        BY <3>2 DEF Logged
      <4>2. entries[i] \in Entry /\ [entries[i] EXCEPT !.edited = TRUE] \in Entry
        BY <1>1 DEF Entry
      <4>3. entries' \in [Logged' -> Entry]
        BY <1>1, <3>2, <4>1, <4>2
      <4>4. \A j \in Logged : entries'[j].prev = entries[j].prev
        BY <1>1, <3>2, <4>2 DEF Entry
      <4>5. QED
        BY <1>1, <1>10, <4>1, <4>3, <4>4 DEF Tamper, Follows
    <3>3. QED
      BY <2>1, <3>1, <3>2
  <2>3. QED
    BY <1>1, <1>10, <2>2 DEF Tamper, AuditInv, AuditTypeOK
<1>11. CASE RestartAudit
  <2>1. writing' \in [Writers -> Writing]
    BY <1>1, <1>3, <1>11, WriterRows DEF RestartAudit
  <2>2. lastRun' \in NotYet..MaxToday
    BY <1>11 DEF RestartAudit, NotYet
  <2>3. QED
    BY <1>1, <1>2, <1>11, <2>1, <2>2 DEF RestartAudit, AuditInv, AuditTypeOK
<1>12. CASE UNCHANGED auditVars
  BY <1>1, <1>2, <1>12 DEF auditVars, AuditInv, AuditTypeOK
<1>13. QED
  BY <1>4, <1>5, <1>6, <1>7, <1>8, <1>9, <1>10, <1>11, <1>12 DEF AuditNext

\* A row taken out between two others is missed by the row behind it.
LEMMA MissedRow ==
    ASSUME AuditInv, NEW i \in Logged, entries' = Only(Logged \ {i}), ~AtAnEnd(i)
    PROVE  Broken' # {}
<1>1. Logged \subseteq 1..lastId /\ lastId \in Int /\ 1 \in Int /\ Follows
  BY AuditConstants DEF AuditInv, AuditTypeOK
<1>2. \A j \in Logged : j \in Nat
  BY <1>1
<1>3. Logged' = Logged \ {i} /\ \A j \in Logged \ {i} : entries'[j] = entries[j]
  BY OnlySome
<1> DEFINE under == {j \in Logged : j < i}
           over == {j \in Logged : i < j}
<1>4. under # {} /\ over # {}
  <2>1. PICK j \in Logged, k \in Logged : ~(i <= j) /\ ~(k <= i)
    BY DEF AtAnEnd
  <2>2. j < i /\ i < k
    BY <1>2, <2>1
  <2>3. QED
    BY <2>2
<1>5. under \subseteq 1..lastId /\ over \subseteq Nat
  BY <1>1, <1>2
<1>6. PICK p \in under : \A k \in under : p >= k
  <2> HIDE DEF under, over
  <2>1. \E p \in under : \A k \in under : p >= k
    BY <1>1, <1>4, <1>5, GreatestNumber, Zenon
  <2>2. QED
    BY <2>1
<1>7. PICK n \in over : \A k \in over : n <= k
  <2> HIDE DEF under, over
  <2>1. \E n \in over : \A k \in over : n <= k
    BY <1>4, <1>5, LeastNumber, Zenon
  <2>2. QED
    BY <2>1
<1>8. p \in Logged' /\ n \in Logged' /\ p < i /\ i < n
  BY <1>2, <1>3
<1>9. i <= entries'[n].prev
  BY <1>1, <1>3, <1>8 DEF Follows
<1>10. \A q \in Logged' : q <= p \/ q >= n
  <2> SUFFICES ASSUME NEW q \in Logged \ {i} PROVE q <= p \/ q >= n
    BY <1>3
  <2>1. q < i \/ i < q
    BY <1>2
  <2>2. CASE q < i
    BY <1>2, <1>6, <2>2
  <2>3. CASE i < q
    BY <1>2, <1>7, <2>3
  <2>4. QED
    BY <2>1, <2>2, <2>3
<1>11. entries'[n].prev # p /\ p < n
  <2>1. entries'[n] \in Entry
    BY <1>8, OnlySome
  <2>2. entries'[n].prev \in Int
    BY <2>1 DEF Entry
  <2>3. QED
    BY <1>2, <1>8, <1>9, <2>2
<1>12. Breaks(n)'
  BY <1>8, <1>10, <1>11 DEF Breaks
<1>13. QED
  BY <1>8, <1>12 DEF Broken

\* An entry follows the row that was last, and leaves the others where they are.
LEMMA AppendFollows ==
    ASSUME AuditInv, Broken = {}, NEW w \in Writers, AppendEntry(w)
    PROVE  Broken' = {}
<1>1. Logged \subseteq 1..lastId /\ lastId \in Nat /\ AuditTypeOK
  BY AuditConstants DEF AuditInv, AuditTypeOK
<1>2. CASE UNCHANGED <<entries, lastId>>
  BY <1>2, SameLog
<1>3. CASE lastId' = lastId + 1
  <2>1. lastId' # lastId
    BY <1>1, <1>3
  <2>2. /\ Logged' = Logged \cup {lastId + 1} /\ \A i \in Logged : entries'[i] = entries[i]
        /\ entries'[lastId + 1].prev = LastHash /\ entries'[lastId + 1].edited = FALSE
    BY <2>1, Appended DEF AppendEntry
  <2> SUFFICES ASSUME NEW i \in Logged', Breaks(i)' PROVE FALSE
    BY DEF Broken
  <2>3. CASE i \in Logged
    <3>1. ~Breaks(i)
      BY <2>3 DEF Broken
    <3>2. entries'[i] = entries[i] /\ i < lastId + 1
      BY <1>1, <2>2, <2>3
    <3>3. PICK p \in Logged' : p < i /\ (\A q \in Logged' : q <= p \/ q >= i) /\ entries'[i].prev # p
      BY <3>1, <3>2 DEF Breaks
    <3>4. p \in Logged
      BY <1>1, <2>2, <3>2, <3>3
    <3>5. QED
      BY <2>2, <3>1, <3>2, <3>3, <3>4 DEF Breaks
  <2>4. CASE i = lastId + 1
    <3>1. PICK p \in Logged' : p < i /\ (\A q \in Logged' : q <= p \/ q >= i) /\ entries'[i].prev # p
      BY <2>2, <2>4 DEF Breaks
    <3>2. p \in Logged /\ p \in Nat
      BY <1>1, <2>2, <2>4, <3>1
    <3>3. LastHash \in Logged /\ LastHash \in 0..lastId /\ p <= LastHash
      BY <1>1, <3>2, LastRow
    <3>4. LastHash <= p
      BY <1>1, <2>2, <2>4, <3>1, <3>3
    <3>5. QED
      BY <1>1, <2>2, <2>4, <3>1, <3>2, <3>3, <3>4
  <2>5. QED
    BY <2>2, <2>3, <2>4
<1>4. QED
  BY <1>2, <1>3 DEF AppendEntry

\* Entries that stand in the order of their times lose the oldest of them.
LEMMA PurgeFollows ==
    ASSUME AuditInv, Broken = {}, PurgeAudit, InOrder
    PROVE  Broken' = {}
<1>1. CASE KeepDays = 0
  BY <1>1, SameLog DEF PurgeAudit
<1>2. CASE KeepDays # 0
  <2>1. /\ Logged \subseteq 1..lastId /\ lastId \in Nat /\ today \in Int /\ KeepDays \in Int
        /\ entries \in [Logged -> Entry]
    BY AuditConstants DEF AuditInv, AuditTypeOK
  <2>2. \A i \in Logged : entries[i].at \in Int /\ i \in Int
    BY <2>1, AuditConstants DEF Entry
  <2> DEFINE ids == {i \in Logged : entries[i].at >= today - KeepDays}
  <2>3. entries' = Only(ids) /\ ids \subseteq Logged
    BY <1>2 DEF PurgeAudit, Purged
  <2>4. Logged' = ids /\ \A i \in ids : entries'[i] = entries[i]
    <3> HIDE DEF ids
    <3>1. QED
      BY <2>3, OnlySome
  <2>5. \A p \in ids, q \in Logged : p < q => q \in ids
    BY <2>1, <2>2 DEF InOrder
  <2> HIDE DEF ids
  <2> SUFFICES ASSUME NEW i \in ids, Breaks(i)' PROVE FALSE
    BY <2>4 DEF Broken
  <2>6. ~Breaks(i)
    BY <2>3 DEF Broken
  <2>7. PICK p \in ids : p < i /\ (\A q \in ids : q <= p \/ q >= i) /\ entries[i].prev # p
    BY <2>3, <2>4, <2>6 DEF Breaks
  <2>8. \A q \in Logged : q <= p \/ q >= i
    BY <2>2, <2>3, <2>5, <2>7
  <2>9. QED
    BY <2>3, <2>6, <2>7, <2>8 DEF Breaks
<1>3. QED
  BY <1>1, <1>2

LEMMA ChainStep ==
    ASSUME AuditInv, [AuditNext]_auditVars
    PROVE  /\ (Tamper /\ Broken' = {}) => \E i \in Logged : AtAnEnd(i) /\ entries' = Only(Logged \ {i})
           /\ (Broken = {} /\ Broken' # {}) => (Tamper \/ (PurgeAudit /\ ~InOrder))
<1>1. ASSUME Tamper, Broken' = {}
      PROVE  \E i \in Logged : AtAnEnd(i) /\ entries' = Only(Logged \ {i})
  <2>1. PICK i \in Logged : entries' = [entries EXCEPT ![i].edited = TRUE] \/ entries' = Only(Logged \ {i})
    BY <1>1 DEF Tamper
  <2>2. entries' # [entries EXCEPT ![i].edited = TRUE]
    <3> SUFFICES ASSUME entries' = [entries EXCEPT ![i].edited = TRUE] PROVE FALSE
      OBVIOUS
    <3>1. entries \in [Logged -> Entry] /\ entries[i] \in Entry
      BY DEF AuditInv, AuditTypeOK
    <3>2. Logged' = Logged /\ entries'[i].edited = TRUE
      BY <3>1 DEF Logged, Entry
    <3>3. QED
      BY <1>1, <3>2 DEF Broken, Breaks
  <2>3. QED
    BY <1>1, <2>1, <2>2, MissedRow
<1>2. ASSUME Broken = {}, Broken' # {}
      PROVE  Tamper \/ (PurgeAudit /\ ~InOrder)
  <2>1. entries' # entries
    BY <1>2, SameLog
  <2>2. \A w \in Writers : ~TakeTime(w) /\ ~AppendEntry(w)
    BY <1>2, <2>1, AppendFollows DEF TakeTime
  <2>3. PurgeAudit \/ Tamper
    BY <2>1, <2>2 DEF AuditNext, StartPurge, PurgeFails, NextDay, RestartAudit, auditVars
  <2>4. QED
    BY <1>2, <2>3, PurgeFollows
<1>3. QED
  BY <1>1, <1>2

\* The invariants of the audit log: types (ids are given once and in order),
\* and that between a row and the one it was written after there is no other
\* (audit_log.record reads the last row and inserts under the database lock).
THEOREM AuditHolds == AuditSpec => []AuditInv
<1>1. AuditInit => AuditInv
  BY AuditInitInv
<1>2. AuditInv /\ [AuditNext]_auditVars => AuditInv'
  BY AuditNextInv
<1>3. QED
  BY <1>1, <1>2, PTL DEF AuditSpec

\* What audit_log.verify reports: a row edited, or taken out between two
\* others, breaks the chain, and nothing else breaks an untouched one but
\* retention that removes entries out of the order of their times.
THEOREM ChainHolds == AuditSpec => ChainTells
<1>1. AuditInv /\ [AuditNext]_auditVars =>
          [/\ (Tamper /\ Broken' = {}) => \E i \in Logged : AtAnEnd(i) /\ entries' = Only(Logged \ {i})
           /\ (Broken = {} /\ Broken' # {}) => (Tamper \/ (PurgeAudit /\ ~InOrder))]_auditVars
  BY ChainStep
<1>2. QED
  BY <1>1, AuditHolds, PTL DEF AuditSpec, ChainTells

(***************************************************************************)
(* PART V: PortfolioUnits                                                  *)
(***************************************************************************)
\* A table of parents, what is below a unit in it, and that no units are each
\* below another.
Parents == [Units -> Units \cup {Top, Unborn, Removed}]

ClosedBelow(par, S) == \A w \in Units : par[w] \in S => w \in S

Under(par, u) == {v \in Units : \A S \in SUBSET Units : u \in S /\ ClosedBelow(par, S) => v \in S}

NoCircle(par) == \A S \in SUBSET Units : (\A u \in S : par[u] \in S) => S = {}

LEMMA UnderLeast ==
    ASSUME NEW par, NEW u, NEW S \in SUBSET Units, u \in S, ClosedBelow(par, S)
    PROVE  Under(par, u) \subseteq S
BY DEF Under

LEMMA UnderClosed ==
    ASSUME NEW par, NEW u \in Units
    PROVE  /\ u \in Under(par, u) /\ Under(par, u) \in SUBSET Units
           /\ ClosedBelow(par, Under(par, u))
<1>1. u \in Under(par, u) /\ Under(par, u) \in SUBSET Units
  BY DEF Under
<1>2. ASSUME NEW w \in Units, par[w] \in Under(par, u) PROVE w \in Under(par, u)
  <2> SUFFICES ASSUME NEW S \in SUBSET Units, u \in S, ClosedBelow(par, S) PROVE w \in S
    BY DEF Under
  <2>1. par[w] \in S
    BY <1>2, UnderLeast
  <2>2. QED
    BY <2>1 DEF ClosedBelow
<1>3. QED
  BY <1>1, <1>2 DEF ClosedBelow

\* Whoever is below a unit is it, or its parent is below it.
LEMMA UnderParent ==
    ASSUME NEW par, NEW u \in Units, NEW v \in Under(par, u), v # u
    PROVE  par[v] \in Under(par, u)
<1> SUFFICES ASSUME par[v] \notin Under(par, u) PROVE FALSE
  OBVIOUS
<1> DEFINE S == Under(par, u) \ {v}
<1>1. S \in SUBSET Units /\ u \in S
  BY UnderClosed
<1>2. ClosedBelow(par, S)
  <2> SUFFICES ASSUME NEW w \in Units, par[w] \in S PROVE w \in S
    BY DEF ClosedBelow
  <2>1. w \in Under(par, u)
    BY UnderClosed DEF ClosedBelow
  <2>2. QED
    BY <2>1
<1> HIDE DEF S
<1>3. v \in S
  BY <1>1, <1>2, UnderLeast
<1>4. QED
  BY <1>3 DEF S

LEMMA UnderBelow ==
    ASSUME NEW par, NEW u \in Units, NEW v \in Under(par, u)
    PROVE  Under(par, v) \subseteq Under(par, u)
BY UnderClosed, UnderLeast

\* Only what is below a unit changed its parent for one below it: nothing else
\* has come below it.
LEMMA UnderShrinks ==
    ASSUME NEW par, NEW new, NEW u \in Units,
           \A w \in Units : new[w] \in Under(par, u) => new[w] = par[w] \/ w \in Under(par, u)
    PROVE  Under(new, u) \subseteq Under(par, u)
<1>1. u \in Under(par, u) /\ Under(par, u) \in SUBSET Units /\ ClosedBelow(par, Under(par, u))
  BY UnderClosed
<1>2. ClosedBelow(new, Under(par, u))
  BY <1>1 DEF ClosedBelow
<1>3. QED
  BY <1>1, <1>2, UnderLeast

\* A parent is not below its unit.
LEMMA ParentNotUnder ==
    ASSUME NEW par, NoCircle(par), NEW c \in Units, par[c] \in Units
    PROVE  par[c] \notin Under(par, c)
<1> SUFFICES ASSUME par[c] \in Under(par, c) PROVE FALSE
  OBVIOUS
<1> DEFINE S == {v \in Under(par, c) : par[c] \in Under(par, v)}
<1>1. c \in S /\ S \in SUBSET Units
  BY UnderClosed
<1>2. ASSUME NEW v \in S PROVE par[v] \in S
  <2>1. CASE v = c
    BY <2>1, UnderClosed
  <2>2. CASE v # c
    <3>1. par[v] \in Under(par, c) /\ par[v] \in Units /\ v \in Units
      BY <1>1, <2>2, UnderParent, UnderClosed
    <3>2. v \in Under(par, par[v])
      BY <3>1, UnderClosed DEF ClosedBelow
    <3>3. Under(par, v) \subseteq Under(par, par[v])
      BY <3>1, <3>2, UnderBelow
    <3>4. QED
      BY <3>1, <3>3
  <2>3. QED
    BY <2>1, <2>2
<1> HIDE DEF S
<1>3. QED
  BY <1>1, <1>2 DEF NoCircle

\* A unit that goes under one that is not below it makes no circle.
LEMMA MovedNoCircle ==
    ASSUME NEW par \in Parents, NoCircle(par), NEW c \in Units, NEW d, d \notin Under(par, c)
    PROVE  NoCircle([par EXCEPT ![c] = d])
<1> DEFINE new == [par EXCEPT ![c] = d]
<1>1. new[c] = d /\ \A w \in Units : w # c => new[w] = par[w]
  BY DEF Parents
<1> HIDE DEF new
<1> SUFFICES ASSUME NEW S \in SUBSET Units, \A u \in S : new[u] \in S PROVE S = {}
  BY DEF NoCircle, new
<1>2. CASE c \notin S
  <2>1. \A u \in S : par[u] \in S
    BY <1>1, <1>2
  <2>2. QED
    BY <2>1 DEF NoCircle
<1>3. CASE c \in S
  <2> DEFINE T == S \ Under(par, c)
  <2>1. d \in T
    BY <1>1, <1>3
  <2>2. ASSUME NEW v \in T PROVE par[v] \in T
    <3>1. v # c /\ v \in Units
      BY UnderClosed
    <3>2. par[v] \in S
      BY <1>1, <3>1
    <3>3. par[v] \notin Under(par, c)
      BY <3>1, UnderClosed DEF ClosedBelow
    <3>4. QED
      BY <3>2, <3>3
  <2>3. T \in SUBSET Units
    OBVIOUS
  <2> HIDE DEF T
  <2>4. QED
    BY <2>1, <2>2, <2>3 DEF NoCircle
<1>4. QED
  BY <1>2, <1>3

LEMMA CutNoCircle ==
    ASSUME NEW par, NoCircle(par), NEW new, \A u \in Units : new[u] = par[u] \/ new[u] \notin Units
    PROVE  NoCircle(new)
<1> SUFFICES ASSUME NEW S \in SUBSET Units, \A u \in S : new[u] \in S PROVE S = {}
  BY DEF NoCircle
<1>1. \A u \in S : par[u] \in S
  OBVIOUS
<1>2. QED
  BY <1>1 DEF NoCircle

(***************************************************************************)
(* The calls of fold: what a step of one does to the table of parents      *)
(***************************************************************************)
\* Each call is for a unit below that of the call before, which is under it and
\* no longer to come; nothing is folded into what is below it.
CallsRight(par, calls) ==
    /\ \A i, j \in 1..Len(calls) : calls[i].src = calls[j].src => i = j
    /\ \A i \in 1..(Len(calls) - 1) : /\ par[calls[i + 1].src] = calls[i].src
                                      /\ calls[i + 1].src \notin calls[i].kids
    /\ \A i \in 1..Len(calls) : \A c \in calls[i].kids : par[c] = calls[i].src
    /\ \A i \in 1..Len(calls) : calls[i].dst \notin Under(par, calls[i].src)

\* What a step does to the calls: a unit is not to come any more, and it may be
\* called for; or the last call returns.
OneLess(calls, c, after) ==
    /\ after \in Seq(Call) /\ Len(after) = Len(calls)
    /\ \A i \in 1..Len(calls) : /\ after[i].src = calls[i].src /\ after[i].dst = calls[i].dst
                                /\ after[i].kids = IF i = Len(calls) THEN calls[i].kids \ {c} ELSE calls[i].kids

OneMore(par, calls, c, twin, after) ==
    /\ after \in Seq(Call) /\ Len(after) = Len(calls) + 1
    /\ \A i \in 1..Len(calls) : /\ after[i].src = calls[i].src /\ after[i].dst = calls[i].dst
                                /\ after[i].kids = IF i = Len(calls) THEN calls[i].kids \ {c} ELSE calls[i].kids
    /\ after[Len(calls) + 1].src = c /\ after[Len(calls) + 1].dst = twin
    /\ after[Len(calls) + 1].kids = {u \in Units : par[u] = c}

OneFewer(calls, after) ==
    /\ after \in Seq(Call) /\ Len(after) = Len(calls) - 1
    /\ \A i \in 1..(Len(calls) - 1) : after[i] = calls[i]

\* And to the tables.
Moved(par, c, d) == [par EXCEPT ![c] = d]
GoneOver(mem, c, d) == [x \in Domains |-> IF mem[x] = c THEN d ELSE mem[x]]

LEMMA CallTyped ==
    ASSUME NEW calls \in Seq(Call), NEW i \in 1..Len(calls)
    PROVE  calls[i].src \in Units /\ calls[i].dst \in Units /\ calls[i].kids \in SUBSET Units
<1>1. calls[i] \in Call
  OBVIOUS
<1>2. QED
  BY <1>1 DEF Call

\* The calls go down the tree.
LEMMA CallsGoDown ==
    ASSUME NEW par, NEW calls \in Seq(Call), CallsRight(par, calls),
           NEW i \in 1..Len(calls), NEW j \in 1..Len(calls), i <= j
    PROVE  calls[j].src \in Under(par, calls[i].src)
<1> DEFINE T == {k \in Nat : i + k <= Len(calls) => calls[i + k].src \in Under(par, calls[i].src)}
<1>1. \A k \in 1..Len(calls) : calls[k].src \in Units
  BY CallTyped
<1>2. 0 \in T
  BY <1>1, UnderClosed
<1>3. ASSUME NEW k \in Nat, k \in T PROVE k + 1 \in T
  <2> SUFFICES ASSUME i + (k + 1) <= Len(calls) PROVE calls[i + (k + 1)].src \in Under(par, calls[i].src)
    OBVIOUS
  <2>1. i + k \in 1..(Len(calls) - 1) /\ (i + k) + 1 = i + (k + 1) /\ i + (k + 1) \in 1..Len(calls)
    OBVIOUS
  <2>2. calls[i + k].src \in Under(par, calls[i].src)
    BY <1>3, <2>1
  <2>3. par[calls[i + (k + 1)].src] = calls[i + k].src
    BY <2>1 DEF CallsRight
  <2>4. QED
    BY <1>1, <2>1, <2>2, <2>3, UnderClosed DEF ClosedBelow
<1>4. Nat \subseteq T
  <2> HIDE DEF T
  <2>1. QED
    BY <1>2, <1>3, NumberInduction
<1>5. j - i \in Nat /\ i + (j - i) = j /\ j <= Len(calls)
  OBVIOUS
<1>6. j - i \in T
  <2> HIDE DEF T
  <2>1. QED
    BY <1>4, <1>5
<1>7. calls[i + (j - i)].src \in Under(par, calls[i].src)
  BY <1>5, <1>6
<1>8. QED
  BY <1>5, <1>7

\* The first call is not for a unit under the one of a later call, nor is any.
LEMMA KidIsNew ==
    ASSUME NEW par \in Parents, NEW calls \in Seq(Call), NoCircle(par), CallsRight(par, calls), calls # <<>>,
           NEW c \in calls[Len(calls)].kids
    PROVE  /\ c \in Units /\ par[c] = calls[Len(calls)].src /\ \A i \in 1..Len(calls) : calls[i].src # c
           /\ \A i \in 1..Len(calls) : c \in Under(par, calls[i].src)
<1>1. Len(calls) \in 1..Len(calls) /\ Len(calls) \in Nat
  OBVIOUS
<1>2. c \in Units /\ par[c] = calls[Len(calls)].src
  BY <1>1, CallTyped DEF CallsRight
<1>3. \A i \in 1..Len(calls) : calls[i].src \in Units
  BY CallTyped
<1>4. \A i \in 1..Len(calls) : calls[Len(calls)].src \in Under(par, calls[i].src)
  BY <1>1, CallsGoDown
<1>5. ASSUME NEW i \in 1..Len(calls), calls[i].src = c PROVE FALSE
  <2>1. par[c] \in Under(par, c)
    BY <1>2, <1>4, <1>5
  <2>2. QED
    BY <1>1, <1>2, <1>3, <2>1, ParentNotUnder
<1>6. \A i \in 1..Len(calls) : c \in Under(par, calls[i].src)
  BY <1>2, <1>3, <1>4, UnderClosed DEF ClosedBelow
<1>7. QED
  BY <1>2, <1>5, <1>6

\* A unit that was to come goes over to where its unit is folded.
LEMMA MoveRight ==
    ASSUME NEW par \in Parents, NEW calls \in Seq(Call), NoCircle(par), CallsRight(par, calls), calls # <<>>,
           NEW c \in calls[Len(calls)].kids,
           NEW new, new = Moved(par, c, calls[Len(calls)].dst),
           NEW after, OneLess(calls, c, after)
    PROVE  /\ NoCircle(new) /\ CallsRight(new, after)
           /\ \A i \in 1..Len(calls) : Under(new, calls[i].src) \subseteq Under(par, calls[i].src)
<1> USE DEF OneLess, Moved
<1> DEFINE n == Len(calls)
<1>1. n \in 1..n /\ n \in Nat
  OBVIOUS
<1>2. /\ c \in Units /\ par[c] = calls[n].src /\ \A i \in 1..n : calls[i].src # c /\ calls[i].src \in Units
      /\ \A i \in 1..n : c \in Under(par, calls[i].src)
  <2>1. \A i \in 1..n : calls[i].src \in Units
    BY CallTyped
  <2>2. /\ c \in Units /\ par[c] = calls[n].src /\ \A i \in 1..n : calls[i].src # c
        /\ \A i \in 1..n : c \in Under(par, calls[i].src)
    BY KidIsNew
  <2>3. QED
    BY <2>1, <2>2
<1>3. new[c] = calls[n].dst /\ \A w \in Units : w # c => new[w] = par[w]
  BY <1>2 DEF Parents
<1>4. NoCircle(new)
  <2>1. Under(par, c) \subseteq Under(par, calls[n].src)
    BY <1>1, <1>2, UnderBelow
  <2>2. calls[n].dst \notin Under(par, c)
    BY <1>1, <2>1 DEF CallsRight
  <2>3. QED
    BY <1>2, <2>2, MovedNoCircle
<1>5. ASSUME NEW i \in 1..n PROVE Under(new, calls[i].src) \subseteq Under(par, calls[i].src)
  <2>1. \A w \in Units : new[w] = par[w] \/ w \in Under(par, calls[i].src)
    BY <1>2, <1>3
  <2>2. QED
    BY <1>2, <2>1, UnderShrinks
<1>6. \A i, j \in 1..n : after[i].src = after[j].src => i = j
  BY DEF CallsRight
<1>7. ASSUME NEW i \in 1..(n - 1)
      PROVE  new[after[i + 1].src] = after[i].src /\ after[i + 1].src \notin after[i].kids
  <2>1. i \in 1..n /\ i + 1 \in 1..n /\ i # n
    BY <1>1
  <2>2. par[calls[i + 1].src] = calls[i].src /\ calls[i + 1].src \notin calls[i].kids
    BY DEF CallsRight
  <2>3. calls[i + 1].src \in Units /\ calls[i + 1].src # c
    BY <1>2, <2>1
  <2>4. after[i + 1].src = calls[i + 1].src /\ after[i].src = calls[i].src /\ after[i].kids = calls[i].kids
    BY <2>1
  <2>5. QED
    BY <1>3, <2>2, <2>3, <2>4
<1>8. ASSUME NEW i \in 1..n, NEW k \in after[i].kids PROVE new[k] = after[i].src
  <2>1. k \in calls[i].kids /\ k \in Units /\ par[k] = calls[i].src
    BY CallTyped DEF CallsRight
  <2>2. k # c
    <3>1. CASE i = n
      BY <3>1
    <3>2. CASE i # n
      <4>1. calls[i].src # calls[n].src
        BY <1>1, <3>2 DEF CallsRight
      <4>2. QED
        BY <1>2, <2>1, <4>1
    <3>3. QED
      BY <3>1, <3>2
  <2>3. QED
    BY <1>3, <2>1, <2>2
<1>9. \A i \in 1..n : after[i].dst \notin Under(new, after[i].src)
  BY <1>5 DEF CallsRight
<1>10. QED
  BY <1>4, <1>5, <1>6, <1>7, <1>8, <1>9 DEF CallsRight

\* A unit that was to come is folded into its twin.
LEMMA CallRight ==
    ASSUME NEW par \in Parents, NEW calls \in Seq(Call), NoCircle(par), CallsRight(par, calls), calls # <<>>,
           NEW c \in calls[Len(calls)].kids,
           NEW twin \in Units, par[twin] = calls[Len(calls)].dst,
           NEW after, OneMore(par, calls, c, twin, after)
    PROVE  CallsRight(par, after)
<1> USE DEF OneMore
<1> DEFINE n == Len(calls)
<1>1. n \in 1..n /\ n \in Nat /\ 1..(n + 1) = (1..n) \cup {n + 1} /\ 1..((n + 1) - 1) = 1..n
  OBVIOUS
<1>2. /\ c \in Units /\ par[c] = calls[n].src /\ \A i \in 1..n : calls[i].src # c
      /\ c \in Under(par, calls[n].src) /\ calls[n].src \in Units
  BY <1>1, KidIsNew, CallTyped
<1>3. \A i, j \in 1..(n + 1) : after[i].src = after[j].src => i = j
  <2>1. \A i, j \in 1..n : after[i].src = after[j].src => i = j
    BY DEF CallsRight
  <2>2. \A i \in 1..n : after[i].src # after[n + 1].src
    BY <1>2
  <2>3. QED
    BY <1>1, <2>1, <2>2
<1>4. ASSUME NEW i \in 1..n
      PROVE  par[after[i + 1].src] = after[i].src /\ after[i + 1].src \notin after[i].kids
  <2>1. CASE i = n
    BY <1>1, <1>2, <2>1
  <2>2. CASE i # n
    <3>1. i \in 1..(n - 1) /\ i + 1 \in 1..n
      BY <2>2
    <3>2. par[calls[i + 1].src] = calls[i].src /\ calls[i + 1].src \notin calls[i].kids
      BY <3>1 DEF CallsRight
    <3>3. QED
      BY <2>2, <3>1, <3>2
  <2>3. QED
    BY <2>1, <2>2
<1>5. ASSUME NEW i \in 1..(n + 1), NEW k \in after[i].kids PROVE par[k] = after[i].src
  <2>1. CASE i = n + 1
    BY <2>1
  <2>2. CASE i \in 1..n
    <3>1. k \in calls[i].kids
      BY <2>2
    <3>2. par[k] = calls[i].src
      BY <2>2, <3>1 DEF CallsRight
    <3>3. QED
      BY <2>2, <3>2
  <2>3. QED
    BY <1>1, <2>1, <2>2
<1>6. ASSUME NEW i \in 1..(n + 1) PROVE after[i].dst \notin Under(par, after[i].src)
  <2>1. CASE i \in 1..n
    BY <2>1 DEF CallsRight
  <2>2. CASE i = n + 1
    <3> SUFFICES ASSUME twin \in Under(par, c) PROVE FALSE
      BY <2>2
    <3>1. calls[n].dst \notin Under(par, calls[n].src)
      BY <1>1 DEF CallsRight
    <3>2. Under(par, c) \subseteq Under(par, calls[n].src)
      BY <1>2, UnderBelow
    <3>3. CASE twin = c
      BY <1>2, <3>1, <3>3, UnderClosed
    <3>4. CASE twin # c
      BY <1>2, <3>1, <3>2, <3>4, UnderParent
    <3>5. QED
      BY <3>3, <3>4
  <2>3. QED
    BY <1>1, <2>1, <2>2
<1>7. QED
  BY <1>1, <1>3, <1>4, <1>5, <1>6 DEF CallsRight

\* A call returns when none of its units is to come, and the row goes.
LEMMA ReturnRight ==
    ASSUME NEW par \in Parents, NEW calls \in Seq(Call), NoCircle(par), CallsRight(par, calls), calls # <<>>,
           NEW new, new = Moved(par, calls[Len(calls)].src, Removed),
           NEW after, OneFewer(calls, after)
    PROVE  /\ NoCircle(new) /\ CallsRight(new, after)
           /\ \A u \in Units : Under(new, u) \subseteq Under(par, u)
<1> USE DEF OneFewer, Moved
<1> DEFINE n == Len(calls)  s == calls[n].src
<1>1. n \in 1..n /\ n \in Nat /\ 1..(n - 1) \subseteq 1..n
  OBVIOUS
<1>2. s \in Units /\ Removed \notin Units
  <2>1. Removed \notin Units
    BY UnitConstants DEF Removed
  <2>2. QED
    BY <1>1, <2>1, CallTyped
<1>3. new[s] = Removed /\ \A w \in Units : w # s => new[w] = par[w]
  BY <1>2 DEF Parents
<1>4. NoCircle(new)
  <2>1. \A u \in Units : new[u] = par[u] \/ new[u] \notin Units
    BY <1>2, <1>3
  <2> HIDE DEF n, s
  <2>2. QED
    BY <2>1, CutNoCircle
<1>5. ASSUME NEW u \in Units PROVE Under(new, u) \subseteq Under(par, u)
  <2>1. \A w \in Units : new[w] \in Under(par, u) => new[w] = par[w]
    BY <1>2, <1>3, UnderClosed
  <2> HIDE DEF n, s, Moved
  <2>2. QED
    BY <2>1, UnderShrinks
<1>6. \A i, j \in 1..(n - 1) : after[i].src = after[j].src => i = j
  BY <1>1 DEF CallsRight
<1>7. ASSUME NEW i \in 1..((n - 1) - 1)
      PROVE  new[after[i + 1].src] = after[i].src /\ after[i + 1].src \notin after[i].kids
  <2>1. i \in 1..(n - 1) /\ i + 1 \in 1..(n - 1) /\ i + 1 # n /\ i + 1 \in 1..n
    BY <1>1
  <2>2. par[calls[i + 1].src] = calls[i].src /\ calls[i + 1].src \notin calls[i].kids
    BY <2>1 DEF CallsRight
  <2>3. calls[i + 1].src # s /\ calls[i + 1].src \in Units
    <3>1. calls[i + 1].src = calls[n].src => i + 1 = n
      BY <1>1, <2>1 DEF CallsRight
    <3>2. QED
      BY <2>1, <3>1, CallTyped
  <2>4. QED
    BY <1>3, <2>1, <2>2, <2>3
<1>8. ASSUME NEW i \in 1..(n - 1), NEW k \in after[i].kids PROVE new[k] = after[i].src
  <2>1. i \in 1..n /\ i # n /\ after[i] = calls[i] /\ calls[i] \in Call
    BY <1>1
  <2>2. k \in Units /\ par[k] = calls[i].src
    BY <2>1, CallTyped DEF CallsRight
  <2>3. k # s
    <3> SUFFICES ASSUME k = s PROVE FALSE
      OBVIOUS
    <3>1. n - 1 \in 1..(n - 1) /\ (n - 1) + 1 = n
      BY <1>1, <2>1
    <3>2. par[s] = calls[n - 1].src /\ s \notin calls[n - 1].kids
      BY <3>1 DEF CallsRight
    <3>3. i = n - 1
      BY <1>1, <2>1, <2>2, <3>1, <3>2 DEF CallsRight
    <3>4. QED
      BY <2>1, <3>2, <3>3
  <2>4. QED
    BY <1>3, <2>1, <2>2, <2>3
<1>9. ASSUME NEW i \in 1..(n - 1) PROVE after[i].dst \notin Under(new, after[i].src)
  <2>1. calls[i].dst \notin Under(par, calls[i].src) /\ calls[i].src \in Units
    BY <1>1, CallTyped DEF CallsRight
  <2>2. QED
    BY <1>5, <2>1
<1>10. QED
  BY <1>4, <1>5, <1>6, <1>7, <1>8, <1>9 DEF CallsRight

\* Of a tree that was whole: units and domains are under rows, and a unit that
\* is folded away has nothing below it but what is still to come.
RowOrTop(par, u) == u = Top \/ (u \in Units /\ IsRow(par, u))

CallsWhole(par, mem, calls, source) ==
    /\ \A u \in Units : IsRow(par, u) => RowOrTop(par, par[u])
    /\ \A x \in Domains : mem[x] = Out \/ RowOrTop(par, mem[x])
    /\ \A i \in 1..Len(calls) : /\ IsRow(par, calls[i].src) /\ IsRow(par, calls[i].dst)
                                /\ calls[i].dst \notin Under(par, source)
    /\ \A i \in 1..Len(calls) : \A u \in Units :
           par[u] = calls[i].src => u \in calls[i].kids \/ (i < Len(calls) /\ u = calls[i + 1].src)
    /\ \A i \in 1..Len(calls) : \A x \in Domains : mem[x] # calls[i].src
    /\ Len(calls) > 0 => calls[1].src = source

LEMMA NoUnitNumbers == Top \notin Units /\ Unborn \notin Units /\ Removed \notin Units /\ Out \notin Units
BY UnitConstants DEF Top, Unborn, Removed, Out

LEMMA UnitIsRow ==
    ASSUME NEW par, NEW u, par[u] \in Units \cup {Top}
    PROVE  IsRow(par, u)
<1>1. Unborn # Top /\ Removed # Top
  BY DEF Unborn, Removed, Top
<1>2. QED
  BY <1>1, NoUnitNumbers DEF IsRow

\* What is folded is below the source.
LEMMA CallsUnder ==
    ASSUME NEW par, NEW mem, NEW calls \in Seq(Call), CallsRight(par, calls), NEW source,
           CallsWhole(par, mem, calls, source), NEW i \in 1..Len(calls)
    PROVE  calls[i].src \in Under(par, source) /\ source \in Units
<1>1. 1 \in 1..Len(calls) /\ Len(calls) > 0 /\ 1 <= i
  OBVIOUS
<1>2. calls[1].src = source
  BY <1>1 DEF CallsWhole
<1>3. QED
  BY <1>1, <1>2, CallsGoDown, CallTyped

LEMMA MoveWhole ==
    ASSUME NEW par \in Parents, NEW calls \in Seq(Call), NoCircle(par), CallsRight(par, calls), calls # <<>>,
           NEW c \in calls[Len(calls)].kids,
           NEW new, new = Moved(par, c, calls[Len(calls)].dst),
           NEW after, OneLess(calls, c, after),
           NEW mem, NEW source, CallsWhole(par, mem, calls, source)
    PROVE  CallsWhole(new, mem, after, source)
<1> USE DEF OneLess, Moved
<1> DEFINE n == Len(calls)  d == calls[n].dst
<1>1. n \in 1..n /\ n \in Nat /\ n > 0 /\ 1 \in 1..n
  OBVIOUS
<1>2. c \in Units /\ par[c] = calls[n].src
  BY KidIsNew
<1>3. new[c] = d /\ \A w \in Units : w # c => new[w] = par[w]
  BY <1>2 DEF Parents
<1>4. d \in Units /\ IsRow(par, d) /\ calls[n].src \in Units
  BY <1>1, CallTyped DEF CallsWhole
<1>5. \A u \in Units : IsRow(par, u) => IsRow(new, u)
  <2>1. IsRow(new, c)
    BY <1>3, <1>4, UnitIsRow
  <2>2. QED
    BY <1>3, <2>1 DEF IsRow
<1>6. \A u \in Units : IsRow(new, u) => IsRow(par, u)
  <2>1. IsRow(par, c)
    BY <1>2, <1>4, UnitIsRow
  <2>2. QED
    BY <1>3, <2>1 DEF IsRow
<1> HIDE DEF d
<1>7. calls[1].src = source /\ source \in Units /\ Under(new, source) \subseteq Under(par, source)
  <2>1. calls[1].src = source
    BY <1>1 DEF CallsWhole
  <2>2. \A i \in 1..n : Under(new, calls[i].src) \subseteq Under(par, calls[i].src)
    BY MoveRight
  <2>3. QED
    BY <1>1, <2>1, <2>2, CallTyped
<1>8. ASSUME NEW u \in Units, IsRow(new, u) PROVE RowOrTop(new, new[u])
  <2>1. CASE u = c
    BY <1>3, <1>4, <1>5, <2>1 DEF RowOrTop
  <2>2. CASE u # c
    BY <1>3, <1>5, <1>6, <1>8, <2>2 DEF RowOrTop, CallsWhole
  <2>3. QED
    BY <2>1, <2>2
<1>9. \A x \in Domains : mem[x] = Out \/ RowOrTop(new, mem[x])
  BY <1>5 DEF RowOrTop, CallsWhole
<1>10. ASSUME NEW i \in 1..n
       PROVE  IsRow(new, after[i].src) /\ IsRow(new, after[i].dst) /\ after[i].dst \notin Under(new, source)
  BY <1>5, <1>7, CallTyped DEF CallsWhole
<1>11. ASSUME NEW i \in 1..n, NEW u \in Units, new[u] = after[i].src
       PROVE  u \in after[i].kids \/ (i < n /\ u = after[i + 1].src)
  <2>1. after[i].src = calls[i].src /\ calls[i].src \in Under(par, source)
    BY CallsUnder
  <2>2. u # c
    <3>1. d \notin Under(par, source)
      BY <1>1 DEF CallsWhole, d
    <3>2. QED
      BY <1>3, <1>11, <2>1, <3>1
  <2>3. par[u] = calls[i].src
    BY <1>3, <1>11, <2>1, <2>2
  <2>4. u \in calls[i].kids \/ (i < n /\ u = calls[i + 1].src)
    BY <2>3 DEF CallsWhole
  <2>5. CASE u \in calls[i].kids
    BY <2>2, <2>5
  <2>6. CASE i < n /\ u = calls[i + 1].src
    <3>1. i + 1 \in 1..n
      BY <2>6
    <3>2. QED
      BY <2>6, <3>1
  <2>7. QED
    BY <2>4, <2>5, <2>6
<1>12. \A i \in 1..n : \A x \in Domains : mem[x] # after[i].src
  BY DEF CallsWhole
<1>13. after[1].src = source
  BY <1>1, <1>7
<1>14. QED
  BY <1>8, <1>9, <1>10, <1>11, <1>12, <1>13 DEF CallsWhole

LEMMA CallWhole ==
    ASSUME NEW par \in Parents, NEW calls \in Seq(Call), NoCircle(par), CallsRight(par, calls), calls # <<>>,
           NEW c \in calls[Len(calls)].kids,
           NEW twin \in Units, par[twin] = calls[Len(calls)].dst,
           NEW after, OneMore(par, calls, c, twin, after),
           NEW mem, NEW source, CallsWhole(par, mem, calls, source), twin # source,
           NEW now, now = GoneOver(mem, c, twin)
    PROVE  CallsWhole(par, now, after, source)
<1> USE DEF OneMore, GoneOver
<1> DEFINE n == Len(calls)
<1>1. n \in 1..n /\ n \in Nat /\ 1..(n + 1) = (1..n) \cup {n + 1} /\ 1 \in 1..n /\ n > 0
  OBVIOUS
<1>2. c \in Units /\ par[c] = calls[n].src /\ \A i \in 1..n : calls[i].src # c /\ c \in Under(par, calls[i].src)
  BY KidIsNew
<1>3. calls[n].src \in Units /\ calls[n].dst \in Units
  BY <1>1, CallTyped
<1>4. IsRow(par, c) /\ IsRow(par, twin)
  BY <1>2, <1>3, UnitIsRow
<1>5. calls[1].src = source /\ source \in Units
  BY <1>1, CallTyped DEF CallsWhole
<1>6. twin \notin Under(par, source)
  <2> SUFFICES ASSUME twin \in Under(par, source) PROVE FALSE
    OBVIOUS
  <2>1. par[twin] \in Under(par, source)
    BY <1>5, UnderParent
  <2>2. QED
    BY <1>1, <2>1 DEF CallsWhole
<1>7. \A x \in Domains : now[x] = Out \/ RowOrTop(par, now[x])
  BY <1>4 DEF RowOrTop, CallsWhole
<1>8. ASSUME NEW i \in 1..(n + 1)
      PROVE  IsRow(par, after[i].src) /\ IsRow(par, after[i].dst) /\ after[i].dst \notin Under(par, source)
  <2>1. CASE i \in 1..n
    BY <2>1 DEF CallsWhole
  <2>2. CASE i = n + 1
    BY <1>4, <1>6, <2>2
  <2>3. QED
    BY <1>1, <2>1, <2>2
<1>9. ASSUME NEW i \in 1..(n + 1), NEW u \in Units, par[u] = after[i].src
      PROVE  u \in after[i].kids \/ (i < n + 1 /\ u = after[i + 1].src)
  <2>1. CASE i = n + 1
    BY <1>9, <2>1
  <2>2. CASE i \in 1..n
    <3>1. u \in calls[i].kids \/ (i < n /\ u = calls[i + 1].src)
      <4>1. par[u] = calls[i].src
        BY <1>9, <2>2
      <4>2. QED
        BY <2>2, <4>1 DEF CallsWhole
    <3>2. CASE i < n /\ u = calls[i + 1].src
      <4>1. i + 1 \in 1..n /\ i < n + 1
        BY <1>1, <2>2, <3>2
      <4>2. QED
        BY <3>2, <4>1
    <3>3. CASE u \in calls[i].kids /\ i # n
      BY <2>2, <3>3
    <3>4. CASE u \in calls[i].kids /\ i = n
      <4>1. u = c \/ u \in after[i].kids
        BY <2>2, <3>4
      <4>2. QED
        BY <1>1, <3>4, <4>1
    <3>5. QED
      BY <3>1, <3>2, <3>3, <3>4
  <2>3. QED
    BY <1>1, <2>1, <2>2
<1>10. ASSUME NEW i \in 1..(n + 1), NEW x \in Domains PROVE now[x] # after[i].src
  <2>1. CASE i = n + 1
    <3>1. twin # c
      BY <1>1, <1>2, <1>5, <1>6
    <3>2. QED
      BY <2>1, <3>1
  <2>2. CASE i \in 1..n
    <3>1. mem[x] # calls[i].src
      BY <2>2 DEF CallsWhole
    <3>2. twin # calls[i].src
      BY <1>6, <2>2, CallsUnder
    <3>3. QED
      BY <2>2, <3>1, <3>2
  <2>3. QED
    BY <1>1, <2>1, <2>2
<1>11. after[1].src = source
  BY <1>1, <1>5
<1>12. \A u \in Units : IsRow(par, u) => RowOrTop(par, par[u])
  BY DEF CallsWhole
<1>13. QED
  BY <1>7, <1>8, <1>9, <1>10, <1>11, <1>12 DEF CallsWhole

LEMMA ReturnWhole ==
    ASSUME NEW par \in Parents, NEW calls \in Seq(Call), NoCircle(par), CallsRight(par, calls), calls # <<>>,
           calls[Len(calls)].kids = {},
           NEW new, new = Moved(par, calls[Len(calls)].src, Removed),
           NEW after, OneFewer(calls, after),
           NEW mem, NEW source, CallsWhole(par, mem, calls, source)
    PROVE  CallsWhole(new, mem, after, source)
<1> USE DEF OneFewer, Moved
<1> DEFINE n == Len(calls)  s == calls[n].src
<1>1. n \in 1..n /\ n \in Nat /\ n > 0 /\ 1..(n - 1) \subseteq 1..n
  OBVIOUS
<1>2. s \in Units /\ source \in Units /\ s \in Under(par, source)
  BY <1>1, CallTyped, CallsUnder
<1>3. new[s] = Removed /\ \A w \in Units : w # s => new[w] = par[w]
  BY <1>2 DEF Parents
<1>4. \A u \in Units : par[u] # s
  BY <1>1 DEF CallsWhole
<1>5. \A x \in Domains : mem[x] # s
  BY <1>1 DEF CallsWhole
<1>6. \A i \in 1..(n - 1) : calls[i].src # s /\ calls[i].src \in Units
  <2> SUFFICES ASSUME NEW i \in 1..(n - 1) PROVE calls[i].src # calls[n].src /\ calls[i].src \in Units
    OBVIOUS
  <2>1. i \in 1..n /\ i # n
    BY <1>1
  <2>2. QED
    BY <1>1, <2>1, CallTyped DEF CallsRight
<1>7. \A i \in 1..n : calls[i].dst # s /\ calls[i].dst \in Units
  BY <1>2, CallTyped DEF CallsWhole
<1>8. Under(new, source) \subseteq Under(par, source)
  BY <1>2, ReturnRight
<1>9. \A u \in Units : u # s => (IsRow(new, u) <=> IsRow(par, u))
  BY <1>3 DEF IsRow
<1>10. \A u \in Units : IsRow(new, u) => u # s
  BY <1>3 DEF IsRow
<1> HIDE DEF s
<1>11. ASSUME NEW u \in Units, IsRow(new, u) PROVE RowOrTop(new, new[u])
  <2>1. u # s /\ new[u] = par[u] /\ RowOrTop(par, par[u])
    BY <1>3, <1>9, <1>10, <1>11 DEF CallsWhole
  <2>2. QED
    BY <1>4, <1>9, <2>1 DEF RowOrTop
<1>12. \A x \in Domains : mem[x] = Out \/ RowOrTop(new, mem[x])
  BY <1>5, <1>9 DEF RowOrTop, CallsWhole
<1>13. ASSUME NEW i \in 1..(n - 1)
       PROVE  IsRow(new, after[i].src) /\ IsRow(new, after[i].dst) /\ after[i].dst \notin Under(new, source)
  <2>1. i \in 1..n /\ after[i] = calls[i]
    BY <1>1
  <2>2. IsRow(par, calls[i].src) /\ IsRow(par, calls[i].dst) /\ calls[i].dst \notin Under(par, source)
    BY <2>1 DEF CallsWhole
  <2>3. QED
    BY <1>6, <1>7, <1>8, <1>9, <2>1, <2>2
<1>14. ASSUME NEW i \in 1..(n - 1), NEW u \in Units, new[u] = after[i].src
       PROVE  u \in after[i].kids \/ (i < n - 1 /\ u = after[i + 1].src)
  <2>1. i \in 1..n /\ after[i] = calls[i]
    BY <1>1
  <2>2. u # s
    <3>1. Removed # calls[i].src
      BY <1>6, NoUnitNumbers
    <3>2. QED
      BY <1>3, <1>14, <2>1, <3>1
  <2>3. par[u] = calls[i].src
    BY <1>3, <1>14, <2>1, <2>2
  <2>4. u \in calls[i].kids \/ (i < n /\ u = calls[i + 1].src)
    BY <2>1, <2>3 DEF CallsWhole
  <2>5. CASE i = n - 1
    BY <1>1, <2>1, <2>2, <2>4, <2>5 DEF s
  <2>6. CASE i # n - 1
    <3>1. i + 1 \in 1..(n - 1) /\ i < n - 1
      BY <1>1, <2>6
    <3>2. QED
      BY <2>1, <2>4, <3>1
  <2>7. QED
    BY <2>5, <2>6
<1>15. \A i \in 1..(n - 1) : \A x \in Domains : mem[x] # after[i].src
  BY <1>1 DEF CallsWhole
<1>16. n - 1 > 0 => after[1].src = source
  BY <1>1 DEF CallsWhole
<1>17. QED
  BY <1>11, <1>12, <1>13, <1>14, <1>15, <1>16 DEF CallsWhole

(***************************************************************************)
(* A merge, call by call                                                   *)
(***************************************************************************)
LEMMA FindsRow ==
    ASSUME NEW par \in Parents, NEW m, NEW p
    PROVE  \/ Find(par, m, p) = Top
           \/ Find(par, m, p) \in Units /\ IsRow(par, Find(par, m, p)) /\ par[Find(par, m, p)] = p
<1> DEFINE same == {u \in Units : IsRow(par, u) /\ name[u] = m /\ par[u] = p}
<1>1. CASE same = {}
  BY <1>1 DEF Find
<1>2. CASE same # {}
  <2>1. same \subseteq Nat
    BY UnitConstants
  <2> HIDE DEF same
  <2>2. \E x \in same : \A y \in same : x <= y
    BY <1>2, <2>1, LeastNumber
  <2>3. Min(same) \in same
    BY <2>2 DEF Min
  <2>4. Find(par, m, p) = Min(same)
    BY <1>2 DEF Find, same
  <2>5. QED
    BY <2>3, <2>4 DEF same
<1>3. QED
  BY <1>1, <1>2

LEMMA FewerCalls ==
    ASSUME NEW calls \in Seq(Call), calls # <<>>
    PROVE  OneFewer(calls, SubSeq(calls, 1, Len(calls) - 1))
<1>1. PICK m \in Nat : m = Len(calls) - 1 /\ m <= Len(calls)
  <2>1. Len(calls) \in Nat /\ Len(calls) # 0
    OBVIOUS
  <2>2. Len(calls) - 1 \in Nat /\ Len(calls) - 1 <= Len(calls)
    BY <2>1
  <2>3. QED
    BY <2>2
<1>2. PICK after : after = SubSeq(calls, 1, m)
  OBVIOUS
<1>3. \A i \in 1..m : calls[i] \in Call
  BY <1>1
<1>4. after \in Seq(Call)
  BY <1>1, <1>2, <1>3
<1>5. Len(after) = m /\ \A i \in 1..m : after[i] = calls[i]
  BY <1>1, <1>2, <1>3
<1>6. OneFewer(calls, after)
  BY <1>1, <1>4, <1>5 DEF OneFewer
<1>7. QED
  BY <1>1, <1>2, <1>6

TakenOff(calls, c) == [calls EXCEPT ![Len(calls)].kids = calls[Len(calls)].kids \ {c}]

LEMMA LessToCome ==
    ASSUME NEW calls \in Seq(Call), calls # <<>>, NEW c
    PROVE  OneLess(calls, c, TakenOff(calls, c))
<1>1. PICK n \in 1..Len(calls) : n = Len(calls)
  OBVIOUS
<1>2. PICK row : row = [calls[n] EXCEPT !.kids = calls[n].kids \ {c}]
  OBVIOUS
<1>3. PICK on : on = [calls EXCEPT ![n] = row]
  OBVIOUS
<1>4. on = TakenOff(calls, c)
  BY <1>1, <1>2, <1>3 DEF TakenOff
<1>5. row \in Call /\ row.src = calls[n].src /\ row.dst = calls[n].dst /\ row.kids = calls[n].kids \ {c}
  <2>1. calls[n] \in Call
    OBVIOUS
  <2>2. QED
    BY <1>2, <2>1 DEF Call
<1>6. on \in Seq(Call) /\ Len(on) = Len(calls) /\ \A i \in 1..Len(calls) : on[i] = IF i = n THEN row ELSE calls[i]
  BY <1>3, <1>5, ExceptSeq
<1>7. \A i \in 1..Len(calls) : /\ on[i].src = calls[i].src /\ on[i].dst = calls[i].dst
                               /\ on[i].kids = IF i = n THEN calls[i].kids \ {c} ELSE calls[i].kids
  BY <1>5, <1>6
<1>8. OneLess(calls, c, on)
  BY <1>1, <1>6, <1>7 DEF OneLess
<1>9. QED
  BY <1>4, <1>8

\* One more call.
LEMMA MoreCalls ==
    ASSUME NEW calls \in Seq(Call), NEW row \in Call
    PROVE  /\ Append(calls, row) \in Seq(Call) /\ Len(Append(calls, row)) = Len(calls) + 1
           /\ \A i \in 1..Len(calls) : Append(calls, row)[i] = calls[i]
           /\ Append(calls, row)[Len(calls) + 1] = row
OBVIOUS

CallOf(par, c, d) == [src |-> c, dst |-> d, kids |-> {u \in Units : par[u] = c}]

LEMMA CallOfTyped ==
    ASSUME NEW par, NEW c \in Units, NEW d \in Units
    PROVE  CallOf(par, c, d) \in Call /\ CallOf(par, c, d).src = c /\ CallOf(par, c, d).dst = d
           /\ CallOf(par, c, d).kids = {u \in Units : par[u] = c}
BY DEF CallOf, Call

LEMMA LessAndMore ==
    ASSUME NEW par, NEW calls \in Seq(Call), NEW c \in Units, NEW d \in Units, NEW on, OneLess(calls, c, on)
    PROVE  OneMore(par, calls, c, d, Append(on, CallOf(par, c, d)))
<1>1. PICK row \in Call : row = CallOf(par, c, d)
  BY CallOfTyped
<1>2. row.src = c /\ row.dst = d /\ row.kids = {u \in Units : par[u] = c}
  BY <1>1 DEF CallOf
<1>3. on \in Seq(Call) /\ Len(on) = Len(calls)
  BY DEF OneLess
<1>4. PICK after : after = Append(on, row)
  OBVIOUS
<1>5. /\ after \in Seq(Call) /\ Len(after) = Len(calls) + 1 /\ after[Len(calls) + 1] = row
      /\ \A i \in 1..Len(calls) : after[i] = on[i]
  BY <1>3, <1>4, MoreCalls
<1>6. \A i \in 1..Len(calls) : /\ after[i].src = calls[i].src /\ after[i].dst = calls[i].dst
                               /\ after[i].kids = IF i = Len(calls) THEN calls[i].kids \ {c} ELSE calls[i].kids
  BY <1>5 DEF OneLess
<1>7. OneMore(par, calls, c, d, after)
  BY <1>2, <1>5, <1>6 DEF OneMore
<1>8. QED
  BY <1>1, <1>4, <1>7

LEMMA FoldCalled ==
    ASSUME NEW t \in Folding, NEW s \in Units, NEW d \in Units, NEW r, r = CallFold(t, s, d)
    PROVE  /\ r \in Folding /\ r.parent = t.parent /\ r.own = t.own
           /\ r.member = GoneOver(t.member, s, d) /\ r.calls = Append(t.calls, CallOf(t.parent, s, d))
<1> DEFINE mem == GoneOver(t.member, s, d)  row == CallOf(t.parent, s, d)
<1>1. /\ t.parent \in [Units -> Units \cup {Top, Unborn, Removed}] /\ t.member \in [Domains -> Units \cup {Top, Out}]
      /\ t.calls \in Seq(Call) /\ t.own \in BOOLEAN
  BY DEF Folding
<1>2. mem \in [Domains -> Units \cup {Top, Out}]
  BY <1>1 DEF GoneOver
<1>3. row \in Call
  BY CallOfTyped
<1>4. r = [[t EXCEPT !.member = mem] EXCEPT !.calls = Append(t.calls, row)]
  BY DEF CallFold, GoneOver, CallOf
<1> HIDE DEF mem, row
<1>5. Append(t.calls, row) \in Seq(Call)
  BY <1>1, <1>3, MoreCalls
<1>6. /\ r \in Folding /\ r.parent = t.parent /\ r.own = t.own /\ r.member = mem /\ r.calls = Append(t.calls, row)
  BY <1>1, <1>2, <1>4, <1>5 DEF Folding
<1>7. QED
  BY <1>6 DEF mem, row

LEMMA FoldReturned ==
    ASSUME NEW t \in Folding, t.calls # <<>>, NEW r, r = ReturnFold(t)
    PROVE  /\ r \in Folding /\ r.member = t.member /\ r.own = t.own
           /\ r.parent = Moved(t.parent, t.calls[Len(t.calls)].src, Removed)
           /\ OneFewer(t.calls, r.calls)
<1> DEFINE s == t.calls[Len(t.calls)].src  calls == SubSeq(t.calls, 1, Len(t.calls) - 1)
           par == Moved(t.parent, s, Removed)
<1>1. /\ t.parent \in [Units -> Units \cup {Top, Unborn, Removed}] /\ t.member \in [Domains -> Units \cup {Top, Out}]
      /\ t.calls \in Seq(Call) /\ t.own \in BOOLEAN
  BY DEF Folding
<1>2. OneFewer(t.calls, calls)
  BY <1>1, FewerCalls
<1>3. par \in [Units -> Units \cup {Top, Unborn, Removed}] /\ calls \in Seq(Call)
  BY <1>1, <1>2 DEF OneFewer, Moved
<1>4. r = [[t EXCEPT !.parent = par] EXCEPT !.calls = calls]
  BY DEF ReturnFold, Moved
<1> HIDE DEF s, calls, par
<1>5. r \in Folding /\ r.member = t.member /\ r.own = t.own /\ r.parent = par /\ r.calls = calls
  BY <1>1, <1>3, <1>4 DEF Folding
<1>6. QED
  BY <1>2, <1>5 DEF s, par

LEMMA FoldMoves ==
    ASSUME NEW t \in Folding, t.calls # <<>>, NEW c \in t.calls[Len(t.calls)].kids, NEW source,
           NEW r, r = NextUnit(t, c, source),
           Find(t.parent, name[c], t.calls[Len(t.calls)].dst) = Top
    PROVE  /\ r \in Folding /\ r.member = t.member /\ r.own = t.own
           /\ r.parent = Moved(t.parent, c, t.calls[Len(t.calls)].dst)
           /\ OneLess(t.calls, c, r.calls)
<1> DEFINE n == Len(t.calls)  calls == TakenOff(t.calls, c)
           par == Moved(t.parent, c, t.calls[n].dst)
<1>1. /\ t.parent \in [Units -> Units \cup {Top, Unborn, Removed}] /\ t.member \in [Domains -> Units \cup {Top, Out}]
      /\ t.calls \in Seq(Call) /\ t.own \in BOOLEAN /\ n \in 1..n
  BY DEF Folding
<1>2. OneLess(t.calls, c, calls)
  BY <1>1, LessToCome
<1>3. par \in [Units -> Units \cup {Top, Unborn, Removed}] /\ calls \in Seq(Call)
  BY <1>1, <1>2, CallTyped DEF OneLess, Moved
<1>4. r = [[t EXCEPT !.calls = calls] EXCEPT !.parent = par]
  BY <1>1 DEF NextUnit, Folding, TakenOff, Moved
<1> HIDE DEF calls, par
<1>5. r \in Folding /\ r.member = t.member /\ r.own = t.own /\ r.parent = par /\ r.calls = calls
  BY <1>1, <1>3, <1>4 DEF Folding
<1>6. QED
  BY <1>2, <1>5 DEF par

LEMMA FoldGoesOn ==
    ASSUME NEW t \in Folding, t.calls # <<>>, NEW c \in t.calls[Len(t.calls)].kids, NEW source,
           NEW r, r = NextUnit(t, c, source),
           NEW twin, twin = Find(t.parent, name[c], t.calls[Len(t.calls)].dst), twin \in Units
    PROVE  /\ r \in Folding /\ r.parent = t.parent /\ (r.own <=> t.own \/ twin = source)
           /\ r.member = GoneOver(t.member, c, twin)
           /\ OneMore(t.parent, t.calls, c, twin, r.calls)
<1> DEFINE n == Len(t.calls)  on == TakenOff(t.calls, c)  s == [t EXCEPT !.calls = on]
<1>1. /\ t.parent \in [Units -> Units \cup {Top, Unborn, Removed}] /\ t.member \in [Domains -> Units \cup {Top, Out}]
      /\ t.calls \in Seq(Call) /\ t.own \in BOOLEAN /\ n \in 1..n
  BY DEF Folding
<1>2. OneLess(t.calls, c, on) /\ c \in Units
  BY <1>1, LessToCome, CallTyped
<1>3. s = [t EXCEPT !.calls[n].kids = t.calls[n].kids \ {c}]
  BY <1>1 DEF Folding, TakenOff
<1> HIDE DEF on
<1>4. s \in Folding /\ s.parent = t.parent /\ s.member = t.member /\ s.own = t.own /\ s.calls = on
  BY <1>1, <1>2 DEF Folding, OneLess
<1>5. twin # Top
  BY NoUnitNumbers
<1>6. r = [CallFold(s, c, twin) EXCEPT !.own = t.own \/ twin = source]
  BY <1>3, <1>5 DEF NextUnit
<1> HIDE DEF s
<1>7. PICK f : f = CallFold(s, c, twin)
  OBVIOUS
<1>8. /\ f \in Folding /\ f.parent = s.parent /\ f.member = GoneOver(s.member, c, twin)
      /\ f.calls = Append(s.calls, CallOf(s.parent, c, twin))
  <2>1. s \in Folding /\ c \in Units /\ twin \in Units
    BY <1>2, <1>4
  <2>2. QED
    BY <1>7, <2>1, FoldCalled
<1>9. /\ f.parent = t.parent /\ f.member = GoneOver(t.member, c, twin)
      /\ f.calls = Append(on, CallOf(t.parent, c, twin))
  BY <1>4, <1>8
<1>10. OneMore(t.parent, t.calls, c, twin, f.calls)
  BY <1>1, <1>2, <1>9, LessAndMore
<1>11. PICK o \in BOOLEAN : o <=> t.own \/ twin = source
  OBVIOUS
<1>12. r = [f EXCEPT !.own = o]
  BY <1>1, <1>6, <1>7, <1>11
<1>13. r \in Folding /\ r.parent = f.parent /\ r.member = f.member /\ r.calls = f.calls /\ r.own = o
  BY <1>8, <1>12 DEF Folding
<1>14. QED
  BY <1>9, <1>10, <1>11, <1>13

\* What holds of a merge after each of its steps: in a tree without a circle,
\* and, if sound, in one that was whole when it began.
FoldsRight(source, sound) ==
    {t \in Folding : /\ NoCircle(t.parent) /\ CallsRight(t.parent, t.calls)
                     /\ sound /\ ~t.own => CallsWhole(t.parent, t.member, t.calls, source)}

\* No unit is put under one that has never been, and none that was is as if it
\* had not been, in any tree.
FoldsBorn(before) ==
    {t \in Folding : /\ \A u \in Units : t.parent[u] \in Units => t.parent[t.parent[u]] # Unborn
                     /\ \A i \in 1..Len(t.calls) : t.parent[t.calls[i].dst] # Unborn
                     /\ \A u \in Units : before[u] # Unborn => t.parent[u] # Unborn}

\* A step of a merge is one of three.
LEMMA FoldStep ==
    ASSUME NEW t \in Folding, NEW source, NEW r, r = FoldOn(t, source), t.calls # <<>>
    PROVE  \/ /\ t.calls[Len(t.calls)].kids = {}
              /\ r \in Folding /\ r.member = t.member /\ r.own = t.own
              /\ r.parent = Moved(t.parent, t.calls[Len(t.calls)].src, Removed)
              /\ OneFewer(t.calls, r.calls)
           \/ \E c \in t.calls[Len(t.calls)].kids :
              /\ r \in Folding /\ r.member = t.member /\ r.own = t.own
              /\ r.parent = Moved(t.parent, c, t.calls[Len(t.calls)].dst)
              /\ OneLess(t.calls, c, r.calls)
           \/ \E c \in t.calls[Len(t.calls)].kids, twin \in Units :
              /\ t.parent[twin] = t.calls[Len(t.calls)].dst /\ IsRow(t.parent, twin)
              /\ r \in Folding /\ r.parent = t.parent /\ (r.own <=> t.own \/ twin = source)
              /\ r.member = GoneOver(t.member, c, twin)
              /\ OneMore(t.parent, t.calls, c, twin, r.calls)
<1>1. CASE t.calls[Len(t.calls)].kids = {}
  <2>1. r = ReturnFold(t)
    BY <1>1 DEF FoldOn
  <2>2. QED
    BY <1>1, <2>1, FoldReturned
<1>2. CASE t.calls[Len(t.calls)].kids # {}
  <2>1. PICK c \in t.calls[Len(t.calls)].kids : r = NextUnit(t, c, source)
    BY <1>2 DEF FoldOn
  <2>2. PICK twin : twin = Find(t.parent, name[c], t.calls[Len(t.calls)].dst)
    OBVIOUS
  <2>3. t.parent \in Parents
    BY DEF Folding, Parents
  <2>4. CASE twin = Top
    <3>1. Find(t.parent, name[c], t.calls[Len(t.calls)].dst) = Top
      BY <2>2, <2>4
    <3>2. /\ r \in Folding /\ r.member = t.member /\ r.own = t.own
          /\ r.parent = Moved(t.parent, c, t.calls[Len(t.calls)].dst) /\ OneLess(t.calls, c, r.calls)
      BY <2>1, <3>1, FoldMoves
    <3>3. QED
      BY <3>2
  <2>5. CASE twin # Top
    <3>1. twin \in Units /\ IsRow(t.parent, twin) /\ t.parent[twin] = t.calls[Len(t.calls)].dst
      BY <2>2, <2>3, <2>5, FindsRow
    <3>2. QED
      BY <2>1, <2>2, <3>1, FoldGoesOn
  <2>6. QED
    BY <2>4, <2>5
<1>3. QED
  BY <1>1, <1>2

LEMMA FoldKeepsRight ==
    ASSUME NEW source, NEW sound \in BOOLEAN, NEW t \in FoldsRight(source, sound)
    PROVE  FoldOn(t, source) \in FoldsRight(source, sound)
<1>0. PICK r, n : r = FoldOn(t, source) /\ n = Len(t.calls)
  OBVIOUS
<1>1. /\ t \in Folding /\ t.own \in BOOLEAN
      /\ sound /\ ~t.own => CallsWhole(t.parent, t.member, t.calls, source)
  BY DEF FoldsRight, Folding
<1>2. t.parent \in Parents /\ t.calls \in Seq(Call) /\ NoCircle(t.parent) /\ CallsRight(t.parent, t.calls)
  BY DEF FoldsRight, Folding, Parents
<1>3. CASE t.calls = <<>>
  BY <1>3 DEF FoldOn
<1>4. CASE t.calls # <<>>
  <2>1. CASE /\ t.calls[n].kids = {}
             /\ r \in Folding /\ r.member = t.member /\ r.own = t.own
             /\ r.parent = Moved(t.parent, t.calls[n].src, Removed) /\ OneFewer(t.calls, r.calls)
    <3>1. NoCircle(r.parent) /\ CallsRight(r.parent, r.calls)
      BY <1>0, <1>2, <1>4, <2>1, ReturnRight
    <3>2. sound /\ ~r.own => CallsWhole(r.parent, t.member, r.calls, source)
      BY <1>0, <1>1, <1>2, <1>4, <2>1, ReturnWhole
    <3>3. QED
      BY <1>0, <2>1, <3>1, <3>2 DEF FoldsRight
  <2>2. ASSUME NEW c \in t.calls[n].kids,
               r \in Folding, r.member = t.member, r.own = t.own,
               r.parent = Moved(t.parent, c, t.calls[n].dst), OneLess(t.calls, c, r.calls)
        PROVE  r \in FoldsRight(source, sound)
    <3>1. NoCircle(r.parent) /\ CallsRight(r.parent, r.calls)
      BY <1>0, <1>2, <1>4, <2>2, MoveRight
    <3>2. sound /\ ~r.own => CallsWhole(r.parent, t.member, r.calls, source)
      BY <1>0, <1>1, <1>2, <1>4, <2>2, MoveWhole
    <3>3. QED
      BY <2>2, <3>1, <3>2 DEF FoldsRight
  <2>3. ASSUME NEW c \in t.calls[n].kids, NEW twin \in Units,
               t.parent[twin] = t.calls[n].dst, r \in Folding, r.parent = t.parent,
               r.own <=> t.own \/ twin = source,
               r.member = GoneOver(t.member, c, twin), OneMore(t.parent, t.calls, c, twin, r.calls)
        PROVE  r \in FoldsRight(source, sound)
    <3>1. CallsRight(t.parent, r.calls)
      BY <1>0, <1>2, <1>4, <2>3, CallRight
    <3>2. ASSUME sound, ~r.own PROVE CallsWhole(t.parent, r.member, r.calls, source)
      <4>1. twin # source /\ CallsWhole(t.parent, t.member, t.calls, source)
        BY <1>1, <2>3, <3>2
      <4>2. QED
        BY <1>0, <1>2, <1>4, <2>3, <4>1, CallWhole
    <3>3. QED
      BY <1>2, <2>3, <3>1, <3>2 DEF FoldsRight
  <2>4. QED
    BY <1>0, <1>1, <1>4, <2>1, <2>2, <2>3, FoldStep
<1>5. QED
  BY <1>3, <1>4

LEMMA FoldKeepsBorn ==
    ASSUME NEW source, NEW before, NEW t \in FoldsBorn(before)
    PROVE  FoldOn(t, source) \in FoldsBorn(before)
<1>0. PICK r, n : r = FoldOn(t, source) /\ n = Len(t.calls)
  OBVIOUS
<1>1. t \in Folding /\ t.parent \in Parents /\ t.calls \in Seq(Call)
  BY DEF FoldsBorn, Folding, Parents
<1>2. /\ \A u \in Units : t.parent[u] \in Units => t.parent[t.parent[u]] # Unborn
      /\ \A i \in 1..Len(t.calls) : t.parent[t.calls[i].dst] # Unborn
      /\ \A u \in Units : before[u] # Unborn => t.parent[u] # Unborn
  BY DEF FoldsBorn
<1>3. \A i \in 1..Len(t.calls) : t.calls[i].src \in Units /\ t.calls[i].dst \in Units /\ t.calls[i].kids \in SUBSET Units
  BY <1>1, CallTyped
<1>4. n \in Nat
  BY <1>0, <1>1
<1>5. CASE t.calls = <<>>
  BY <1>5 DEF FoldOn
<1>6. CASE t.calls # <<>>
  <2>0. n \in 1..Len(t.calls)
    BY <1>0, <1>1, <1>6
  <2>1. CASE r \in Folding /\ r.parent = Moved(t.parent, t.calls[n].src, Removed) /\ OneFewer(t.calls, r.calls)
    <3>1. \A u \in Units : r.parent[u] = t.parent[u] \/ r.parent[u] = Removed
      BY <1>1, <2>1 DEF Moved, Parents
    <3>2. Removed # Unborn /\ Removed \notin Units
      BY NoUnitNumbers DEF Removed, Unborn
    <3>3. Len(r.calls) = n - 1 /\ \A i \in 1..(n - 1) : r.calls[i] = t.calls[i] /\ i \in 1..Len(t.calls)
      BY <1>0, <1>4, <2>1 DEF OneFewer
    <3>4. \A u \in Units : t.parent[u] # Unborn => r.parent[u] # Unborn
      BY <3>1, <3>2
    <3>5. \A u \in Units : r.parent[u] \in Units => r.parent[r.parent[u]] # Unborn
      BY <1>2, <3>1, <3>2, <3>4
    <3>6. \A i \in 1..Len(r.calls) : r.parent[r.calls[i].dst] # Unborn
      BY <1>2, <1>3, <3>3, <3>4
    <3>7. QED
      BY <1>0, <1>2, <2>1, <3>4, <3>5, <3>6 DEF FoldsBorn
  <2>2. ASSUME NEW c \in t.calls[n].kids,
               r \in Folding, r.parent = Moved(t.parent, c, t.calls[n].dst), OneLess(t.calls, c, r.calls)
        PROVE  r \in FoldsBorn(before)
    <3>1. c \in Units /\ t.calls[n].dst \in Units /\ t.parent[t.calls[n].dst] # Unborn /\ Unborn \notin Units
      BY <1>2, <1>3, <2>0, NoUnitNumbers
    <3>2. \A u \in Units : r.parent[u] = IF u = c THEN t.calls[n].dst ELSE t.parent[u]
      BY <1>1, <2>2 DEF Moved, Parents
    <3>3. \A u \in Units : t.parent[u] # Unborn => r.parent[u] # Unborn
      BY <3>1, <3>2
    <3>4. \A u \in Units : r.parent[u] \in Units => r.parent[r.parent[u]] # Unborn
      BY <1>2, <3>1, <3>2, <3>3
    <3>5. \A i \in 1..Len(r.calls) : i \in 1..Len(t.calls) /\ r.calls[i].dst = t.calls[i].dst
      BY <2>2 DEF OneLess
    <3>6. \A i \in 1..Len(r.calls) : r.parent[r.calls[i].dst] # Unborn
      BY <1>2, <1>3, <3>3, <3>5
    <3>7. QED
      BY <1>2, <2>2, <3>3, <3>4, <3>6 DEF FoldsBorn
  <2>3. ASSUME NEW c \in t.calls[n].kids, NEW twin \in Units, IsRow(t.parent, twin),
               r \in Folding, r.parent = t.parent, OneMore(t.parent, t.calls, c, twin, r.calls)
        PROVE  r \in FoldsBorn(before)
    <3>1. t.parent[twin] # Unborn
      BY <2>3 DEF IsRow
    <3>2. Len(r.calls) = n + 1 /\ r.calls[n + 1].dst = twin /\ \A i \in 1..n : r.calls[i].dst = t.calls[i].dst
      BY <1>0, <2>3 DEF OneMore
    <3>3. 1..(n + 1) = (1..n) \cup {n + 1}
      BY <1>4
    <3>4. \A i \in 1..(n + 1) : r.parent[r.calls[i].dst] # Unborn
      BY <1>0, <1>2, <2>3, <3>1, <3>2, <3>3
    <3>5. QED
      BY <1>2, <2>3, <3>2, <3>4 DEF FoldsBorn
  <2>4. QED
    BY <1>0, <1>1, <1>6, <2>1, <2>2, <2>3, FoldStep
<1>7. QED
  BY <1>5, <1>6

\* What every step keeps holds of the merge when it stops.
LEMMA FoldedWithin ==
    ASSUME NEW source, NEW target, NEW T,
           CallFold([parent |-> parent, member |-> member, calls |-> <<>>, own |-> FALSE], source, target) \in T,
           \A t \in T : FoldOn(t, source) \in T
    PROVE  Fold(source, target) \in T
<1> DEFINE begin == CallFold([parent |-> parent, member |-> member, calls |-> <<>>, own |-> FALSE], source, target)
           Folds(g) == [n \in Nat |-> IF n = 0 THEN begin ELSE FoldOn(g[n - 1], source)]
<1>1. PICK first \in T : first = begin
  OBVIOUS
<1>2. PICK step \in [T -> T] : \A t \in T : step[t] = FoldOn(t, source)
  <2>1. [t \in T |-> FoldOn(t, source)] \in [T -> T]
    OBVIOUS
  <2>2. QED
    BY <2>1
<1>3. PICK f \in [Nat -> T] : f[0] = first /\ \A n \in Nat : f[n + 1] = step[f[n]]
  <2>1. PICK f : Repeats(f, T, first, step)
    BY Repeated
  <2>2. QED
    BY <2>1 DEF Repeats
<1>4. f = [n \in Nat |-> IF n = 0 THEN first ELSE FoldOn(f[n - 1], source)]
  <2>1. ASSUME NEW n \in Nat PROVE f[n] = IF n = 0 THEN first ELSE FoldOn(f[n - 1], source)
    <3>1. CASE n = 0
      BY <1>3, <3>1
    <3>2. CASE n # 0
      <4>1. n - 1 \in Nat /\ (n - 1) + 1 = n
        BY <3>2
      <4>2. f[n] = step[f[n - 1]] /\ f[n - 1] \in T
        BY <1>3, <4>1
      <4>3. QED
        BY <1>2, <3>2, <4>2
    <3>3. QED
      BY <3>1, <3>2
  <2>2. QED
    BY <2>1
<1>5. f = Folds(f)
  BY <1>1, <1>4
<1>6. PICK folded : folded = Folds(folded) /\ Fold(source, target) = folded[MaxFold]
  <2>1. PICK g : g = CHOOSE h : h = Folds(h)
    OBVIOUS
  <2>2. g = Folds(g)
    <3> HIDE DEF Folds
    <3>1. QED
      BY <1>5, <2>1, Zenon
  <2>3. Fold(source, target) = g[MaxFold]
    BY <2>1 DEF Fold
  <2>4. QED
    BY <2>2, <2>3
<1> HIDE DEF begin
<1>7. folded[0] = first /\ \A n \in Nat : folded[n + 1] = FoldOn(folded[n], source)
  BY <1>1, <1>6
<1> DEFINE Held == {n \in Nat : folded[n] \in T}
<1>8. 0 \in Held
  BY <1>7
<1>9. ASSUME NEW n \in Nat, n \in Held PROVE n + 1 \in Held
  BY <1>7, <1>9
<1>10. Nat \subseteq Held
  <2> HIDE DEF Held
  <2>1. QED
    BY <1>8, <1>9, NumberInduction
<1>11. QED
  BY <1>6, <1>10, UnitConstants

(***************************************************************************)
(* The invariant of the tree                                               *)
(***************************************************************************)
\* Each unit is under one that is there, and each domain in one.
WholeTree(par, mem) ==
    /\ \A u \in Units : IsRow(par, u) => RowOrTop(par, par[u])
    /\ \A x \in Domains : mem[x] = Out \/ RowOrTop(par, mem[x])

\* No unit was ever put under one that has never been, so that the next new
\* unit has none below it.
BornTree(par) == \A u \in Units : par[u] \in Units => par[par[u]] # Unborn

\* A request names units that have been.
BornRequest(par, r) ==
    /\ r.do # "none" /\ r.to \in Units => par[r.to] # Unborn
    /\ r.do = "merge" => r.to \in Units

\* What a request found possible is so as long as no other has changed the tree.
Possible(par, r) ==
    /\ r.do \in {"add", "assign", "import"} => RowOrTop(par, r.to)
    /\ r.do = "update" => /\ IsRow(par, r.unit)
                          /\ r.to = par[r.unit] \/ (RowOrTop(par, r.to) /\ r.to \notin Under(par, r.unit))
    /\ r.do = "merge" => IsRow(par, r.unit) /\ RowOrTop(par, r.to) /\ r.to \notin Under(par, r.unit)
    /\ r.do = "lift" => IsRow(par, r.unit) /\ r.to = par[r.unit]

UnitsInv ==
    /\ UnitsTypeOK
    /\ BornTree(parent) /\ \A e \in Editors : BornRequest(parent, edit[e])
    /\ torn # "torn" => NoCircle(parent) /\ \A e \in Editors : edit[e].late \/ Possible(parent, edit[e])
    /\ torn = "whole" => WholeTree(parent, member)

LEMMA NoneLost ==
    ASSUME NoCircle(parent)
    PROVE  InList = Rows
<1>1. \A S \in Circles : S = {}
  BY DEF Circles, NoCircle, Rows
<1>2. QED
  BY <1>1 DEF InList

LEMMA ListedIsRow ==
    ASSUME NEW u \in InList
    PROVE  u \in Units /\ IsRow(parent, u)
BY DEF InList, Rows

\* What is below a unit is what the code finds below it.
LEMMA DescendantsBelow ==
    ASSUME InList = Rows, NEW u \in Units
    PROVE  /\ Under(parent, u) \subseteq Descendants(u)
           /\ \A w \in Units : parent[w] \in Descendants(u) => w \in Descendants(u)
<1>1. Descendants(u) \in SUBSET Units /\ u \in Descendants(u)
  BY DEF Descendants, Rows
<1>2. ASSUME NEW w \in Units, parent[w] \in Descendants(u) PROVE w \in Descendants(u)
  <2>1. w \in InList
    BY <1>1, <1>2, UnitIsRow DEF Rows
  <2>2. QED
    BY <1>2, <2>1 DEF Descendants
<1>3. ClosedBelow(parent, Descendants(u))
  BY <1>2 DEF ClosedBelow
<1>4. QED
  BY <1>1, <1>2, <1>3, UnderLeast

LEMMA NoEditTyped ==
    NoEdit \in Edit /\ NoEdit.do = "none" /\ NoEdit.to = Top
BY UnitConstants DEF NoEdit, Edit

LEMMA InvParts ==
    ASSUME UnitsInv
    PROVE  /\ parent \in Parents /\ name \in [Units -> UnitNames \cup {NoName}]
           /\ member \in [Domains -> Units \cup {Top, Out}] /\ edit \in [Editors -> Edit]
           /\ torn \in {"whole", "worn", "torn"}
BY DEF UnitsInv, UnitsTypeOK, Parents

LEMMA TypeBack ==
    ASSUME parent' \in Parents, name' \in [Units -> UnitNames \cup {NoName}],
           member' \in [Domains -> Units \cup {Top, Out}], edit' \in [Editors -> Edit],
           torn' \in {"whole", "worn", "torn"}
    PROVE  UnitsTypeOK'
BY DEF UnitsTypeOK, Parents

\* A request that looks.
LEMMA AskKeeps ==
    ASSUME UnitsInv, NEW e \in Editors, NEW r \in Edit, AskFor(e, r), BornRequest(parent, r),
           torn # "torn" => Possible(parent, r)
    PROVE  UnitsInv'
<1>1. /\ parent' = parent /\ name' = name /\ member' = member /\ torn' = torn
      /\ \A f \in Editors : edit'[f] = IF f = e THEN r ELSE edit[f]
      /\ edit' \in [Editors -> Edit]
  BY InvParts DEF AskFor
<1>2. UnitsTypeOK'
  BY <1>1, InvParts, TypeBack
<1>3. \A f \in Editors : BornRequest(parent', edit'[f])
  BY <1>1 DEF UnitsInv
<1>4. torn' # "torn" => NoCircle(parent') /\ \A f \in Editors : edit'[f].late \/ Possible(parent', edit'[f])
  BY <1>1 DEF UnitsInv
<1>5. BornTree(parent') /\ (torn' = "whole" => WholeTree(parent', member'))
  BY <1>1 DEF UnitsInv
<1>6. QED
  BY <1>2, <1>3, <1>4, <1>5 DEF UnitsInv

\* A request that writes.
LEMMA DoneKeeps ==
    ASSUME UnitsInv, NEW e \in Editors, NEW changed \in BOOLEAN, Done(e, changed), changed \/ parent' = parent,
           parent' \in Parents, name' \in [Units -> UnitNames \cup {NoName}],
           member' \in [Domains -> Units \cup {Top, Out}], torn' \in {"whole", "worn", "torn"},
           torn = "torn" => torn' = "torn",
           BornTree(parent'), \A u \in Units : parent[u] # Unborn => parent'[u] # Unborn,
           torn' # "torn" => NoCircle(parent'),
           torn' = "whole" => WholeTree(parent', member')
    PROVE  UnitsInv'
<1>1. ASSUME NEW f \in Editors
      PROVE  /\ edit'[f] \in Edit
             /\ edit'[f].do # "none" => edit'[f].do = edit[f].do /\ edit'[f].to = edit[f].to
             /\ edit'[f].do = "none" \/ edit'[f].late \/ (edit'[f] = edit[f] /\ ~changed)
  <2>1. edit[f] \in Edit
    BY InvParts
  <2>2. PICK marked : marked = [edit[f] EXCEPT !.late = TRUE]
    OBVIOUS
  <2>3. marked \in Edit /\ marked.do = edit[f].do /\ marked.to = edit[f].to /\ marked.late
    BY <2>1, <2>2 DEF Edit
  <2>4. edit'[f] = IF f = e THEN NoEdit ELSE IF changed /\ edit[f].do # "none" THEN marked ELSE edit[f]
    BY <2>2 DEF Done
  <2>5. QED
    BY <2>1, <2>3, <2>4, NoEditTyped
<1>2. edit' \in [Editors -> Edit]
  BY <1>1 DEF Done
<1>3. UnitsTypeOK'
  BY <1>2, TypeBack
<1>4. ASSUME NEW f \in Editors PROVE BornRequest(parent', edit'[f])
  <2>1. BornRequest(parent, edit[f])
    BY DEF UnitsInv
  <2>2. QED
    BY <1>1, <2>1 DEF BornRequest
<1>5. ASSUME NEW f \in Editors, torn' # "torn", ~edit'[f].late PROVE Possible(parent', edit'[f])
  <2>1. CASE edit'[f].do = "none"
    BY <2>1 DEF Possible
  <2>2. CASE edit'[f].do # "none"
    <3>1. edit'[f] = edit[f] /\ parent' = parent
      BY <1>1, <1>5, <2>2
    <3>2. Possible(parent, edit[f])
      BY <1>5, <3>1 DEF UnitsInv
    <3>3. QED
      BY <3>1, <3>2
  <2>3. QED
    BY <2>1, <2>2
<1>6. QED
  BY <1>3, <1>4, <1>5 DEF UnitsInv

\* Tear, for a request that moves nothing and for one that does.
LEMMA TornBy ==
    ASSUME UnitsInv, NEW e \in Editors, NEW own \in BOOLEAN, Tear(e, own)
    PROVE  /\ torn' \in {"whole", "worn", "torn"} /\ (torn = "torn" => torn' = "torn")
           /\ torn' = "whole" => torn = "whole" /\ ~edit[e].late /\ ~own
           /\ torn' # "torn" => torn # "torn"
           /\ torn' # "torn" /\ edit[e].do \in {"update", "merge", "lift"} => ~edit[e].late
BY InvParts DEF Tear

LEMMA NamesTyped ==
    ASSUME UnitsInv, NamesGo
    PROVE  name' \in [Units -> UnitNames \cup {NoName}]
BY InvParts DEF NamesGo

(***************************************************************************)
(* What each write makes of the tree                                       *)
(***************************************************************************)
\* ensure_group: a unit that is there, or a new one that nothing is below.
LEMMA EnsuredTree ==
    ASSUME UnitsInv, NEW n \in UnitNames \cup {NoName}, NEW p \in Units \cup {Top}, p \in Units => parent[p] # Unborn,
           Room, NEW made, made = Ensured(n, p)
    PROVE  /\ made.unit \in Units /\ made.parent \in Parents /\ made.name \in [Units -> UnitNames \cup {NoName}]
           /\ IsRow(made.parent, made.unit)
           /\ BornTree(made.parent) /\ \A u \in Units : parent[u] # Unborn => made.parent[u] # Unborn
           /\ NoCircle(parent) => NoCircle(made.parent)
           /\ WholeTree(parent, member) /\ RowOrTop(parent, p) => WholeTree(made.parent, member)
<1>1. CASE Find(parent, n, p) # Top
  <2>1. PICK u \in Units : u = Find(parent, n, p) /\ IsRow(parent, u)
    BY <1>1, InvParts, FindsRow
  <2>2. made.unit = u /\ made.parent = parent /\ made.name = name
    BY <1>1, <2>1 DEF Ensured
  <2>3. QED
    BY <2>1, <2>2, InvParts DEF UnitsInv
<1>2. CASE Find(parent, n, p) = Top
  <2>1. PICK u \in Units : parent[u] = Unborn /\ u = Min({v \in Units : parent[v] = Unborn})
    <3> DEFINE free == {v \in Units : parent[v] = Unborn}
    <3>1. free # {} /\ free \subseteq Nat
      BY UnitConstants DEF Room
    <3> HIDE DEF free
    <3>2. \E x \in free : \A y \in free : x <= y
      BY <3>1, LeastNumber
    <3>3. Min(free) \in free
      BY <3>2 DEF Min
    <3>4. QED
      BY <3>3 DEF free
  <2>2. PICK new, names : new = [parent EXCEPT ![u] = p] /\ names = [name EXCEPT ![u] = n]
    OBVIOUS
  <2>3. made.unit = u /\ made.parent = new /\ made.name = names
    BY <1>2, <2>1, <2>2 DEF Ensured
  <2>4. /\ new[u] = p /\ \A w \in Units : w # u => new[w] = parent[w]
        /\ new \in Parents /\ names \in [Units -> UnitNames \cup {NoName}]
    BY <2>1, <2>2, InvParts DEF Parents
  <2>5. \A w \in Units : parent[w] # u
    BY <2>1 DEF UnitsInv, BornTree
  <2>6. p # u /\ Unborn # Top /\ Unborn \notin Units
    BY <2>1, NoUnitNumbers DEF Unborn, Top
  <2>7. IsRow(new, u)
    BY <2>4, UnitIsRow
  <2>8. \A w \in Units : parent[w] # Unborn => new[w] # Unborn
    BY <2>4, <2>6
  <2>9. BornTree(new)
    <3>1. BornTree(parent)
      BY DEF UnitsInv
    <3>2. QED
      BY <2>4, <2>5, <2>6, <3>1 DEF BornTree
  <2>10. NoCircle(parent) => NoCircle(new)
    <3>1. ClosedBelow(parent, {u})
      BY <2>5 DEF ClosedBelow
    <3>2. p \notin Under(parent, u)
      BY <2>6, <3>1, UnderLeast
    <3>3. QED
      BY <2>2, <3>2, InvParts, MovedNoCircle
  <2>11. \A w : RowOrTop(parent, w) => RowOrTop(new, w)
    BY <2>4, <2>7 DEF RowOrTop, IsRow
  <2>12. WholeTree(parent, member) /\ RowOrTop(parent, p) => WholeTree(new, member)
    <3> SUFFICES ASSUME WholeTree(parent, member), RowOrTop(parent, p) PROVE WholeTree(new, member)
      OBVIOUS
    <3>1. ASSUME NEW w \in Units, IsRow(new, w) PROVE RowOrTop(new, new[w])
      <4>1. CASE w = u
        BY <2>4, <2>11, <4>1
      <4>2. CASE w # u
        BY <2>4, <2>11, <3>1, <4>2 DEF WholeTree, IsRow
      <4>3. QED
        BY <4>1, <4>2
    <3>2. QED
      BY <2>11, <3>1 DEF WholeTree
  <2>13. QED
    BY <2>3, <2>4, <2>7, <2>8, <2>9, <2>10, <2>12
<1>3. QED
  BY <1>1, <1>2

\* Deleting a unit and giving what was under it to its parent.
LEMMA LiftedTree ==
    ASSUME UnitsInv, NEW u \in Units, NEW p \in Units \cup {Top}, NEW new, new = Lifted(u, p),
           NEW mem, mem = [d \in Domains |-> IF member[d] = u THEN p ELSE member[d]]
    PROVE  /\ new \in Parents /\ mem \in [Domains -> Units \cup {Top, Out}]
           /\ (p \in Units => parent[p] # Unborn) => BornTree(new)
           /\ \A v \in Units : parent[v] # Unborn => new[v] # Unborn
           /\ NoCircle(parent) /\ p = parent[u] => NoCircle(new)
           /\ NoCircle(parent) /\ p = parent[u] /\ WholeTree(parent, member) /\ IsRow(parent, u) => WholeTree(new, mem)
<1>1. /\ \A v \in Units : new[v] = IF v = u THEN Removed ELSE IF parent[v] = u THEN p ELSE parent[v]
      /\ new \in Parents
  BY InvParts DEF Lifted, Parents
<1>2. \A d \in Domains : mem[d] = IF member[d] = u THEN p ELSE member[d]
  OBVIOUS
<1>3. mem \in [Domains -> Units \cup {Top, Out}]
  BY InvParts
<1>4. Removed # Unborn /\ Top # Unborn /\ Removed \notin Units /\ Unborn \notin Units
  BY NoUnitNumbers DEF Removed, Unborn, Top
<1>5. \A v \in Units : parent[v] # Unborn => new[v] # Unborn
  BY <1>1, <1>4
<1>6. (p \in Units => parent[p] # Unborn) => BornTree(new)
  <2>1. BornTree(parent)
    BY DEF UnitsInv
  <2>2. QED
    BY <1>1, <1>4, <1>5, <2>1 DEF BornTree
<1>7. ASSUME NoCircle(parent), p = parent[u] PROVE NoCircle(new)
  <2> SUFFICES ASSUME NEW S \in SUBSET Units, \A v \in S : new[v] \in S, S # {} PROVE FALSE
    BY DEF NoCircle
  <2>1. u \notin S
    BY <1>1, <1>4
  <2>2. CASE \E v \in S : parent[v] = u
    <3>1. \A v \in S \cup {u} : parent[v] \in S \cup {u}
      BY <1>1, <1>7, <2>1, <2>2
    <3>2. QED
      BY <1>7, <3>1 DEF NoCircle
  <2>3. CASE \A v \in S : parent[v] # u
    <3>1. \A v \in S : parent[v] \in S
      BY <1>1, <2>1, <2>3
    <3>2. QED
      BY <1>7, <3>1 DEF NoCircle
  <2>4. QED
    BY <2>2, <2>3
<1>8. ASSUME NoCircle(parent), p = parent[u], WholeTree(parent, member), IsRow(parent, u) PROVE WholeTree(new, mem)
  <2>1. p # u
    <3> SUFFICES ASSUME p = u PROVE FALSE
      OBVIOUS
    <3>1. \A v \in {u} : parent[v] \in {u}
      BY <1>8
    <3>2. QED
      BY <1>8, <3>1 DEF NoCircle
  <2>2. RowOrTop(parent, p)
    BY <1>8 DEF WholeTree
  <2>3. \A v \in Units : v # u /\ IsRow(parent, v) => IsRow(new, v)
    <3> SUFFICES ASSUME NEW v \in Units, v # u, IsRow(parent, v) PROVE IsRow(new, v)
      OBVIOUS
    <3>1. CASE parent[v] = u
      BY <1>1, <3>1, UnitIsRow
    <3>2. CASE parent[v] # u
      BY <1>1, <3>2 DEF IsRow
    <3>3. QED
      BY <3>1, <3>2
  <2>4. \A w : w # u /\ RowOrTop(parent, w) => RowOrTop(new, w)
    BY <2>3 DEF RowOrTop
  <2>5. ASSUME NEW v \in Units, IsRow(new, v) PROVE RowOrTop(new, new[v])
    <3>1. v # u
      BY <1>1, <2>5 DEF IsRow
    <3>2. CASE parent[v] = u
      BY <1>1, <2>1, <2>2, <2>4, <3>1, <3>2
    <3>3. CASE parent[v] # u
      <4>1. IsRow(parent, v) /\ new[v] = parent[v]
        BY <1>1, <2>5, <3>1, <3>3 DEF IsRow
      <4>2. QED
        BY <1>8, <2>4, <3>3, <4>1 DEF WholeTree
    <3>4. QED
      BY <3>2, <3>3
  <2>6. ASSUME NEW d \in Domains PROVE mem[d] = Out \/ RowOrTop(new, mem[d])
    <3>1. CASE member[d] = u
      BY <1>2, <2>1, <2>2, <2>4, <3>1
    <3>2. CASE member[d] # u
      BY <1>2, <1>8, <2>4, <3>2 DEF WholeTree
    <3>3. QED
      BY <3>1, <3>2
  <2>7. QED
    BY <2>5, <2>6 DEF WholeTree
<1>9. QED
  BY <1>1, <1>3, <1>5, <1>6, <1>7, <1>8

\* Deleting a unit with all that is below it.
LEMMA DeletedTree ==
    ASSUME UnitsInv, NEW all \in SUBSET Units,
           NEW new, new = [u \in Units |-> IF u \in all /\ IsRow(parent, u) THEN Removed ELSE parent[u]],
           NEW mem, mem = [d \in Domains |-> IF member[d] \in all THEN Out ELSE member[d]]
    PROVE  /\ new \in Parents /\ mem \in [Domains -> Units \cup {Top, Out}]
           /\ BornTree(new) /\ \A v \in Units : parent[v] # Unborn => new[v] # Unborn
           /\ NoCircle(parent) => NoCircle(new)
           /\ WholeTree(parent, member) /\ ClosedBelow(parent, all) => WholeTree(new, mem)
<1>1. /\ \A v \in Units : new[v] = IF v \in all /\ IsRow(parent, v) THEN Removed ELSE parent[v]
      /\ new \in Parents
  BY InvParts DEF Parents
<1>2. /\ \A d \in Domains : mem[d] = IF member[d] \in all THEN Out ELSE member[d]
      /\ mem \in [Domains -> Units \cup {Top, Out}]
  BY InvParts
<1>3. Removed # Unborn /\ Removed \notin Units /\ Top \notin Units
  BY NoUnitNumbers DEF Removed, Unborn
<1>4. \A v \in Units : parent[v] # Unborn => new[v] # Unborn
  BY <1>1, <1>3
<1>5. BornTree(new)
  <2>1. BornTree(parent)
    BY DEF UnitsInv
  <2>2. QED
    BY <1>1, <1>3, <1>4, <2>1 DEF BornTree
<1>6. NoCircle(parent) => NoCircle(new)
  <2>1. \A v \in Units : new[v] = parent[v] \/ new[v] \notin Units
    BY <1>1, <1>3
  <2>2. QED
    BY <2>1, CutNoCircle
<1>7. ASSUME WholeTree(parent, member), ClosedBelow(parent, all) PROVE WholeTree(new, mem)
  <2>1. \A w : w \notin all /\ RowOrTop(parent, w) => RowOrTop(new, w)
    BY <1>1 DEF RowOrTop, IsRow
  <2>2. ASSUME NEW v \in Units, IsRow(new, v) PROVE RowOrTop(new, new[v])
    <3>1. new[v] = parent[v] /\ IsRow(parent, v) /\ v \notin all
      BY <1>1, <2>2 DEF IsRow
    <3>2. parent[v] \notin all
      BY <1>7, <3>1 DEF ClosedBelow
    <3>3. QED
      BY <1>7, <2>1, <3>1, <3>2 DEF WholeTree
  <2>3. \A d \in Domains : mem[d] = Out \/ RowOrTop(new, mem[d])
    BY <1>2, <1>7, <2>1 DEF WholeTree
  <2>4. QED
    BY <2>2, <2>3 DEF WholeTree
<1>8. QED
  BY <1>1, <1>2, <1>4, <1>5, <1>6, <1>7

\* Merging, from its first call to the end.
LEMMA MergedTree ==
    ASSUME UnitsInv, NEW s \in Units, NEW d \in Units, parent[d] # Unborn,
           NEW t, t = Fold(s, d), t.calls = <<>>
    PROVE  /\ t.parent \in Parents /\ t.member \in [Domains -> Units \cup {Top, Out}] /\ t.own \in BOOLEAN
           /\ BornTree(t.parent) /\ \A v \in Units : parent[v] # Unborn => t.parent[v] # Unborn
           /\ NoCircle(parent) /\ d \notin Under(parent, s) => NoCircle(t.parent)
           /\ /\ NoCircle(parent) /\ d \notin Under(parent, s) /\ IsRow(parent, s) /\ IsRow(parent, d)
              /\ WholeTree(parent, member) /\ ~t.own
              => WholeTree(t.parent, t.member)
<1>1. PICK before : before = [parent |-> parent, member |-> member, calls |-> <<>>, own |-> FALSE]
  OBVIOUS
<1>2. before \in Folding /\ before.parent = parent /\ before.member = member /\ before.calls = <<>> /\ before.own = FALSE
  <2>1. <<>> \in Seq(Call)
    OBVIOUS
  <2>2. QED
    BY <1>1, <2>1, InvParts DEF Folding, Parents
<1>3. PICK first : first = CallFold(before, s, d)
  OBVIOUS
<1>4. /\ first \in Folding /\ first.parent = parent /\ first.own = FALSE
      /\ first.member = GoneOver(member, s, d) /\ first.calls = Append(<<>>, CallOf(parent, s, d))
  BY <1>2, <1>3, FoldCalled
<1>5. PICK row \in Call : row = CallOf(parent, s, d)
  BY CallOfTyped
<1>6. row.src = s /\ row.dst = d /\ row.kids = {u \in Units : parent[u] = s}
  BY <1>5 DEF CallOf
<1>7. Len(first.calls) = 1 /\ first.calls[1] = row
  BY <1>4, <1>5
<1>8. first \in FoldsBorn(parent)
  <2>1. BornTree(parent)
    BY DEF UnitsInv
  <2>2. \A i \in 1..Len(first.calls) : first.parent[first.calls[i].dst] # Unborn
    BY <1>4, <1>6, <1>7
  <2>3. QED
    BY <1>4, <2>1, <2>2 DEF FoldsBorn, BornTree
<1>9. t \in FoldsBorn(parent)
  <2>1. \A x \in FoldsBorn(parent) : FoldOn(x, s) \in FoldsBorn(parent)
    BY FoldKeepsBorn
  <2>2. QED
    BY <1>1, <1>3, <1>8, <2>1, FoldedWithin
<1>10. /\ t.parent \in Parents /\ t.member \in [Domains -> Units \cup {Top, Out}] /\ t.own \in BOOLEAN
       /\ BornTree(t.parent) /\ \A v \in Units : parent[v] # Unborn => t.parent[v] # Unborn
  BY <1>9 DEF FoldsBorn, Folding, Parents, BornTree
<1>11. ASSUME NEW sound \in BOOLEAN, NoCircle(parent), d \notin Under(parent, s),
              sound => IsRow(parent, s) /\ IsRow(parent, d) /\ WholeTree(parent, member)
       PROVE  t \in FoldsRight(s, sound)
  <2>1. CallsRight(parent, first.calls)
    BY <1>6, <1>7, <1>11 DEF CallsRight
  <2>2. ASSUME sound PROVE CallsWhole(parent, first.member, first.calls, s)
    <3>1. IsRow(parent, s) /\ IsRow(parent, d) /\ WholeTree(parent, member)
      BY <1>11, <2>2
    <3>2. \A x \in Domains : first.member[x] = IF member[x] = s THEN d ELSE member[x]
      BY <1>4 DEF GoneOver
    <3>3. s # d
      BY <1>11, UnderClosed
    <3>4. \A x \in Domains : first.member[x] # s /\ (first.member[x] = Out \/ RowOrTop(parent, first.member[x]))
      BY <3>1, <3>2, <3>3 DEF WholeTree, RowOrTop
    <3>5. \A u \in Units : IsRow(parent, u) => RowOrTop(parent, parent[u])
      BY <3>1 DEF WholeTree
    <3>6. QED
      BY <1>6, <1>7, <1>11, <3>1, <3>4, <3>5 DEF CallsWhole
  <2>3. first \in FoldsRight(s, sound)
    BY <1>4, <1>11, <2>1, <2>2 DEF FoldsRight
  <2>4. \A x \in FoldsRight(s, sound) : FoldOn(x, s) \in FoldsRight(s, sound)
    BY FoldKeepsRight
  <2>5. QED
    BY <1>1, <1>3, <2>3, <2>4, FoldedWithin
<1>12. ASSUME NoCircle(parent), d \notin Under(parent, s) PROVE NoCircle(t.parent)
  <2>1. t \in FoldsRight(s, FALSE)
    BY <1>11, <1>12
  <2>2. QED
    BY <2>1 DEF FoldsRight
<1>13. ASSUME NoCircle(parent), d \notin Under(parent, s), IsRow(parent, s), IsRow(parent, d),
              WholeTree(parent, member), ~t.own
       PROVE  WholeTree(t.parent, t.member)
  <2>1. t \in FoldsRight(s, TRUE)
    BY <1>11, <1>13
  <2>2. CallsWhole(t.parent, t.member, t.calls, s)
    BY <1>13, <2>1 DEF FoldsRight
  <2>3. QED
    BY <2>2 DEF CallsWhole, WholeTree
<1>14. QED
  BY <1>10, <1>12, <1>13

(***************************************************************************)
(* Each request keeps the invariant                                        *)
(***************************************************************************)
LEMMA EditTyped ==
    ASSUME UnitsInv, NEW e \in Editors
    PROVE  /\ edit[e].unit \in Units /\ edit[e].to \in Units \cup {Top} /\ edit[e].domain \in Domains
           /\ edit[e].named \in UnitNames \cup {NoName} /\ edit[e].late \in BOOLEAN
           /\ edit[e].do # "none" /\ edit[e].to \in Units => parent[edit[e].to] # Unborn
           /\ torn # "torn" /\ ~edit[e].late => NoCircle(parent) /\ Possible(parent, edit[e])
<1>1. edit[e] \in Edit
  BY InvParts
<1>2. BornRequest(parent, edit[e])
  BY DEF UnitsInv
<1>3. torn # "torn" /\ ~edit[e].late => NoCircle(parent) /\ Possible(parent, edit[e])
  BY DEF UnitsInv
<1>4. QED
  BY <1>1, <1>2, <1>3 DEF Edit, BornRequest

LEMMA AddKeeps ==
    ASSUME UnitsInv, NEW e \in Editors, Add(e)
    PROVE  UnitsInv'
<1>1. PICK n, p : n = edit[e].named /\ p = edit[e].to
  OBVIOUS
<1>2. n \in UnitNames \cup {NoName} /\ p \in Units \cup {Top} /\ (p \in Units => parent[p] # Unborn) /\ edit[e].do = "add"
  BY <1>1, EditTyped DEF Add
<1>3. PICK made : made = Ensured(n, p)
  OBVIOUS
<1>4. parent' = made.parent /\ name' = made.name /\ Done(e, parent # made.parent) /\ Room /\ Tear(e, FALSE) /\ member' = member
  BY <1>1, <1>3 DEF Add
<1>5. /\ made.parent \in Parents /\ made.name \in [Units -> UnitNames \cup {NoName}]
      /\ BornTree(made.parent) /\ \A u \in Units : parent[u] # Unborn => made.parent[u] # Unborn
      /\ NoCircle(parent) => NoCircle(made.parent)
      /\ WholeTree(parent, member) /\ RowOrTop(parent, p) => WholeTree(made.parent, member)
  BY <1>2, <1>3, <1>4, EnsuredTree
<1>6. torn' # "torn" => NoCircle(parent')
  BY <1>4, <1>5, TornBy DEF UnitsInv
<1>7. torn' = "whole" => WholeTree(parent', member')
  <2> SUFFICES ASSUME torn' = "whole" PROVE WholeTree(parent', member')
    OBVIOUS
  <2>1. torn = "whole" /\ ~edit[e].late
    BY <1>4, TornBy
  <2>2. Possible(parent, edit[e]) /\ WholeTree(parent, member)
    BY <2>1, EditTyped DEF UnitsInv
  <2>3. RowOrTop(parent, p)
    BY <1>1, <1>2, <2>2 DEF Possible
  <2>4. QED
    BY <1>4, <1>5, <2>2, <2>3
<1>8. PICK changed \in BOOLEAN : changed <=> parent # made.parent
  OBVIOUS
<1>9. Done(e, changed) /\ (changed \/ parent' = parent)
  BY <1>4, <1>8 DEF Done
<1>10. QED
  BY <1>4, <1>5, <1>6, <1>7, <1>9, InvParts, TornBy, DoneKeeps

LEMMA UpdateKeeps ==
    ASSUME UnitsInv, NEW e \in Editors, Update(e)
    PROVE  UnitsInv'
<1>1. PICK u \in Units, p \in Units \cup {Top} : u = edit[e].unit /\ p = edit[e].to
  BY EditTyped
<1>2. (p \in Units => parent[p] # Unborn) /\ edit[e].do = "update" /\ edit[e].named \in UnitNames \cup {NoName}
  BY <1>1, EditTyped DEF Update
<1>3. CASE Done(e, FALSE) /\ UNCHANGED <<parent, name, member, torn>>
  BY <1>3, InvParts, DoneKeeps DEF UnitsInv
<1>4. CASE /\ u \in Rows /\ parent' = [parent EXCEPT ![u] = p] /\ name' = [name EXCEPT ![u] = edit[e].named]
           /\ Done(e, parent' # parent) /\ Tear(e, FALSE) /\ member' = member
  <2>1. /\ parent'[u] = p /\ \A v \in Units : v # u => parent'[v] = parent[v]
        /\ parent' \in Parents /\ name' \in [Units -> UnitNames \cup {NoName}]
    BY <1>2, <1>4, InvParts DEF Parents
  <2>2. Top # Unborn /\ Unborn \notin Units
    BY NoUnitNumbers DEF Unborn, Top
  <2>3. \A v \in Units : parent[v] # Unborn => parent'[v] # Unborn
    BY <2>1, <2>2
  <2>4. BornTree(parent')
    <3>1. BornTree(parent)
      BY DEF UnitsInv
    <3>2. parent[u] # Unborn
      BY <1>4 DEF Rows, IsRow
    <3>3. QED
      BY <1>2, <2>1, <2>2, <2>3, <3>1 DEF BornTree
  <2>5. IsRow(parent', u)
    BY <2>1, UnitIsRow
  <2>6. ASSUME torn' # "torn" PROVE NoCircle(parent')
    <3>1. NoCircle(parent) /\ Possible(parent, edit[e])
      BY <1>2, <1>4, <2>6, TornBy, EditTyped
    <3>2. p = parent[u] \/ p \notin Under(parent, u)
      BY <1>1, <1>2, <3>1 DEF Possible
    <3>3. CASE p = parent[u]
      BY <1>4, <3>1, <3>3, InvParts DEF Parents
    <3>4. CASE p \notin Under(parent, u)
      BY <1>4, <3>1, <3>4, InvParts, MovedNoCircle
    <3>5. QED
      BY <3>2, <3>3, <3>4
  <2>7. ASSUME torn' = "whole" PROVE WholeTree(parent', member')
    <3>1. WholeTree(parent, member) /\ Possible(parent, edit[e])
      BY <1>4, <2>7, TornBy, EditTyped DEF UnitsInv
    <3>2. RowOrTop(parent, p)
      BY <1>1, <1>2, <1>4, <3>1 DEF Possible, WholeTree, Rows
    <3>3. \A w : RowOrTop(parent, w) => RowOrTop(parent', w)
      BY <2>1, <2>5 DEF RowOrTop, IsRow
    <3>4. \A v \in Units : IsRow(parent', v) => RowOrTop(parent', parent'[v])
      BY <2>1, <3>1, <3>2, <3>3 DEF WholeTree, IsRow
    <3>5. QED
      BY <1>4, <3>1, <3>3, <3>4 DEF WholeTree
  <2>8. PICK changed \in BOOLEAN : changed <=> parent' # parent
    OBVIOUS
  <2>9. Done(e, changed) /\ (changed \/ parent' = parent)
    BY <1>4, <2>8 DEF Done
  <2>10. QED
    BY <1>4, <2>1, <2>3, <2>4, <2>6, <2>7, <2>9, InvParts, TornBy, DoneKeeps
<1>5. QED
  BY <1>1, <1>3, <1>4 DEF Update

LEMMA MergeKeeps ==
    ASSUME UnitsInv, NEW e \in Editors, Merge(e)
    PROVE  UnitsInv'
<1>1. PICK s \in Units, d \in Units : s = edit[e].unit /\ d = edit[e].to
  BY EditTyped DEF Merge, UnitsInv, BornRequest
<1>2. parent[d] # Unborn /\ edit[e].do = "merge"
  BY <1>1, EditTyped DEF Merge
<1>3. PICK t : t = Fold(s, d)
  OBVIOUS
<1>4. CASE Done(e, FALSE) /\ UNCHANGED <<parent, name, member, torn>>
  BY <1>4, InvParts, DoneKeeps DEF UnitsInv
<1>5. CASE /\ t.calls = <<>> /\ parent' = t.parent /\ member' = t.member
           /\ NamesGo /\ Done(e, TRUE) /\ Tear(e, t.own)
  <2>1. /\ t.parent \in Parents /\ t.member \in [Domains -> Units \cup {Top, Out}] /\ t.own \in BOOLEAN
        /\ BornTree(t.parent) /\ \A v \in Units : parent[v] # Unborn => t.parent[v] # Unborn
        /\ NoCircle(parent) /\ d \notin Under(parent, s) => NoCircle(t.parent)
        /\ /\ NoCircle(parent) /\ d \notin Under(parent, s) /\ IsRow(parent, s) /\ IsRow(parent, d)
           /\ WholeTree(parent, member) /\ ~t.own
           => WholeTree(t.parent, t.member)
    BY <1>2, <1>3, <1>5, MergedTree
  <2>2. ASSUME torn' # "torn"
        PROVE  NoCircle(parent) /\ d \notin Under(parent, s) /\ IsRow(parent, s) /\ IsRow(parent, d)
    <3>1. torn # "torn" /\ ~edit[e].late
      BY <1>2, <1>5, <2>1, <2>2, TornBy
    <3>2. NoCircle(parent) /\ Possible(parent, edit[e])
      BY <3>1, EditTyped
    <3>3. QED
      BY <1>1, <1>2, <3>2, NoUnitNumbers DEF Possible, RowOrTop
  <2>3. torn' = "whole" => WholeTree(parent', member')
    <3> SUFFICES ASSUME torn' = "whole" PROVE WholeTree(t.parent, t.member)
      BY <1>5
    <3>1. torn = "whole" /\ ~t.own
      BY <1>5, <2>1, TornBy
    <3>2. WholeTree(parent, member)
      BY <3>1 DEF UnitsInv
    <3>3. QED
      BY <2>1, <2>2, <3>1, <3>2
  <2>4. torn' # "torn" => NoCircle(parent')
    BY <1>5, <2>1, <2>2
  <2>5. torn' \in {"whole", "worn", "torn"} /\ (torn = "torn" => torn' = "torn")
    BY <1>5, <2>1, TornBy
  <2>6. QED
    BY <1>5, <2>1, <2>3, <2>4, <2>5, NamesTyped, DoneKeeps
<1>6. QED
  BY <1>1, <1>3, <1>4, <1>5 DEF Merge

LEMMA LiftKeeps ==
    ASSUME UnitsInv, NEW e \in Editors, Lift(e)
    PROVE  UnitsInv'
<1>1. PICK u \in Units, p \in Units \cup {Top} : u = edit[e].unit /\ p = edit[e].to
  BY EditTyped
<1>2. (p \in Units => parent[p] # Unborn) /\ edit[e].do = "lift"
  BY <1>1, EditTyped DEF Lift
<1>3. /\ parent' = Lifted(u, p) /\ member' = [d \in Domains |-> IF member[d] = u THEN p ELSE member[d]]
      /\ NamesGo /\ Done(e, TRUE) /\ Tear(e, FALSE)
  BY <1>1 DEF Lift
<1>4. /\ parent' \in Parents /\ member' \in [Domains -> Units \cup {Top, Out}]
      /\ BornTree(parent') /\ \A v \in Units : parent[v] # Unborn => parent'[v] # Unborn
      /\ NoCircle(parent) /\ p = parent[u] => NoCircle(parent')
      /\ NoCircle(parent) /\ p = parent[u] /\ WholeTree(parent, member) /\ IsRow(parent, u) => WholeTree(parent', member')
  BY <1>2, <1>3, LiftedTree
<1>5. ASSUME torn' # "torn" PROVE NoCircle(parent) /\ p = parent[u] /\ IsRow(parent, u)
  <2>1. NoCircle(parent) /\ Possible(parent, edit[e])
    BY <1>2, <1>3, <1>5, TornBy, EditTyped
  <2>2. QED
    BY <1>1, <1>2, <2>1 DEF Possible
<1>6. torn' = "whole" => WholeTree(parent', member')
  BY <1>3, <1>4, <1>5, TornBy DEF UnitsInv
<1>7. QED
  BY <1>3, <1>4, <1>5, <1>6, NamesTyped, TornBy, DoneKeeps

LEMMA DeleteKeeps ==
    ASSUME UnitsInv, NEW e \in Editors, Delete(e)
    PROVE  UnitsInv'
<1>1. PICK all : all = Descendants(edit[e].unit)
  OBVIOUS
<1>2. all \in SUBSET Units
  BY <1>1, EditTyped DEF Descendants, InList, Rows
<1>3. /\ parent' = [v \in Units |-> IF v \in all /\ IsRow(parent, v) THEN Removed ELSE parent[v]]
      /\ member' = [d \in Domains |-> IF member[d] \in all THEN Out ELSE member[d]]
      /\ NamesGo /\ Done(e, TRUE) /\ Tear(e, FALSE)
  BY <1>1 DEF Delete
<1>4. /\ parent' \in Parents /\ member' \in [Domains -> Units \cup {Top, Out}]
      /\ BornTree(parent') /\ \A v \in Units : parent[v] # Unborn => parent'[v] # Unborn
      /\ NoCircle(parent) => NoCircle(parent')
      /\ WholeTree(parent, member) /\ ClosedBelow(parent, all) => WholeTree(parent', member')
  BY <1>2, <1>3, DeletedTree
<1>5. torn' # "torn" => NoCircle(parent')
  BY <1>3, <1>4, TornBy DEF UnitsInv
<1>6. torn' = "whole" => WholeTree(parent', member')
  <2> SUFFICES ASSUME torn' = "whole" PROVE WholeTree(parent', member')
    OBVIOUS
  <2>1. NoCircle(parent) /\ WholeTree(parent, member)
    BY <1>3, TornBy DEF UnitsInv
  <2>2. ClosedBelow(parent, all)
    <3>1. InList = Rows /\ edit[e].unit \in Units
      BY <2>1, NoneLost, EditTyped
    <3>2. QED
      BY <1>1, <3>1, DescendantsBelow DEF ClosedBelow
  <2>3. QED
    BY <1>4, <2>1, <2>2
<1>7. QED
  BY <1>3, <1>4, <1>5, <1>6, NamesTyped, TornBy, DoneKeeps

\* A domain is put in a unit, if it is still as the request found it.
LEMMA PlacedTree ==
    ASSUME UnitsInv, NEW d \in Domains, NEW was, NEW p \in Units \cup {Top}
    PROVE  /\ Placed(d, was, p) \in [Domains -> Units \cup {Top, Out}]
           /\ \A par : WholeTree(par, member) /\ RowOrTop(par, p) => WholeTree(par, Placed(d, was, p))
<1>1. PICK now : now = Placed(d, was, p)
  OBVIOUS
<1>2. now \in [Domains -> Units \cup {Top, Out}] /\ \A x \in Domains : now[x] = member[x] \/ now[x] = p
  BY <1>1, InvParts DEF Placed
<1>3. \A par : WholeTree(par, member) /\ RowOrTop(par, p) => WholeTree(par, now)
  BY <1>2 DEF WholeTree
<1>4. QED
  BY <1>1, <1>2, <1>3

LEMMA AssignKeeps ==
    ASSUME UnitsInv, NEW e \in Editors, Assign(e)
    PROVE  UnitsInv'
<1>1. PICK d \in Domains, p \in Units \cup {Top} : d = edit[e].domain /\ p = edit[e].to
  BY EditTyped
<1>2. /\ edit[e].do = "assign" /\ member' = Placed(d, edit[e].was, p) /\ parent' = parent /\ name' = name
      /\ Done(e, FALSE) /\ Tear(e, FALSE)
  BY <1>1 DEF Assign
<1>3. /\ member' \in [Domains -> Units \cup {Top, Out}]
      /\ WholeTree(parent, member) /\ RowOrTop(parent, p) => WholeTree(parent, member')
  BY <1>2, PlacedTree
<1>4. torn' = "whole" => WholeTree(parent', member')
  <2> SUFFICES ASSUME torn' = "whole" PROVE WholeTree(parent', member')
    OBVIOUS
  <2>1. WholeTree(parent, member) /\ Possible(parent, edit[e])
    BY <1>2, TornBy, EditTyped DEF UnitsInv
  <2>2. QED
    BY <1>1, <1>2, <1>3, <2>1 DEF Possible
<1>5. torn' # "torn" => NoCircle(parent')
  BY <1>2, TornBy DEF UnitsInv
<1>6. BornTree(parent') /\ name' \in [Units -> UnitNames \cup {NoName}] /\ parent' \in Parents
  BY <1>2, InvParts DEF UnitsInv
<1>7. QED
  BY <1>2, <1>3, <1>4, <1>5, <1>6, TornBy, DoneKeeps

LEMMA ImportKeeps ==
    ASSUME UnitsInv, NEW e \in Editors, Import(e)
    PROVE  UnitsInv'
<1>1. PICK d \in Domains, p \in Units \cup {Top}, n \in UnitNames \cup {NoName} :
          d = edit[e].domain /\ p = edit[e].to /\ n = edit[e].named
  BY EditTyped
<1>2. PICK made : made = IF n # NoName THEN Ensured(n, Top) ELSE [unit |-> p, parent |-> parent, name |-> name]
  OBVIOUS
<1>3. /\ edit[e].do = "import" /\ (n # NoName => Room)
      /\ member' = Placed(d, edit[e].was, made.unit) \/ member' = member
      /\ parent' = made.parent /\ name' = made.name /\ Done(e, parent # made.parent) /\ Tear(e, FALSE)
  BY <1>1, <1>2 DEF Import
<1>4. /\ made.unit \in Units \cup {Top} /\ made.parent \in Parents /\ made.name \in [Units -> UnitNames \cup {NoName}]
      /\ BornTree(made.parent) /\ \A u \in Units : parent[u] # Unborn => made.parent[u] # Unborn
      /\ NoCircle(parent) => NoCircle(made.parent)
      /\ WholeTree(parent, member) => WholeTree(made.parent, member)
      /\ RowOrTop(parent, p) => RowOrTop(made.parent, made.unit)
  <2>1. CASE n = NoName
    <3>1. made.unit = p /\ made.parent = parent /\ made.name = name
      BY <1>2, <2>1
    <3>2. QED
      BY <3>1, InvParts DEF UnitsInv
  <2>2. CASE n # NoName
    <3>1. made = Ensured(n, Top) /\ Room /\ Top \in Units \cup {Top} /\ Top \notin Units /\ RowOrTop(parent, Top)
      BY <1>2, <1>3, <2>2, NoUnitNumbers DEF RowOrTop
    <3>2. /\ made.unit \in Units /\ made.parent \in Parents /\ made.name \in [Units -> UnitNames \cup {NoName}]
          /\ IsRow(made.parent, made.unit)
          /\ BornTree(made.parent) /\ \A u \in Units : parent[u] # Unborn => made.parent[u] # Unborn
          /\ NoCircle(parent) => NoCircle(made.parent)
          /\ WholeTree(parent, member) /\ RowOrTop(parent, Top) => WholeTree(made.parent, member)
      BY <3>1, EnsuredTree
    <3>3. QED
      BY <3>1, <3>2 DEF RowOrTop
  <2>3. QED
    BY <2>1, <2>2
<1>5. /\ member' \in [Domains -> Units \cup {Top, Out}]
      /\ WholeTree(parent', member) /\ RowOrTop(parent', made.unit) => WholeTree(parent', member')
  BY <1>3, <1>4, InvParts, PlacedTree
<1>6. torn' # "torn" => NoCircle(parent')
  BY <1>3, <1>4, TornBy DEF UnitsInv
<1>7. torn' = "whole" => WholeTree(parent', member')
  <2> SUFFICES ASSUME torn' = "whole" PROVE WholeTree(parent', member')
    OBVIOUS
  <2>1. WholeTree(parent, member) /\ Possible(parent, edit[e])
    BY <1>3, TornBy, EditTyped DEF UnitsInv
  <2>2. RowOrTop(parent, p)
    BY <1>1, <1>3, <2>1 DEF Possible
  <2>3. QED
    BY <1>3, <1>4, <1>5, <2>1, <2>2
<1>8. PICK changed \in BOOLEAN : changed <=> parent # made.parent
  OBVIOUS
<1>9. Done(e, changed) /\ (changed \/ parent' = parent)
  BY <1>3, <1>8 DEF Done
<1>10. QED
  BY <1>3, <1>4, <1>5, <1>6, <1>7, <1>9, TornBy, DoneKeeps

\* A request that looks finds it possible in the tree as it is.
Looks(e) ==
    \/ \E p \in InList \cup {Top} :
          \/ \E n \in UnitNames : AskAdd(e, n, p)
          \/ \E d \in Domains : AskAssign(e, d, p)
          \/ \E d \in Domains, n \in UnitNames \cup {NoName} : AskImport(e, d, n, p)
    \/ \E u \in InList :
          \/ \E p \in MayBeUnder(u) \cup {parent[u]}, n \in UnitNames : AskUpdate(e, u, p, n)
          \/ \E target \in InList \ Descendants(u) : AskMerge(e, u, target)
          \/ \E contents \in {"lift", "delete"} : AskDelete(e, u, contents)

LEMMA LookKeeps ==
    ASSUME UnitsInv, NEW e \in Editors, Looks(e)
    PROVE  UnitsInv'
<1>1. \A p \in InList \cup {Top} : /\ p \in Units \cup {Top} /\ RowOrTop(parent, p)
                                   /\ p \in Units => parent[p] # Unborn
  BY ListedIsRow, NoUnitNumbers DEF RowOrTop, IsRow
<1>2. \A u \in InList : /\ u \in Units /\ IsRow(parent, u) /\ parent[u] \in Units \cup {Top}
                        /\ parent[u] \in Units => parent[parent[u]] # Unborn
  BY ListedIsRow, InvParts DEF IsRow, Parents, UnitsInv, BornTree
<1>3. ASSUME torn # "torn", NEW u \in InList, NEW p \in (InList \cup {Top}) \ Descendants(u)
      PROVE  p \notin Under(parent, u)
  BY <1>2, <1>3, NoneLost, DescendantsBelow DEF UnitsInv
<1>4. ASSUME NEW p \in InList \cup {Top}, NEW n \in UnitNames, AskAdd(e, n, p) PROVE UnitsInv'
  <2> DEFINE r == edit'[e]
  <2>1. AskFor(e, r)
    BY <1>4, InvParts DEF AskAdd, AskFor
  <2>2. r \in Edit /\ r.do = "add" /\ r.to = p
    BY <1>1, <1>4, NoEditTyped, InvParts DEF Edit, AskAdd, AskFor
  <2> HIDE DEF r
  <2>3. BornRequest(parent, r) /\ Possible(parent, r)
    BY <1>1, <2>2 DEF BornRequest, Possible
  <2>4. QED
    BY <2>1, <2>2, <2>3, AskKeeps
<1>5. ASSUME NEW p \in InList \cup {Top}, NEW d \in Domains, AskAssign(e, d, p) PROVE UnitsInv'
  <2> DEFINE r == edit'[e]
  <2>1. AskFor(e, r)
    BY <1>5, InvParts DEF AskAssign, AskFor
  <2>2. r \in Edit /\ r.do = "assign" /\ r.to = p
    BY <1>1, <1>5, NoEditTyped, InvParts DEF Edit, AskAssign, AskFor
  <2> HIDE DEF r
  <2>3. BornRequest(parent, r) /\ Possible(parent, r)
    BY <1>1, <2>2 DEF BornRequest, Possible
  <2>4. QED
    BY <2>1, <2>2, <2>3, AskKeeps
<1>6. ASSUME NEW p \in InList \cup {Top}, NEW d \in Domains, NEW n \in UnitNames \cup {NoName}, AskImport(e, d, n, p)
      PROVE  UnitsInv'
  <2> DEFINE r == edit'[e]
  <2>1. AskFor(e, r)
    BY <1>6, InvParts DEF AskImport, AskFor
  <2>2. r \in Edit /\ r.do = "import" /\ r.to = p
    BY <1>1, <1>6, NoEditTyped, InvParts DEF Edit, AskImport, AskFor
  <2> HIDE DEF r
  <2>3. BornRequest(parent, r) /\ Possible(parent, r)
    BY <1>1, <2>2 DEF BornRequest, Possible
  <2>4. QED
    BY <2>1, <2>2, <2>3, AskKeeps
<1>7. ASSUME NEW u \in InList, NEW p \in MayBeUnder(u) \cup {parent[u]}, NEW n \in UnitNames, AskUpdate(e, u, p, n)
      PROVE  UnitsInv'
  <2> DEFINE r == edit'[e]
  <2>1. AskFor(e, r)
    BY <1>7, InvParts DEF AskUpdate, AskFor
  <2>2. p \in Units \cup {Top} /\ (p \in Units => parent[p] # Unborn)
    BY <1>1, <1>2 DEF MayBeUnder
  <2>3. r \in Edit /\ r.do = "update" /\ r.to = p /\ r.unit = u
    BY <1>2, <2>2, <1>7, NoEditTyped, InvParts DEF Edit, AskUpdate, AskFor
  <2> HIDE DEF r
  <2>4. BornRequest(parent, r)
    BY <2>2, <2>3 DEF BornRequest
  <2>5. ASSUME torn # "torn" PROVE Possible(parent, r)
    <3>1. p = parent[u] \/ (RowOrTop(parent, p) /\ p \notin Under(parent, u))
      BY <1>1, <1>3, <2>5 DEF MayBeUnder
    <3>2. QED
      BY <1>2, <2>3, <3>1 DEF Possible
  <2>6. QED
    BY <2>1, <2>3, <2>4, <2>5, AskKeeps
<1>8. ASSUME NEW u \in InList, NEW target \in InList \ Descendants(u), AskMerge(e, u, target) PROVE UnitsInv'
  <2> DEFINE r == edit'[e]
  <2>1. AskFor(e, r)
    BY <1>8, InvParts DEF AskMerge, AskFor
  <2>2. r \in Edit /\ r.do = "merge" /\ r.to = target /\ r.unit = u /\ target \in Units
    BY <1>2, <1>8, NoEditTyped, InvParts DEF Edit, AskMerge, AskFor
  <2> HIDE DEF r
  <2>3. BornRequest(parent, r)
    BY <1>1, <2>2 DEF BornRequest
  <2>4. ASSUME torn # "torn" PROVE Possible(parent, r)
    BY <1>1, <1>2, <1>3, <2>2, <2>4 DEF Possible
  <2>5. QED
    BY <2>1, <2>2, <2>3, <2>4, AskKeeps
<1>9. ASSUME NEW u \in InList, NEW contents \in {"lift", "delete"}, AskDelete(e, u, contents) PROVE UnitsInv'
  <2> DEFINE r == edit'[e]
  <2>1. AskFor(e, r)
    BY <1>9, InvParts DEF AskDelete, AskFor
  <2>2. r \in Edit /\ r.do \in {"lift", "delete"} /\ r.to = parent[u] /\ r.unit = u
    BY <1>2, <1>9, NoEditTyped, InvParts DEF Edit, AskDelete, AskFor
  <2> HIDE DEF r
  <2>3. BornRequest(parent, r)
    BY <1>2, <2>2 DEF BornRequest
  <2>4. Possible(parent, r)
    BY <1>2, <2>2 DEF Possible
  <2>5. QED
    BY <2>1, <2>2, <2>3, <2>4, AskKeeps
<1>10. QED
  BY <1>4, <1>5, <1>6, <1>7, <1>8, <1>9 DEF Looks

LEMMA RemoveKeeps ==
    ASSUME UnitsInv, NEW d \in Domains, RemoveMember(d)
    PROVE  UnitsInv'
<1>1. /\ parent' = parent /\ name' = name /\ edit' = edit /\ torn' = torn
      /\ member' = [member EXCEPT ![d] = Out]
  BY DEF RemoveMember
<1>2. member' \in [Domains -> Units \cup {Top, Out}] /\ \A x \in Domains : member'[x] = member[x] \/ member'[x] = Out
  BY <1>1, InvParts
<1>3. UnitsTypeOK'
  BY <1>1, <1>2, InvParts, TypeBack
<1>4. torn' = "whole" => WholeTree(parent', member')
  BY <1>1, <1>2 DEF UnitsInv, WholeTree
<1>5. QED
  BY <1>1, <1>3, <1>4 DEF UnitsInv

LEMMA UnitsInitOK ==
    ASSUME UnitsInit
    PROVE  UnitsInv
<1>1. Unborn \notin Units /\ Unborn # Top
  BY NoUnitNumbers DEF Unborn, Top
<1>2. /\ \A u \in Units : parent[u] = Unborn /\ ~IsRow(parent, u)
      /\ \A d \in Domains : member[d] = Out
      /\ \A e \in Editors : edit[e] = NoEdit
      /\ torn = "whole"
  BY DEF UnitsInit, IsRow
<1>3. UnitsTypeOK
  BY NoEditTyped DEF UnitsInit, UnitsTypeOK
<1>4. BornTree(parent) /\ \A e \in Editors : BornRequest(parent, edit[e]) /\ Possible(parent, edit[e])
  BY <1>1, <1>2, NoEditTyped DEF BornTree, BornRequest, Possible
<1>5. NoCircle(parent)
  BY <1>1, <1>2 DEF NoCircle
<1>6. WholeTree(parent, member)
  BY <1>2 DEF WholeTree
<1>7. QED
  BY <1>3, <1>4, <1>5, <1>6 DEF UnitsInv

LEMMA UnitsStepOK ==
    ASSUME UnitsInv, [UnitsNext]_unitVars
    PROVE  UnitsInv'
<1>1. ASSUME NEW e \in Editors, Add(e) \/ Update(e) \/ Merge(e) \/ Lift(e) \/ Delete(e) \/ Assign(e) \/ Import(e)
      PROVE  UnitsInv'
  BY <1>1, AddKeeps, UpdateKeeps, MergeKeeps, LiftKeeps, DeleteKeeps, AssignKeeps, ImportKeeps
<1>2. CASE UNCHANGED unitVars
  <2>1. parent' = parent /\ name' = name /\ member' = member /\ edit' = edit /\ torn' = torn
    BY <1>2 DEF unitVars
  <2>2. UnitsTypeOK'
    BY <2>1, InvParts, TypeBack
  <2>3. QED
    BY <2>1, <2>2 DEF UnitsInv
<1>3. CASE \E d \in Domains : RemoveMember(d)
  BY <1>3, RemoveKeeps
<1>4. QED
  BY <1>1, <1>2, <1>3, LookKeeps DEF UnitsNext, Looks

\* The tree is typed; a unit that was never given is under none and above none;
\* while no two moves, merges or lifts met, no units are each below another and
\* what a request found possible is so until another changes the tree; and while
\* nothing else met, nothing is missing (domain_portfolio.py).
THEOREM TreeHolds == UnitsSpec => []UnitsInv
<1>1. UnitsInit => UnitsInv
  BY UnitsInitOK
<1>2. UnitsInv /\ [UnitsNext]_unitVars => UnitsInv'
  BY UnitsStepOK
<1>3. QED
  BY <1>1, <1>2, PTL DEF UnitsSpec

\* Whatever is moved, merged, lifted and deleted, each unit stays in the list
\* of units and under a unit that is there, and each domain in one, but for
\* the requests that met (domain_portfolio.py update_group, merge_group,
\* delete_group).
THEOREM TreeStays == UnitsSpec => []TreeKept
<1>1. ASSUME UnitsInv PROVE TreeKept
  <2>1. NoUnitLost
    BY <1>1, NoneLost DEF UnitsInv, NoUnitLost
  <2>2. NoUnitMissing
    BY <1>1, NoUnitNumbers DEF UnitsInv, NoUnitMissing, WholeTree, RowOrTop, Rows
  <2>3. QED
    BY <2>1, <2>2 DEF TreeKept
<1>2. UnitsInv => TreeKept
  BY <1>1
<1>3. QED
  BY <1>2, TreeHolds, PTL
=============================================================================
