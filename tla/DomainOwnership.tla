--------------------------- MODULE DomainOwnership ---------------------------
(***************************************************************************)
(* Proof that a domain is the organisation's own (domain_ownership.py),    *)
(* which the login and attack probes ask for.  A check reads the entry,    *)
(* looks for its token in DNS and on the web server for seconds, and then  *)
(* writes what it found to the entry of that name; meanwhile the entry may *)
(* be attested, revoked, asked for again with another token, or expire.    *)
(***************************************************************************)
EXTENDS Integers, FiniteSets

CONSTANTS
    Zones,      \* domains with an entry of their own; each covers what is below
    Below,      \* per zone, the zones whose proof covers it, itself included
    Checkers,   \* requests that check
    MaxAge,     \* max_age_days; 0 never expires
    MaxTokens,  \* bound: tokens made
    MaxYears    \* bound: time

ASSUME OwnershipConstants ==
    /\ Zones # {} /\ Below \in [Zones -> SUBSET Zones] /\ \A z \in Zones : z \in Below[z]
    /\ {MaxAge, MaxTokens, MaxYears} \subseteq Nat

VARIABLES
    proof,     \* verified_domains
    tokens,    \* tokens made so far: secrets.token_urlsafe gives none twice
    placed,    \* per zone, the token its owner has in DNS or on the web server
    checking,  \* per checker, the entry it read and what it found
    year,
    swapped    \* history: entries made again while their token was looked for

ownershipVars == <<proof, tokens, placed, checking, year, swapped>>

NoToken == 0
Proof == [status : {"none", "pending", "verified"}, method : {"none", "dns", "http", "admin"},
          token : 0..MaxTokens, verified : 0..MaxYears, seen : 0..MaxTokens]
NoProof == [status |-> "none", method |-> "none", token |-> NoToken, verified |-> 0, seen |-> NoToken]
Checking == [phase : {"idle", "read", "dns", "found", "failed"}, zone : Zones, token : 0..MaxTokens,
             method : {"none", "dns", "http"}, seen : 0..MaxTokens]
NotChecking == [phase |-> "idle", zone |-> CHOOSE z \in Zones : TRUE, token |-> NoToken, method |-> "none",
                seen |-> NoToken]

OwnershipTypeOK ==
    /\ proof \in [Zones -> Proof]
    /\ tokens \in 0..MaxTokens
    /\ placed \in [Zones -> 0..MaxTokens]
    /\ checking \in [Checkers -> Checking]
    /\ year \in 0..MaxYears
    /\ swapped \subseteq Zones

OwnershipInit ==
    /\ proof = [z \in Zones |-> NoProof]
    /\ tokens = 0 /\ year = 0 /\ swapped = {}
    /\ placed = [z \in Zones |-> NoToken]
    /\ checking = [c \in Checkers |-> NotChecking]

\* request_verification: the entry there is, or a new one with a new token.
Requested(z) ==
    IF proof[z].status # "none" THEN UNCHANGED <<proof, tokens>>
    ELSE /\ tokens < MaxTokens
         /\ tokens' = tokens + 1
         /\ proof' = [proof EXCEPT ![z] = [NoProof EXCEPT !.status = "pending", !.token = tokens + 1]]

RequestVerification(z) ==
    /\ proof[z].status = "none"
    /\ Requested(z)
    /\ UNCHANGED <<placed, checking, year, swapped>>

\* check: reads the entry, making it when there is none.
BeginCheck(c, z) ==
    /\ checking[c].phase = "idle"
    /\ Requested(z)
    /\ checking' = [checking EXCEPT ![c] = [NotChecking EXCEPT !.phase = "read", !.zone = z, !.token = proof'[z].token]]
    /\ UNCHANGED <<placed, year, swapped>>

Found_AnyToken(c) == placed[checking[c].zone] # NoToken

Found(c) == placed[checking[c].zone] = checking[c].token

\* A TXT record; when that is not there, or DNS does not answer, the file.
ProbeDns(c) ==
    /\ checking[c].phase = "read"
    /\ \/ /\ Found(c)
          /\ checking' = [checking EXCEPT ![c].phase = "found", ![c].method = "dns", ![c].seen = placed[checking[c].zone]]
       \/ checking' = [checking EXCEPT ![c].phase = "dns"]
    /\ UNCHANGED <<proof, tokens, placed, year, swapped>>

ProbeHttp(c) ==
    /\ checking[c].phase = "dns"
    /\ \/ /\ Found(c)
          /\ checking' = [checking EXCEPT ![c].phase = "found", ![c].method = "http", ![c].seen = placed[checking[c].zone]]
       \/ checking' = [checking EXCEPT ![c].phase = "failed"]
    /\ UNCHANGED <<proof, tokens, placed, year, swapped>>

\* UPDATE ... WHERE domain = ?: by name.  An entry that is gone is not made
\* again; a failure leaves an earlier proof as it was.
WriteCheck(c) ==
    /\ checking[c].phase \in {"found", "failed"}
    /\ LET z == checking[c].zone IN
       IF checking[c].phase = "found" /\ proof[z].status # "none"
       THEN /\ proof' = [proof EXCEPT ![z] = [@ EXCEPT !.status = "verified", !.method = checking[c].method,
                                                       !.verified = year, !.seen = checking[c].seen]]
            /\ swapped' = IF proof[z].token # checking[c].token THEN swapped \cup {z} ELSE swapped \ {z}
       ELSE UNCHANGED <<proof, swapped>>
    /\ checking' = [checking EXCEPT ![c] = NotChecking]
    /\ UNCHANGED <<tokens, placed, year>>

\* An administrator's word, with a reason; it replaces a measured proof.
Attest(z) ==
    /\ proof[z].status = "none" => tokens < MaxTokens
    /\ LET made == proof[z].status = "none" IN
       /\ tokens' = IF made THEN tokens + 1 ELSE tokens
       /\ proof' = [proof EXCEPT ![z] = [status |-> "verified", method |-> "admin", verified |-> year, seen |-> NoToken,
                                         token |-> IF made THEN tokens + 1 ELSE @.token]]
    /\ UNCHANGED <<placed, checking, year, swapped>>

RevokeProof(z) ==
    /\ proof[z].status # "none"
    /\ proof' = [proof EXCEPT ![z] = NoProof]
    /\ UNCHANGED <<tokens, placed, checking, year, swapped>>

\* The owner of a zone puts a token in place, or takes it away.
Place(z) ==
    /\ \E t \in 0..tokens : t # placed[z] /\ placed' = [placed EXCEPT ![z] = t]
    /\ UNCHANGED <<proof, tokens, checking, year, swapped>>

YearPasses ==
    /\ year < MaxYears
    /\ year' = year + 1
    /\ UNCHANGED <<proof, tokens, placed, checking, swapped>>

OwnershipNext ==
    \/ \E z \in Zones : RequestVerification(z) \/ Attest(z) \/ RevokeProof(z) \/ Place(z)
    \/ \E c \in Checkers :
          \/ ProbeDns(c) \/ ProbeHttp(c) \/ WriteCheck(c)
          \/ \E z \in Zones : BeginCheck(c, z)
    \/ YearPasses

OwnershipSpec == OwnershipInit /\ [][OwnershipNext]_ownershipVars

(***************************************************************************)
(* Properties                                                              *)
(***************************************************************************)
\* An attestation does not expire.
Expired(z) ==
    proof[z].method # "admin" /\ MaxAge > 0 /\ year - proof[z].verified > MaxAge

\* verification_for: the entries of the name and of the names above it.
IsVerified(z) == \E y \in Below[z] : proof[y].status = "verified" /\ ~Expired(y)

\* Probes go to a name only on an administrator's word, or when the token of
\* an entry that covers the name was found at that entry's own name within
\* max_age_days, whatever was revoked, asked for again or attested while a
\* check looked.  The exception is an entry revoked and asked for again
\* meanwhile: check() writes by name (domain_ownership.py).
ProbedOnProof ==
    \A z \in Zones : IsVerified(z) =>
        \E y \in Below[z] :
            \/ proof[y].method = "admin"
            \/ y \in swapped
            \/ proof[y].seen = proof[y].token /\ (MaxAge = 0 \/ year - proof[y].verified <= MaxAge)
=============================================================================
