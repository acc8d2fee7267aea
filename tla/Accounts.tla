------------------------------- MODULE Accounts -------------------------------
(***************************************************************************)
(* Signing in and what an account may do (auth.py, the account and user    *)
(* pages of app.py, scim.py, api_tokens.py).  A session is a signed cookie *)
(* in the browser: it cannot be taken back where it is, so each request    *)
(* reads the account again, and an account records the moment before which *)
(* its sessions count no more.  Requests of several browsers, of an        *)
(* administrator and of the directory read a row of users, do their checks *)
(* and write, with others in between.                                      *)
(***************************************************************************)
EXTENDS Integers, FiniteSets

CONSTANTS
    Ids,          \* users.id: AUTOINCREMENT never gives one twice
    Browsers,
    Roles,        \* those of viewer, user and admin that are given
    Codes,        \* backup codes handed out with an authenticator
    MaxFailed,    \* max_failed_attempts
    MfaRequired,  \* auth_local.mfa_required
    Jit,          \* jit_provision
    MaxSecrets,   \* bound: authenticators made
    MaxStamps     \* bound: moments stamped

ASSUME AccountConstants ==
    /\ Ids # {} /\ Roles \subseteq {"viewer", "user", "admin"} /\ "admin" \in Roles
    /\ MaxFailed \in Nat \ {0} /\ {MfaRequired, Jit} \subseteq BOOLEAN
    /\ {MaxSecrets, MaxStamps} \subseteq Nat

VARIABLES
    users,     \* the rows
    apiTokens,    \* per account, its API token
    cookie,    \* per browser, its session
    asking,    \* per browser, a request between its read and its write
    syncing,   \* a directory's PUT between its read and its write
    stamps, secrets,  \* moments and authenticators so far
    said,      \* history: the role each account was last given on purpose
    owed       \* history: accounts whose sessions are to end and may not have

accountVars == <<users, apiTokens, cookie, asking, syncing, stamps, secrets, said, owed>>

Rank == [viewer |-> 0, user |-> 1, admin |-> 2]
NoSecret == 0

Row == [status : {"none", "on", "off", "gone"}, role : Roles, failed : 0..MaxFailed, locked : BOOLEAN,
        password : BOOLEAN, secret : 0..MaxSecrets, codes : SUBSET Codes, cutoff : 0..MaxStamps]
NoRow == [status |-> "none", role |-> "admin", failed |-> 0, locked |-> FALSE, password |-> FALSE,
          secret |-> NoSecret, codes |-> {}, cutoff |-> 0]
\* "loose": signed in without a row of users.  stray: written by a
\* confirmation whose account was disabled meanwhile; old: history, began
\* before the account's sessions were last ended.
Cookie == [kind : {"none", "pending", "user", "loose"}, id : Ids, issued : 0..MaxStamps,
           setup : 0..MaxSecrets, proved : 0..MaxSecrets, old : BOOLEAN, stray : BOOLEAN]
NoCookie == [kind |-> "none", id |-> CHOOSE i \in Ids : TRUE, issued |-> 0,
             setup |-> NoSecret, proved |-> NoSecret, old |-> FALSE, stray |-> FALSE]
\* A replacement goes on through "replaced", "others" and "written", an
\* administrator's reset through "reset" and "all".  Of the row a request uses
\* what it read; stamp: the moment it ends sessions with; late: history, the
\* account's authenticator was set or taken off by another one meanwhile.
Ends == {"replaced", "others", "reset", "all"}
Asking == [step : {"none", "password", "signed", "code", "passed", "confirm", "written"} \cup Ends, id : Ids,
           failed : 0..MaxFailed, secret : 0..MaxSecrets, codes : SUBSET Codes, stamp : 0..MaxStamps, late : BOOLEAN]
NotAsking == [step |-> "none", id |-> CHOOSE i \in Ids : TRUE, failed |-> 0, secret |-> NoSecret, codes |-> {},
              stamp |-> 0, late |-> FALSE]
NoApiToken == "none"
Syncing == [on : BOOLEAN, role : Roles, id : Ids]
NotSyncing == [on |-> FALSE, role |-> "admin", id |-> CHOOSE i \in Ids : TRUE]

AccountTypeOK ==
    /\ users \in [Ids -> Row]
    /\ apiTokens \in [Ids -> Roles \cup {NoApiToken}]
    /\ cookie \in [Browsers -> Cookie]
    /\ asking \in [Browsers -> Asking]
    /\ syncing \in Syncing
    /\ stamps \in 0..MaxStamps /\ secrets \in 0..MaxSecrets
    /\ said \in [Ids -> Roles]
    /\ owed \in SUBSET Ids

\* bootstrap_admin: the first account, where the environment names one.
Bootstrapped == [NoRow EXCEPT !.status = "on", !.role = "admin", !.password = TRUE]

AccountInit ==
    /\ users \in {[i \in Ids |-> IF i = CHOOSE j \in Ids : TRUE THEN first ELSE NoRow] : first \in {NoRow, Bootstrapped}}
    /\ apiTokens = [i \in Ids |-> NoApiToken]
    /\ cookie = [b \in Browsers |-> NoCookie]
    /\ asking = [b \in Browsers |-> NotAsking]
    /\ syncing = NotSyncing
    /\ stamps = 0 /\ secrets = 0
    /\ said = [i \in Ids |-> users[i].role]
    /\ owed = {}

Exists(i) == users[i].status \in {"on", "off"}
\* UPDATE users ... WHERE id = ?: nothing, when the row is gone.
WithRow(i, row) == IF Exists(i) THEN [users EXCEPT ![i] = row] ELSE users

(***************************************************************************)
(* What each request finds first (current_user)                            *)
(***************************************************************************)
SessionAccepted_EnabledOnly(b, unread) ==
    \/ cookie[b].kind = "loose"
    \/ cookie[b].kind = "user" /\ (unread \/ users[cookie[b].id].status = "on")

\* _refresh_from_db: the account as it is now, and its sessions not ended;
\* while the database cannot be read nobody is logged out.
SessionAccepted(b, unread) ==
    \/ cookie[b].kind = "loose"
    \/ /\ cookie[b].kind = "user"
       /\ unread \/ (users[cookie[b].id].status = "on" /\ cookie[b].issued >= users[cookie[b].id].cutoff)

\* A session that is not accepted loses its user; one that is acts with the
\* role the account has now, or had when it could last be read.
TurnedAway(b) ==
    /\ cookie[b].kind = "user" /\ asking[b].step = "none" /\ ~SessionAccepted(b, FALSE)
    /\ cookie' = [cookie EXCEPT ![b] = [NoCookie EXCEPT !.setup = cookie[b].setup, !.proved = cookie[b].proved]]
    /\ UNCHANGED <<users, apiTokens, asking, syncing, stamps, secrets, said, owed>>

Logout(b) ==
    /\ cookie[b] # NoCookie /\ asking[b].step = "none"
    /\ cookie' = [cookie EXCEPT ![b] = NoCookie]
    /\ UNCHANGED <<users, apiTokens, asking, syncing, stamps, secrets, said, owed>>

\* What is asked for is read and written once the database answers again.
Local(b) == cookie[b].kind = "user" /\ asking[b].step = "none" /\ \E unread \in BOOLEAN : SessionAccepted(b, unread)

ReadRow(step, i) == [step |-> step, id |-> i, stamp |-> 0, late |-> FALSE,
                     failed |-> users[i].failed, secret |-> users[i].secret, codes |-> users[i].codes]

(***************************************************************************)
(* Signing in                                                              *)
(***************************************************************************)
\* attempt_local_login reads the account.
EnterPassword(b, i) ==
    /\ cookie[b].kind = "none" /\ asking[b].step = "none"
    /\ users[i].status = "on" /\ ~users[i].locked /\ users[i].password
    /\ asking' = [asking EXCEPT ![b] = ReadRow("password", i)]
    /\ UNCHANGED <<users, apiTokens, cookie, syncing, stamps, secrets, said, owed>>

\* A failure is counted from the row that was read; at the limit it locks.
Failure(row, read) ==
    IF read.failed + 1 >= MaxFailed THEN [row EXCEPT !.failed = 0, !.locked = TRUE]
    ELSE [row EXCEPT !.failed = read.failed + 1]

PasswordWrong(b) ==
    LET i == asking[b].id IN
    /\ asking[b].step = "password"
    /\ users' = WithRow(i, Failure(users[i], asking[b]))
    /\ asking' = [asking EXCEPT ![b] = NotAsking]
    /\ UNCHANGED <<apiTokens, cookie, syncing, stamps, secrets, said, owed>>

\* The account is read again: it may have an authenticator by now, or be gone.
PasswordRight(b) ==
    LET i == asking[b].id IN
    /\ asking[b].step = "password"
    /\ users' = WithRow(i, [users[i] EXCEPT !.failed = 0, !.locked = FALSE])
    /\ \/ /\ ~Exists(i)
          /\ asking' = [asking EXCEPT ![b] = NotAsking]
          /\ UNCHANGED cookie
       \/ /\ Exists(i) /\ users[i].secret # NoSecret
          /\ cookie' = [cookie EXCEPT ![b] = [NoCookie EXCEPT !.kind = "pending", !.id = i]]
          /\ asking' = [asking EXCEPT ![b] = NotAsking]
       \/ /\ Exists(i) /\ users[i].secret = NoSecret
          /\ asking' = [asking EXCEPT ![b] = [@ EXCEPT !.step = "signed", !.failed = 0]]
          /\ UNCHANGED cookie
    /\ UNCHANGED <<apiTokens, syncing, stamps, secrets, said, owed>>

\* auth_mfa_verify reads the account of the pending session.
EnterCode(b) ==
    LET i == cookie[b].id IN
    /\ cookie[b].kind = "pending" /\ asking[b].step = "none"
    /\ IF users[i].status # "on" \/ users[i].locked
       THEN cookie' = [cookie EXCEPT ![b] = NoCookie] /\ UNCHANGED asking
       ELSE asking' = [asking EXCEPT ![b] = ReadRow("code", i)] /\ UNCHANGED cookie
    /\ UNCHANGED <<users, apiTokens, syncing, stamps, secrets, said, owed>>

\* consume_backup_code writes the list that was read, without the code.
Consumed(i, read, c) == WithRow(i, [users[i] EXCEPT !.codes = read.codes \ {c}])

CodeRight(b) ==
    LET i == asking[b].id read == asking[b] IN
    /\ asking[b].step = "code"
    /\ \/ read.secret # NoSecret /\ UNCHANGED users
       \/ \E c \in read.codes : users' = Consumed(i, read, c)
    /\ asking' = [asking EXCEPT ![b].step = "passed"]
    /\ UNCHANGED <<apiTokens, cookie, syncing, stamps, secrets, said, owed>>

CodeWrong(b) ==
    LET i == asking[b].id IN
    /\ asking[b].step = "code"
    /\ users' = WithRow(i, Failure(users[i], asking[b]))
    /\ cookie' = IF asking[b].failed + 1 >= MaxFailed THEN [cookie EXCEPT ![b] = NoCookie] ELSE cookie
    /\ asking' = [asking EXCEPT ![b] = NotAsking]
    /\ UNCHANGED <<apiTokens, syncing, stamps, secrets, said, owed>>

\* login_user: the session begins now, whenever its proof was checked.
Enter(b) ==
    LET i == asking[b].id IN
    /\ asking[b].step \in {"signed", "passed"} /\ stamps < MaxStamps
    /\ users' = IF asking[b].step = "signed" THEN users
                ELSE WithRow(i, [users[i] EXCEPT !.failed = 0, !.locked = FALSE])
    /\ stamps' = stamps + 1
    /\ cookie' = [cookie EXCEPT ![b] = [NoCookie EXCEPT !.kind = "user", !.id = i, !.issued = stamps + 1]]
    /\ asking' = [asking EXCEPT ![b] = NotAsking]
    /\ UNCHANGED <<apiTokens, syncing, secrets, said, owed>>

\* resolve_federated_user: the row the directory made, or a session without
\* one where just-in-time sign-in is on.
SingleSignOn(b, i) ==
    /\ cookie[b].kind = "none" /\ asking[b].step = "none"
    /\ \/ /\ users[i].status = "on" /\ stamps < MaxStamps
          /\ stamps' = stamps + 1
          /\ cookie' = [cookie EXCEPT ![b] = [NoCookie EXCEPT !.kind = "user", !.id = i, !.issued = stamps + 1]]
       \/ /\ ~Exists(i) /\ Jit
          /\ cookie' = [cookie EXCEPT ![b] = [NoCookie EXCEPT !.kind = "loose", !.id = i]]
          /\ UNCHANGED stamps
    /\ UNCHANGED <<users, apiTokens, asking, syncing, secrets, said, owed>>

LockEnds(i) ==
    /\ users[i].locked
    /\ users' = [users EXCEPT ![i].locked = FALSE]
    /\ UNCHANGED <<apiTokens, cookie, asking, syncing, stamps, secrets, said, owed>>

(***************************************************************************)
(* The authenticator                                                       *)
(***************************************************************************)
\* account_mfa_start, for an account without one.
StartMfa(b) ==
    /\ Local(b) /\ users[cookie[b].id].secret = NoSecret /\ secrets < MaxSecrets
    /\ secrets' = secrets + 1
    /\ cookie' = [cookie EXCEPT ![b].setup = secrets + 1]
    /\ UNCHANGED <<users, apiTokens, asking, syncing, stamps, said, owed>>

\* account_mfa_replace: the password, and a code of the one there is.
ReplaceMfa(b) ==
    LET i == cookie[b].id IN
    /\ Local(b) /\ users[i].secret # NoSecret /\ users[i].password /\ secrets < MaxSecrets
    /\ \/ UNCHANGED users
       \/ \E c \in users[i].codes : users' = Consumed(i, users[i], c)
    /\ secrets' = secrets + 1
    /\ cookie' = [cookie EXCEPT ![b].setup = secrets + 1, ![b].proved = users[i].secret]
    /\ UNCHANGED <<apiTokens, asking, syncing, stamps, said, owed>>

\* Ten minutes later the proof counts no more; cancelling drops both.
ProofEnds(b) ==
    /\ cookie[b].setup # NoSecret /\ asking[b].step = "none"
    /\ cookie' = [cookie EXCEPT ![b].proved = NoSecret, ![b].setup = IF cookie[b].proved = NoSecret THEN NoSecret ELSE @]
    /\ UNCHANGED <<users, apiTokens, asking, syncing, stamps, secrets, said, owed>>

MayConfirm_Started(b, row) == cookie[b].setup # NoSecret

\* Whether the account has one is looked at again when the new one is
\* confirmed: a replacement needs the proof, also of a setup begun without.
MayConfirm(b, row) == cookie[b].setup # NoSecret /\ (row.secret # NoSecret => cookie[b].proved # NoSecret)

ConfirmMfa(b) ==
    LET i == cookie[b].id IN
    /\ Local(b) /\ cookie[b].setup # NoSecret
    /\ IF MayConfirm(b, users[i])
       THEN asking' = [asking EXCEPT ![b] = ReadRow("confirm", i)] /\ UNCHANGED cookie
       ELSE cookie' = [cookie EXCEPT ![b].setup = NoSecret, ![b].proved = NoSecret] /\ UNCHANGED asking
    /\ UNCHANGED <<users, apiTokens, syncing, stamps, secrets, said, owed>>

\* History: the sessions that are to end, whom it finds midway, and whether
\* another end of them is under way.
AllOld(i) ==
    [c \in Browsers |-> IF cookie[c].kind = "user" /\ cookie[c].id = i THEN [cookie[c] EXCEPT !.old = TRUE] ELSE cookie[c]]
Interrupted(i) ==
    [c \in Browsers |-> IF asking[c].step # "none" /\ asking[c].id = i THEN [asking[c] EXCEPT !.late = TRUE] ELSE asking[c]]
Overlaps(i) == \E c \in Browsers : asking[c].step \in Ends /\ asking[c].id = i

\* The session without the setup that was confirmed.
SetUp(b) == [cookie[b] EXCEPT !.setup = NoSecret, !.proved = NoSecret]

\* The first transaction: the new authenticator.  A first setup is done with
\* it; its response may be lost with the process.
WriteMfa(b) ==
    LET i == cookie[b].id IN
    /\ asking[b].step = "confirm"
    /\ users' = WithRow(i, [users[i] EXCEPT !.secret = cookie[b].setup, !.codes = Codes])
    /\ IF asking[b].secret # NoSecret
       THEN /\ asking' = [Interrupted(i) EXCEPT ![b] = [@ EXCEPT !.step = "replaced", !.late = Overlaps(i)]]
            /\ cookie' = [AllOld(i) EXCEPT ![b].old = FALSE]
            /\ owed' = owed \cup {i}
       ELSE /\ asking' = [Interrupted(i) EXCEPT ![b] = NotAsking]
            /\ \E c \in {cookie[b], SetUp(b)} : cookie' = [cookie EXCEPT ![b] = c]
            /\ UNCHANGED owed
    /\ UNCHANGED <<apiTokens, syncing, stamps, secrets, said>>

\* revoke_other_sessions and revoke_all_sessions: a moment is taken, and
\* written in a transaction of its own.
TakeStamp(b) ==
    LET step == IF asking[b].step = "replaced" THEN "others" ELSE "all" IN
    /\ asking[b].step \in {"replaced", "reset"} /\ stamps < MaxStamps
    /\ stamps' = stamps + 1
    /\ asking' = [asking EXCEPT ![b] = [@ EXCEPT !.step = step, !.stamp = stamps + 1]]
    /\ UNCHANGED <<users, apiTokens, cookie, syncing, secrets, said, owed>>

EndSessions(b) ==
    LET i == asking[b].id IN
    /\ asking[b].step \in {"others", "all"}
    /\ users' = WithRow(i, [users[i] EXCEPT !.cutoff = asking[b].stamp])
    /\ asking' = [asking EXCEPT ![b] = IF @.step = "others" THEN [@ EXCEPT !.step = "written"] ELSE NotAsking]
    \* History: of two ends that overlap the later moment may be lost.
    /\ owed' = IF asking[b].late THEN owed \cup {i} ELSE owed \ {i}
    /\ UNCHANGED <<apiTokens, cookie, syncing, stamps, secrets, said>>

\* The session is stamped with that moment; sess = auth.current_user() or {},
\* written back with a flag: what was ended meanwhile becomes a session of
\* nobody in particular.
EndMfa(b) ==
    LET i == asking[b].id
        stays == users[i].status = "on" /\ asking[b].stamp >= users[i].cutoff
        stamped == [SetUp(b) EXCEPT !.issued = asking[b].stamp]
        stray == [NoCookie EXCEPT !.kind = "loose", !.id = i, !.stray = TRUE]
    IN
    /\ asking[b].step = "written"
    /\ \E unread \in BOOLEAN : cookie' = [cookie EXCEPT ![b] = IF unread \/ stays THEN stamped ELSE stray]
    /\ asking' = [asking EXCEPT ![b] = NotAsking]
    /\ UNCHANGED <<users, apiTokens, syncing, stamps, secrets, said, owed>>

\* The process ends under a request, and the browser keeps the cookie it had;
\* or the request fails, and its response brings what it made of it so far.
RequestFails(b) ==
    /\ asking[b].step # "none"
    /\ asking' = [asking EXCEPT ![b] = NotAsking]
    /\ \/ UNCHANGED cookie
       \/ asking[b].step \in {"replaced", "others"} /\ cookie' = [cookie EXCEPT ![b] = SetUp(b)]
    /\ UNCHANGED <<users, apiTokens, syncing, stamps, secrets, said, owed>>

DisableMfa(b) ==
    LET i == cookie[b].id IN
    /\ Local(b) /\ ~MfaRequired /\ users[i].password /\ users[i].secret # NoSecret
    /\ users' = [users EXCEPT ![i] = [@ EXCEPT !.secret = NoSecret, !.codes = {}]]
    /\ UNCHANGED <<apiTokens, cookie, asking, syncing, stamps, secrets, said, owed>>

(***************************************************************************)
(* The administrator                                                       *)
(***************************************************************************)
Change(i, row) == Exists(i) /\ users' = [users EXCEPT ![i] = row]

\* With a password when an administrator makes it, without when SCIM does.
CreateUser(i, role, password) ==
    /\ users[i].status = "none"
    /\ users' = [users EXCEPT ![i] = [NoRow EXCEPT !.status = "on", !.role = role, !.password = password]]
    /\ said' = [said EXCEPT ![i] = role]
    /\ UNCHANGED <<apiTokens, cookie, asking, syncing, stamps, secrets, owed>>

ToggleUser(i) ==
    /\ Change(i, [users[i] EXCEPT !.status = IF @ = "on" THEN "off" ELSE "on"])
    /\ UNCHANGED <<apiTokens, cookie, asking, syncing, stamps, secrets, said, owed>>

SetRole(i, role) ==
    /\ users[i].role # role
    /\ Change(i, [users[i] EXCEPT !.role = role])
    /\ said' = [said EXCEPT ![i] = role]
    /\ UNCHANGED <<apiTokens, cookie, asking, syncing, stamps, secrets, owed>>

ResetPassword(i) ==
    /\ Change(i, [users[i] EXCEPT !.password = TRUE, !.failed = 0, !.locked = FALSE])
    /\ users' # users
    /\ UNCHANGED <<apiTokens, cookie, asking, syncing, stamps, secrets, said, owed>>

\* The first transaction of a reset, from a browser that is not signed in
\* with this account.
ResetMfa(b, i) ==
    /\ asking[b].step = "none" /\ (cookie[b].kind = "user" => cookie[b].id # i)
    /\ Change(i, [users[i] EXCEPT !.secret = NoSecret, !.codes = {}])
    /\ asking' = [Interrupted(i) EXCEPT ![b] = [NotAsking EXCEPT !.step = "reset", !.id = i, !.late = Overlaps(i)]]
    /\ cookie' = AllOld(i)
    /\ owed' = owed \cup {i}
    /\ UNCHANGED <<apiTokens, syncing, stamps, secrets, said>>

\* ON DELETE CASCADE takes its tokens.
DeleteUser(i) ==
    /\ Change(i, [NoRow EXCEPT !.status = "gone"])
    /\ apiTokens' = [apiTokens EXCEPT ![i] = NoApiToken]
    /\ UNCHANGED <<cookie, asking, syncing, stamps, secrets, said, owed>>

(***************************************************************************)
(* The directory (SCIM)                                                    *)
(***************************************************************************)
\* PUT reads the account, and writes active and a role.
SyncRead(i) ==
    /\ ~syncing.on /\ Exists(i)
    /\ syncing' = [on |-> TRUE, role |-> users[i].role, id |-> i]
    /\ UNCHANGED <<users, apiTokens, cookie, asking, stamps, secrets, said, owed>>

KeptRole_Default(role) == CHOOSE other \in Roles : other # "admin"

\* _role_from_payload: a PUT that names no role keeps the one that was read;
\* over a role given meanwhile, that is the last one given (said).
KeptRole(role) == role

SyncWrite ==
    LET i == syncing.id IN
    /\ syncing.on
    /\ \E status \in {"on", "off"}, named \in Roles \cup {"none"} :
           LET role == IF named = "none" THEN KeptRole(syncing.role) ELSE named IN
           /\ users' = WithRow(i, [users[i] EXCEPT !.status = status, !.role = role])
           /\ said' = IF named = "none" /\ said[i] = syncing.role THEN said
                      ELSE [said EXCEPT ![i] = IF named = "none" THEN users'[i].role ELSE named]
    /\ syncing' = NotSyncing
    /\ UNCHANGED <<apiTokens, cookie, asking, stamps, secrets, owed>>

(***************************************************************************)
(* API tokens                                                              *)
(***************************************************************************)
\* No more than its owner at that moment, as far as it could be read; used, no
\* more than its owner now.
CreateToken(b, role) ==
    LET i == cookie[b].id IN
    /\ Local(b) /\ Exists(i) /\ apiTokens[i] = NoApiToken
    /\ SessionAccepted(b, FALSE) => Rank[role] <= Rank[users[i].role]
    /\ apiTokens' = [apiTokens EXCEPT ![i] = role]
    /\ UNCHANGED <<users, cookie, asking, syncing, stamps, secrets, said, owed>>

\* Revoked, or at the end of its days.
EndToken(i) ==
    /\ apiTokens[i] # NoApiToken
    /\ apiTokens' = [apiTokens EXCEPT ![i] = NoApiToken]
    /\ UNCHANGED <<users, cookie, asking, syncing, stamps, secrets, said, owed>>

TokenRole(i) ==
    IF apiTokens[i] = NoApiToken \/ users[i].status # "on" THEN NoApiToken
    ELSE IF Rank[apiTokens[i]] <= Rank[users[i].role] THEN apiTokens[i] ELSE users[i].role

AccountNext ==
    \/ \E b \in Browsers :
          \/ TurnedAway(b) \/ Logout(b) \/ PasswordWrong(b) \/ PasswordRight(b)
          \/ EnterCode(b) \/ CodeRight(b) \/ CodeWrong(b) \/ Enter(b)
          \/ StartMfa(b) \/ ReplaceMfa(b) \/ ProofEnds(b) \/ ConfirmMfa(b) \/ WriteMfa(b) \/ DisableMfa(b)
          \/ TakeStamp(b) \/ EndSessions(b) \/ EndMfa(b) \/ RequestFails(b)
          \/ \E i \in Ids : EnterPassword(b, i) \/ SingleSignOn(b, i) \/ ResetMfa(b, i)
          \/ \E role \in Roles : CreateToken(b, role)
    \/ \E i \in Ids :
          \/ LockEnds(i) \/ ToggleUser(i) \/ ResetPassword(i) \/ DeleteUser(i) \/ SyncRead(i) \/ EndToken(i)
          \/ \E role \in Roles : SetRole(i, role) \/ \E password \in BOOLEAN : CreateUser(i, role, password)
    \/ SyncWrite

AccountSpec == AccountInit /\ [][AccountNext]_accountVars

(***************************************************************************)
(* Properties                                                              *)
(***************************************************************************)
\* When the authenticator of an account is replaced, or taken off by an
\* administrator, the sessions it had then are refused, whatever was asked,
\* written or signed in meanwhile (auth.py revoke_other_sessions, app.py
\* admin_users_reset_mfa); only the session that made the replacement stays.
\* Not refused is one whose request cannot read the account (auth.py 579-582),
\* and none is until the moment is written, which comes after the
\* authenticator in a transaction of its own: never, when the request ends
\* between the two, or when two such requests of one account overlap.  A
\* request that had checked its proof by then may still begin a session, and
\* one that was confirming leaves a session without an account: those have
\* no account session to end.
OldSessionsEnd ==
    \A b \in Browsers, unread \in BOOLEAN :
        SessionAccepted(b, unread) /\ cookie[b].old => unread \/ cookie[b].id \in owed

\* An account holds the role it was last given: a directory's update that
\* names none does not change it, unless one was given between its read and
\* its write; and no token is worth more (scim.py, api_tokens.py).
RoleAsSaid ==
    \A i \in Ids : Exists(i) =>
        /\ users[i].role = said[i]
        /\ TokenRole(i) # NoApiToken => Rank[TokenRole(i)] <= Rank[said[i]]

\* An authenticator is put in the place of another only by a session that
\* gave a code of one the account had, whichever browser began its setup
\* first; two first setups that are confirmed at the same moment excepted
\* (app.py account_mfa_confirm).
ReplacedOnProof ==
    [][\A i \in Ids :
          users[i].secret # NoSecret /\ users'[i].secret \notin {NoSecret, users[i].secret} =>
              \E b \in Browsers :
                  /\ asking[b].step = "confirm" /\ asking[b].id = i /\ cookie[b].setup = users'[i].secret
                  /\ cookie[b].proved # NoSecret \/ asking[b].late]_accountVars
=============================================================================
