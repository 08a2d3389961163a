------------------------------ MODULE Identities ------------------------------
(***************************************************************************)
(* Who may act: accounts, human sessions and service tokens.  The tables   *)
(* are users with local_accounts, auth_sessions and service_tokens         *)
(* (auth.py, db.py), changed by logins, requests and administrators        *)
(* (server.py), the directory synchronisation (ldap_sync.py), maintenance  *)
(* and restarts, possibly with the other authentication backend.           *)
(*                                                                         *)
(* A password is the number of times the account's password was set: every *)
(* setting draws a salt, so no two hashes are equal.  The directory, the   *)
(* password a login presents and the passing of time are left open.  Which *)
(* entrance (zone) a session is bound to is left out: presenting it at     *)
(* another one changes nothing.                                            *)
(***************************************************************************)
EXTENDS Naturals, FiniteSets

CONSTANTS Names,            \* the usernames that occur
          NoName,           \* no username
          Threads,          \* the request threads busy with a login
          BootstrapAdmins,  \* SFSS_BOOTSTRAP_ADMINS
          FallbackAdmins,   \* SFSS_LDAP_FALLBACK_ADMIN: at most one name
          FailureLimit,     \* failed logins after which an address has to wait
          MaxPerUser,       \* max_sessions_per_user
          MaxPasswords,     \* bound of the model: settings of one password
          MaxSessions,      \* bound of the model: sessions ever issued
          MaxTokens         \* bound of the model: service tokens ever issued

ASSUME IdentityConstants ==
  /\ NoName \notin Names
  /\ IsFiniteSet(Threads)
  /\ FailureLimit \in Nat \ {0}
  /\ MaxPerUser \in Nat \ {0}   \* max(1, max_sessions_per_user)
  /\ MaxPasswords \in Nat \ {0} /\ MaxSessions \in Nat /\ MaxTokens \in Nat

VARIABLES users,     \* users, each with its row of local_accounts
          sessions,  \* auth_sessions, in the order of their rowids
          tokens,    \* service_tokens
          failures,  \* failed_logins: failures in the last 300 s, in memory
          logins,    \* the login handler in each thread
          request,   \* a request that presents a session
          mint,      \* the owner a token is being issued to
          sync,      \* a synchronisation between the directory and the database
          backend    \* SFSS_AUTH_BACKEND of the running process

vars == <<users, sessions, tokens, failures, logins, request, mint, sync, backend>>
credentials == <<users, sessions, tokens>>
handlers == <<failures, logins, request, mint, sync>>

SessionIds == 1..MaxSessions
TokenIds == 1..MaxTokens
Backends == {"local", "ldap"}

\* password 0: no row in local_accounts; localOn: its `enabled`.
User == [kind: {"absent", "human", "service"}, enabled: BOOLEAN, admin: BOOLEAN,
         synced: BOOLEAN, password: 0..MaxPasswords, localOn: BOOLEAN]

NoUser == [kind |-> "absent", enabled |-> FALSE, admin |-> FALSE,
           synced |-> FALSE, password |-> 0, localOn |-> FALSE]

Human(adm) == [NoUser EXCEPT !.kind = "human", !.enabled = TRUE, !.admin = adm]

\* lapsed: "idle" and "expired" say which deadline has passed.  created stands
\* for created_at, drawn before the insertion.  verified is history: the password
\* the login verified, 0 under LDAP.
Session == [state: {"unused", "live", "revoked", "purged"},
            name: Names \cup {NoName}, backend: Backends, created: Nat,
            lapsed: {"no", "idle", "expired"},
            verified: 0..MaxPasswords]

NoSession == [state |-> "unused", name |-> NoName, backend |-> "local", created |-> 0,
              lapsed |-> "no", verified |-> 0]

Token == [state: {"unused", "live", "revoked"}, name: Names \cup {NoName}]

NoToken == [state |-> "unused", name |-> NoName]

\* pc "admitted": past the failure check; "verified": the password is right;
\* "refused", "issued": the outcome is yet to be counted.
Login == [pc: {"idle", "admitted", "verified", "refused", "issued"},
          name: Names \cup {NoName}, password: 0..MaxPasswords,
          fallback: BOOLEAN, created: Nat]

NoLogin == [pc |-> "idle", name |-> NoName, password |-> 0, fallback |-> FALSE,
            created |-> 0]

NoRequest == [pc |-> "none", session |-> 0]
NoSync == [pc |-> "idle", seen |-> {}, missing |-> {}]

Issued == {i \in SessionIds : sessions[i].state # "unused"}
NextSession == Cardinality(Issued) + 1
Minted == {i \in TokenIds : tokens[i].state # "unused"}

\* store.ensure_user, and at LDAP logins the same upsert: a new name becomes an
\* enabled human, an old one keeps all but a missing grant.
Ensure(u, adm) == IF u.kind = "absent" THEN Human(adm) ELSE [u EXCEPT !.admin = @ \/ adm]

\* What a local start adds for a name it is configured with.
Seed(u, adm) ==
  LET e == Ensure(u, adm)
  IN IF e.password = 0 THEN [e EXCEPT !.password = 1, !.localOn = TRUE] ELSE e

\* A start of the service, seeded being the names of SFSS_DEV_USERS and
\* SFSS_LOCAL_CREDENTIALS, which may change from one start to the next.
Started(table, b, seeded) ==
  [n \in Names |->
     IF b = "local" /\ n \in seeded THEN Seed(table[n], n \in BootstrapAdmins)
     ELSE IF b = "ldap" /\ n \in BootstrapAdmins THEN Ensure(table[n], TRUE)
     ELSE table[n]]

Init ==
  /\ backend \in Backends
  /\ \E seeded \in SUBSET Names : users = Started([n \in Names |-> NoUser], backend, seeded)
  /\ sessions = [i \in SessionIds |-> NoSession]
  /\ tokens = [i \in TokenIds |-> NoToken]
  /\ failures = [n \in Names |-> 0]
  /\ logins = [t \in Threads |-> NoLogin]
  /\ request = NoRequest
  /\ mint = NoName
  /\ sync = NoSync

------------------------------------------------------------------------------
(* Revocation: UPDATE auth_sessions / service_tokens SET revoked=1.  Of a   *)
(* revoked row nothing but that it is revoked is ever read again.          *)

Revoked(s) ==
  IF s.state = "live" THEN [NoSession EXCEPT !.state = "revoked"] ELSE s

RevokedToken(k) == IF k.state = "live" THEN [NoToken EXCEPT !.state = "revoked"] ELSE k

EndSessions(S) ==
  [i \in SessionIds |-> IF i \in S THEN Revoked(sessions[i]) ELSE sessions[i]]

EndTokens(n) ==
  [i \in TokenIds |-> IF tokens[i].name = n THEN RevokedToken(tokens[i]) ELSE tokens[i]]

SessionsOf(n) == {i \in Issued : sessions[i].name = n}

------------------------------------------------------------------------------
(* Logging in: POST /v1/auth/login.                                        *)

\* Mutant: one failure more than the limit.
AdmitOneMore(t, n) ==
  /\ logins[t].pc = "idle"
  /\ failures[n] <= FailureLimit
  /\ logins' = [logins EXCEPT ![t] = [NoLogin EXCEPT !.pc = "admitted", !.name = n]]
  /\ UNCHANGED <<credentials, failures, request, mint, sync, backend>>

\* The failures are counted under a lock that is released before the password
\* is looked at.
Admit(t, n) ==
  /\ logins[t].pc = "idle"
  /\ failures[n] < FailureLimit
  /\ logins' = [logins EXCEPT ![t] = [NoLogin EXCEPT !.pc = "admitted", !.name = n]]
  /\ UNCHANGED <<credentials, failures, request, mint, sync, backend>>

LocalLoginAllowed(n) ==
  /\ users[n].kind = "human" /\ users[n].enabled
  /\ users[n].password # 0 /\ users[n].localOn

\* The account is read and the presented password is the one it has.
VerifyLocal(t) ==
  /\ backend = "local"
  /\ logins[t].pc = "admitted"
  /\ LocalLoginAllowed(logins[t].name)
  /\ logins' = [logins EXCEPT ![t].pc = "verified",
                              ![t].password = users[logins[t].name].password,
                              ![t].created = NextSession]
  /\ UNCHANGED <<credentials, failures, request, mint, sync, backend>>

\* _bind: the directory accepts the password of a name this service knows
\* nothing against.
VerifyDirectory(t) ==
  /\ backend = "ldap"
  /\ logins[t].pc = "admitted"
  /\ LET u == users[logins[t].name]
     IN u.kind = "absent" \/ (u.kind = "human" /\ u.enabled)
  /\ logins' = [logins EXCEPT ![t].pc = "verified", ![t].created = NextSession]
  /\ UNCHANGED <<credentials, failures, request, mint, sync, backend>>

\* _verify_fallback: the break-glass administrator, against its local account
\* or, without one and outside production, the configured password.
VerifyFallback(t) ==
  /\ backend = "ldap"
  /\ logins[t].pc = "admitted"
  /\ logins[t].name \in FallbackAdmins
  /\ \/ users[logins[t].name].password = 0
     \/ LocalLoginAllowed(logins[t].name)
  /\ logins' = [logins EXCEPT ![t].pc = "verified", ![t].fallback = TRUE,
                              ![t].created = NextSession]
  /\ UNCHANGED <<credentials, failures, request, mint, sync, backend>>

\* A wrong password, an account that may not log in, a directory that is down.
RefuseLogin(t) ==
  /\ logins[t].pc = "admitted"
  /\ logins' = [logins EXCEPT ![t].pc = "refused"]
  /\ UNCHANGED <<credentials, failures, request, mint, sync, backend>>

\* Mutant: the insertion is not bound to the password that was verified.
CurrentUserOnly(u, l) == u.kind = "human" /\ u.enabled /\ (backend = "local" => u.localOn)

\* The rows INSERT INTO auth_sessions ... SELECT finds: the name is an enabled
\* human now and, under the local backend, has the password that was verified.
StillEntitled(u, l) ==
  /\ u.kind = "human" /\ u.enabled
  /\ backend = "local" => u.localOn /\ u.password = l.password

\* ORDER BY created_at DESC, rowid DESC.
Newer(table, i, k) ==
  \/ table[i].created > table[k].created
  \/ table[i].created = table[k].created /\ i > k

\* Mutant: the eviction leaves one session too many.
EvictedTooLate(table, n) ==
  LET Live == {i \in SessionIds : /\ table[i].state = "live" /\ table[i].name = n
                                  /\ table[i].backend = backend}
  IN {i \in Live : Cardinality({k \in Live : Newer(table, k, i)}) > MaxPerUser}

\* The live sessions of the name beyond the newest MaxPerUser.
Evicted(table, n) ==
  LET Live == {i \in SessionIds : /\ table[i].state = "live" /\ table[i].name = n
                                  /\ table[i].backend = backend}
  IN {i \in Live : Cardinality({k \in Live : Newer(table, k, i)}) >= MaxPerUser}

\* PersistentSessions.issue, one transaction: the upsert of an LDAP login, the
\* guarded insertion and the eviction; without the row all of it is undone.
Issue(t) ==
  /\ logins[t].pc = "verified"
  /\ LET l == logins[t]
         n == l.name
         u == IF backend = "ldap"
              THEN Ensure(users[n], l.fallback \/ n \in BootstrapAdmins) ELSE users[n]
     IN IF StillEntitled(u, l)
        THEN /\ NextSession \in SessionIds
             /\ users' = [users EXCEPT ![n] = u]
             /\ LET table == [sessions EXCEPT ![NextSession] =
                                [state |-> "live", name |-> n, backend |-> backend,
                                 created |-> l.created, lapsed |-> "no",
                                 verified |-> l.password]]
                IN sessions' = [i \in SessionIds |->
                                  IF i \in Evicted(table, n) THEN Revoked(table[i])
                                  ELSE table[i]]
             /\ logins' = [logins EXCEPT ![t].pc = "issued"]
        ELSE /\ logins' = [logins EXCEPT ![t].pc = "refused"]
             /\ UNCHANGED <<users, sessions>>
  /\ UNCHANGED <<tokens, failures, request, mint, sync, backend>>

CountFailure(t) ==
  /\ logins[t].pc = "refused"
  /\ failures' = [failures EXCEPT ![logins[t].name] = @ + 1]
  /\ logins' = [logins EXCEPT ![t] = NoLogin]
  /\ UNCHANGED <<credentials, request, mint, sync, backend>>

ClearFailures(t) ==
  /\ logins[t].pc = "issued"
  /\ failures' = [failures EXCEPT ![logins[t].name] = 0]
  /\ logins' = [logins EXCEPT ![t] = NoLogin]
  /\ UNCHANGED <<credentials, request, mint, sync, backend>>

\* The oldest failure is 300 seconds old.
ForgetFailure(n) ==
  /\ failures[n] > 0
  /\ failures' = [failures EXCEPT ![n] = @ - 1]
  /\ UNCHANGED <<credentials, logins, request, mint, sync, backend>>

------------------------------------------------------------------------------
(* Presenting a session: PersistentSessions.authenticate reads the row, and *)
(* writes to it in a statement of its own.                                 *)

Usable(i) ==
  LET s == sessions[i]
  IN /\ s.state = "live" /\ s.backend = backend /\ s.lapsed = "no"
     /\ users[s.name].enabled /\ users[s.name].kind = "human"

Present(i) ==
  /\ request.pc = "none"
  /\ sessions[i].state \in {"live", "revoked"}
  /\ request' = [pc |-> IF Usable(i) THEN "accepted" ELSE "refused", session |-> i]
  /\ UNCHANGED <<credentials, failures, logins, mint, sync, backend>>

\* last_seen_at = now.
Touch ==
  /\ request.pc = "accepted"
  /\ sessions' = [sessions EXCEPT ![request.session].lapsed = IF @ = "idle" THEN "no" ELSE @]
  /\ request' = [request EXCEPT !.pc = "serving"]
  /\ UNCHANGED <<users, tokens, failures, logins, mint, sync, backend>>

\* A session that is refused is revoked, whatever it was refused for.
RevokeRefused ==
  /\ request.pc = "refused"
  /\ sessions' = [sessions EXCEPT ![request.session] = Revoked(@)]
  /\ request' = NoRequest
  /\ UNCHANGED <<users, tokens, failures, logins, mint, sync, backend>>

Serve ==
  /\ request.pc = "serving"
  /\ request' = NoRequest
  /\ UNCHANGED <<credentials, failures, logins, mint, sync, backend>>

Logout ==
  /\ request.pc = "serving"
  /\ sessions' = EndSessions({request.session})
  /\ request' = NoRequest
  /\ UNCHANGED <<users, tokens, failures, logins, mint, sync, backend>>

\* identity_record after an LDAP Basic authentication: a name that is new to the
\* service becomes an account.
AuthenticateBasic(n) ==
  /\ backend = "ldap"
  /\ users[n].kind = "absent"
  /\ users' = [users EXCEPT ![n] = Ensure(@, FALSE)]
  /\ UNCHANGED <<sessions, tokens, handlers, backend>>

\* The idle or the absolute deadline of a session passes.
Lapse(i) ==
  /\ sessions[i].state = "live"
  /\ \/ sessions[i].lapsed = "no" /\ sessions' = [sessions EXCEPT ![i].lapsed = "idle"]
     \/ sessions[i].lapsed # "expired" /\ sessions' = [sessions EXCEPT ![i].lapsed = "expired"]
  /\ UNCHANGED <<users, tokens, handlers, backend>>

------------------------------------------------------------------------------
(* The administrator.  What these handlers read beforehand, that the name   *)
(* exists and of which kind it is, no other operation changes.             *)

\* POST users, with the local backend.
CreateUser(n, adm) ==
  /\ backend = "local"
  /\ users[n].kind = "absent"
  /\ users' = [users EXCEPT ![n] = [Human(adm) EXCEPT !.password = 1, !.localOn = TRUE]]
  /\ UNCHANGED <<sessions, tokens, handlers, backend>>

\* The account with any of a new password, `enabled` and `global_admin`.
Updated(u, reset, enabled, admin) ==
  [u EXCEPT !.password = IF reset THEN @ + 1 ELSE @,
            !.enabled = IF enabled = {} THEN @ ELSE TRUE \in enabled,
            !.localOn = IF enabled = {} THEN @ ELSE TRUE \in enabled,
            !.admin = IF admin = {} THEN @ ELSE TRUE \in admin]

\* PUT users/<name>, in one transaction with the revocations.
UpdateUser(n, reset, enabled, admin) ==
  /\ backend = "local"
  /\ users[n].kind = "human" /\ users[n].password # 0
  /\ reset \/ enabled # {} \/ admin # {}
  /\ reset => users[n].password < MaxPasswords
  /\ users' = [users EXCEPT ![n] = Updated(@, reset, enabled, admin)]
  /\ sessions' = IF reset \/ enabled = {FALSE} THEN EndSessions(SessionsOf(n)) ELSE sessions
  /\ tokens' = IF enabled = {FALSE} THEN EndTokens(n) ELSE tokens
  /\ UNCHANGED <<handlers, backend>>

CreateService(n) ==
  /\ users[n].kind = "absent"
  /\ users' = [users EXCEPT ![n] = [NoUser EXCEPT !.kind = "service", !.enabled = TRUE]]
  /\ UNCHANGED <<sessions, tokens, handlers, backend>>

UpdateService(n, enabled) ==
  /\ users[n].kind = "service"
  /\ users' = [users EXCEPT ![n].enabled = enabled]
  /\ tokens' = IF enabled THEN tokens ELSE EndTokens(n)
  /\ sessions' = IF enabled THEN sessions ELSE EndSessions(SessionsOf(n))
  /\ UNCHANGED <<handlers, backend>>

\* POST users/<name>/revoke-sessions
RevokeSessions(n) ==
  /\ users[n].kind = "human"
  /\ sessions' = EndSessions(SessionsOf(n))
  /\ UNCHANGED <<users, tokens, handlers, backend>>

\* POST sessions/revoke-all
RevokeAll ==
  /\ sessions' = EndSessions(Issued)
  /\ UNCHANGED <<users, tokens, handlers, backend>>

\* POST service-tokens: the owner is looked up ...
CheckOwner(n) ==
  /\ mint = NoName
  /\ users[n].kind = "service" /\ users[n].enabled
  /\ mint' = n
  /\ UNCHANGED <<credentials, failures, logins, request, sync, backend>>

\* Mutant: INSERT ... VALUES after the check.
IssueTokenUnguarded ==
  /\ mint # NoName
  /\ Cardinality(Minted) < MaxTokens
  /\ tokens' = [tokens EXCEPT ![Cardinality(Minted) + 1] =
                  [state |-> "live", name |-> mint]]
  /\ mint' = NoName
  /\ UNCHANGED <<users, sessions, failures, logins, request, sync, backend>>

\* ... and the insertion selects it again.
IssueToken ==
  /\ mint # NoName
  /\ IF users[mint].kind = "service" /\ users[mint].enabled
     THEN /\ Cardinality(Minted) < MaxTokens
          /\ tokens' = [tokens EXCEPT ![Cardinality(Minted) + 1] =
                          [state |-> "live", name |-> mint]]
     ELSE UNCHANGED tokens
  /\ mint' = NoName
  /\ UNCHANGED <<users, sessions, failures, logins, request, sync, backend>>

\* DELETE service-tokens/<id>, or the maintenance run finds it expired.
RevokeToken(i) ==
  /\ tokens[i].state = "live"
  /\ tokens' = [tokens EXCEPT ![i] = RevokedToken(@)]
  /\ UNCHANGED <<users, sessions, handlers, backend>>

------------------------------------------------------------------------------
(* The directory synchronisation: run_ldap_sync.                           *)

\* The directory's answer, and the enabled accounts it once had and has no
\* longer; deprovision_missing may be off.  An empty answer aborts the run:
\* `seen' is its part within Names.
SyncRead(seen) ==
  /\ sync.pc = "idle"
  /\ LET gone == {n \in Names \ seen : /\ users[n].kind = "human" /\ users[n].enabled
                                       /\ users[n].synced /\ ~users[n].admin}
     IN \E missing \in {{}, gone} :
          sync' = [pc |-> "read", seen |-> seen, missing |-> missing]
  /\ UNCHANGED <<credentials, failures, logins, request, mint, backend>>

SyncUpsert(u) ==
  IF u.kind = "absent" THEN [Human(FALSE) EXCEPT !.synced = TRUE]
  ELSE [u EXCEPT !.synced = TRUE, !.enabled = @ \/ (u.kind = "human" /\ ~u.admin)]

SyncDisable(u) ==
  IF u.kind = "human" /\ u.synced /\ ~u.admin THEN [u EXCEPT !.enabled = FALSE] ELSE u

\* One transaction, which revokes nothing.
SyncApply ==
  /\ sync.pc = "read"
  /\ users' = [n \in Names |-> IF n \in sync.seen THEN SyncUpsert(users[n])
                               ELSE IF n \in sync.missing THEN SyncDisable(users[n])
                               ELSE users[n]]
  /\ sync' = NoSync
  /\ UNCHANGED <<sessions, tokens, failures, logins, request, mint, backend>>

------------------------------------------------------------------------------
(* Maintenance and restarts.                                               *)

\* DELETE FROM auth_sessions WHERE revoked=1 OR expires_at<=now.
PurgeSessions ==
  LET due == {i \in SessionIds : \/ sessions[i].state = "revoked"
                                 \/ sessions[i].lapsed = "expired"}
  IN /\ due # {}
     /\ sessions' = [i \in SessionIds |->
                       IF i \in due THEN [NoSession EXCEPT !.state = "purged"] ELSE sessions[i]]
     /\ UNCHANGED <<users, tokens, handlers, backend>>

\* Mutant: the sessions of the other backend stay as they are.
ForeignKept(b) == sessions

\* UPDATE auth_sessions SET revoked=1 WHERE revoked=0 AND auth_backend!=?
ForeignRevoked(b) == EndSessions({i \in Issued : sessions[i].backend # b})

\* The process ends and starts, perhaps with the other backend.  A name that is
\* configured as a person and belongs to a service identity stops a local start;
\* a start that production refuses is none.
Restart(b, seeded) ==
  /\ b = "local" => \A n \in seeded : users[n].kind # "service"
  /\ backend' = b
  /\ sessions' = ForeignRevoked(b)
  /\ users' = Started(users, b, seeded)
  /\ failures' = [n \in Names |-> 0]
  /\ logins' = [t \in Threads |-> NoLogin]
  /\ request' = NoRequest
  /\ mint' = NoName
  /\ sync' = NoSync
  /\ UNCHANGED tokens

------------------------------------------------------------------------------

\* A JSON field that may be missing.
MaybeBoolean == {{}, {TRUE}, {FALSE}}

LoginStep(t) ==
  \/ \E n \in Names : Admit(t, n)
  \/ VerifyLocal(t) \/ VerifyDirectory(t) \/ VerifyFallback(t) \/ RefuseLogin(t)
  \/ Issue(t) \/ CountFailure(t) \/ ClearFailures(t)

RequestStep ==
  \/ \E i \in SessionIds : Present(i) \/ Lapse(i)
  \/ \E n \in Names : AuthenticateBasic(n)
  \/ Touch \/ RevokeRefused \/ Serve \/ Logout

AdminStep ==
  \/ \E n \in Names :
       \/ \E adm \in BOOLEAN : CreateUser(n, adm)
       \/ \E reset \in BOOLEAN, enabled, admin \in MaybeBoolean :
            UpdateUser(n, reset, enabled, admin)
       \/ CreateService(n) \/ RevokeSessions(n) \/ CheckOwner(n)
       \/ \E enabled \in BOOLEAN : UpdateService(n, enabled)
  \/ IssueToken \/ RevokeAll
  \/ \E i \in TokenIds : RevokeToken(i)

SystemStep ==
  \/ \E n \in Names : ForgetFailure(n)
  \/ \E seen \in SUBSET Names : SyncRead(seen)
  \/ SyncApply \/ PurgeSessions
  \/ \E b \in Backends, seeded \in SUBSET Names : Restart(b, seeded)

Next == (\E t \in Threads : LoginStep(t)) \/ RequestStep \/ AdminStep \/ SystemStep

Spec == Init /\ [][Next]_vars

------------------------------------------------------------------------------
(* Properties.                                                             *)

TypeOK ==
  /\ users \in [Names -> User]
  /\ sessions \in [SessionIds -> Session]
  /\ tokens \in [TokenIds -> Token]
  /\ failures \in [Names -> Nat]
  /\ logins \in [Threads -> Login]
  /\ request \in [pc: {"none", "accepted", "refused", "serving"}, session: 0..MaxSessions]
  /\ mint \in Names \cup {NoName}
  /\ sync \in [pc: {"idle", "read"}, seen: SUBSET Names, missing: SUBSET Names]
  /\ backend \in Backends

\* `Local mode additionally binds the insertion predicate to the exact verified
\* password hash generation, closing disable/reset-after-verification races'
\* (THREAT_MODEL.md): no live local session rests on a password that has been
\* replaced, however the login and the reset interleave.
NoStaleCredential ==
  \A i \in SessionIds :
    (sessions[i].state = "live" /\ sessions[i].backend = "local")
      => sessions[i].verified = users[sessions[i].name].password

\* `Logout, account disable, password reset ... revoke access' (THREAT_MODEL.md),
\* for good: an account that an administrator disabled, or a service started
\* with the other backend, leaves no live session behind for a later enabling,
\* synchronisation or start to make usable again.  (A synchronisation that
\* disables an account clears only users.enabled and revokes nothing.)
NoSessionOutlivesItsGrounds ==
  \A i \in SessionIds :
    sessions[i].state = "live" =>
      /\ sessions[i].backend = backend
      /\ users[sessions[i].name].kind = "human"
      /\ sessions[i].backend = "local" => users[sessions[i].name].localOn

\* The cap on concurrent sessions holds between any two steps of any number of
\* concurrent logins, for each backend.
SessionCap ==
  \A n \in Names, b \in Backends :
    Cardinality({i \in SessionIds : /\ sessions[i].state = "live" /\ sessions[i].name = n
                                    /\ sessions[i].backend = b}) <= MaxPerUser

\* Disabling a service identity ends its tokens for good, also one whose issue
\* had already checked the owner.
TokensDieWithTheirOwner ==
  \A i \in TokenIds :
    tokens[i].state = "live" =>
      users[tokens[i].name].kind = "service" /\ users[tokens[i].name].enabled

\* Checking and counting failures are two critical sections, so concurrent
\* logins can exceed the limit, but never by more than one less than their number.
FailuresBounded ==
  \A n \in Names :
    failures[n] + Cardinality({t \in Threads : /\ logins[t].name = n
                                               /\ logins[t].pc # "idle"})
      <= FailureLimit + Cardinality(Threads) - 1
==============================================================================
