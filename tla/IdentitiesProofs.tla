--------------------------- MODULE IdentitiesProofs ---------------------------
(***************************************************************************)
(* Theorems about accounts, sessions and tokens, for every number of       *)
(* names, threads, passwords, sessions and tokens.  Every theorem follows  *)
(* from one inductive invariant, IdentityInv: the three credential         *)
(* invariants are not inductive apart, nor without what a login in flight  *)
(* has verified.                                                           *)
(***************************************************************************)
EXTENDS Identities, FiniteSetTheorems, WellFoundedInduction, TLAPS

\* What a login in flight carries: a name, and under the local backend the
\* password it verified, which is not the 0 of an account without one.
LoginsGrounded ==
  \A t \in Threads :
    logins[t].pc # "idle" =>
      /\ logins[t].name \in Names
      /\ logins[t].pc = "verified" /\ backend = "local" => logins[t].password # 0

\* What a live session rests on.
SessionsGrounded ==
  \A i \in SessionIds :
    sessions[i].state = "live" =>
      /\ sessions[i].name \in Names
      /\ sessions[i].backend = backend
      /\ users[sessions[i].name].kind = "human"
      /\ backend = "local" =>
           /\ users[sessions[i].name].localOn
           /\ sessions[i].verified = users[sessions[i].name].password
           /\ sessions[i].verified # 0

\* What a live token rests on.
TokensGrounded ==
  \A i \in TokenIds :
    tokens[i].state = "live" =>
      /\ tokens[i].name \in Names
      /\ users[tokens[i].name].kind = "service"
      /\ users[tokens[i].name].enabled

IdentityInv == TypeOK /\ LoginsGrounded /\ SessionsGrounded /\ TokensGrounded

------------------------------------------------------------------------------
(* What the values are: one lemma for each kind of row.                     *)

\* Every account a step writes is one, and so is an account with any field set.
LEMMA UserTyped ==
  ASSUME NEW u \in User, NEW b \in BOOLEAN, NEW p \in 0..MaxPasswords
  PROVE  /\ [u EXCEPT !.admin = b] \in User
         /\ [u EXCEPT !.enabled = b] \in User
         /\ [u EXCEPT !.password = p, !.localOn = b] \in User
         /\ [u EXCEPT !.synced = b] \in User
<1>1. [u EXCEPT !.admin = b] \in User
  BY DEF User
<1>2. [u EXCEPT !.enabled = b] \in User
  BY DEF User
<1>3. [u EXCEPT !.password = p, !.localOn = b] \in User
  BY DEF User
<1>4. [u EXCEPT !.synced = b] \in User
  BY DEF User
<1>5. QED
  BY <1>1, <1>2, <1>3, <1>4

LEMMA NewUserTyped ==
  ASSUME NEW b \in BOOLEAN
  PROVE  /\ NoUser \in User
         /\ Human(b) \in User /\ Human(b).kind = "human" /\ Human(b).password = 0
         /\ [NoUser EXCEPT !.kind = "service", !.enabled = TRUE] \in User
<1>1. 0 \in 0..MaxPasswords
  BY IdentityConstants
<1>2. NoUser \in User
  BY <1>1 DEF NoUser, User
<1>3. Human(b) \in User /\ Human(b).kind = "human" /\ Human(b).password = 0
  BY <1>1 DEF Human, NoUser, User
<1>4. [NoUser EXCEPT !.kind = "service", !.enabled = TRUE] \in User
  BY <1>1 DEF NoUser, User
<1>5. QED
  BY <1>2, <1>3, <1>4

\* An existing account keeps its kind, its password once it has one, a local
\* login that is allowed, and as a service identity that it is enabled.
Keeps(u, v) ==
  u.kind # "absent" =>
    /\ v.kind = u.kind
    /\ u.localOn => v.localOn
    /\ u.password # 0 => v.password = u.password
    /\ u.kind = "service" /\ u.enabled => v.enabled

LEMMA EnsureKeeps ==
  ASSUME NEW u \in User, NEW adm \in BOOLEAN
  PROVE  Ensure(u, adm) \in User /\ Keeps(u, Ensure(u, adm))
<1>1. CASE u.kind = "absent"
  BY <1>1, NewUserTyped DEF Ensure, Keeps
<1>2. CASE u.kind # "absent"
  <2>1. Ensure(u, adm) = [u EXCEPT !.admin = u.admin \/ adm]
    BY <1>2 DEF Ensure
  <2>2. (u.admin \/ adm) \in BOOLEAN
    OBVIOUS
  <2>3. Ensure(u, adm) \in User
    BY <2>1, <2>2 DEF User
  <2>4. /\ Ensure(u, adm).kind = u.kind
        /\ Ensure(u, adm).enabled = u.enabled
        /\ Ensure(u, adm).password = u.password
        /\ Ensure(u, adm).localOn = u.localOn
    BY <2>1 DEF User
  <2>5. QED
    BY <2>3, <2>4 DEF Keeps
<1>3. QED
  BY <1>1, <1>2

LEMMA SeedKeeps ==
  ASSUME NEW u \in User, NEW adm \in BOOLEAN
  PROVE  Seed(u, adm) \in User /\ Keeps(u, Seed(u, adm))
<1> DEFINE e == Ensure(u, adm)
<1>1. e \in User /\ Keeps(u, e)
  BY EnsureKeeps
<1>2. 1 \in 0..MaxPasswords
  BY IdentityConstants
<1>3. CASE e.password = 0
  <2>1. Seed(u, adm) = [e EXCEPT !.password = 1, !.localOn = TRUE]
    BY <1>3 DEF Seed
  <2>2. Seed(u, adm) \in User
    BY <1>1, <1>2, <2>1, UserTyped
  <2>3. /\ Seed(u, adm).kind = e.kind
        /\ Seed(u, adm).enabled = e.enabled
        /\ Seed(u, adm).localOn
    BY <1>1, <2>1 DEF User
  <2>4. u.kind # "absent" => u.password = 0
    BY <1>1, <1>3 DEF Keeps
  <2>5. QED
    BY <1>1, <2>2, <2>3, <2>4 DEF Keeps
<1>4. CASE e.password # 0
  BY <1>1, <1>4 DEF Seed
<1>5. QED
  BY <1>3, <1>4

LEMMA SyncKeeps ==
  ASSUME NEW u \in User
  PROVE  /\ SyncUpsert(u) \in User /\ Keeps(u, SyncUpsert(u))
         /\ SyncDisable(u) \in User /\ Keeps(u, SyncDisable(u))
<1>1. CASE u.kind = "absent"
  <2>1. Human(FALSE) \in User
    BY NewUserTyped
  <2>2. [Human(FALSE) EXCEPT !.synced = TRUE] \in User
    BY <2>1 DEF User
  <2>3. QED
    BY <1>1, <2>2 DEF SyncUpsert, SyncDisable, Keeps
<1>2. CASE u.kind # "absent"
  <2>1. SyncUpsert(u) \in User /\ Keeps(u, SyncUpsert(u))
    BY <1>2 DEF SyncUpsert, Keeps, User
  <2>2. SyncDisable(u) \in User /\ Keeps(u, SyncDisable(u))
    BY <1>2 DEF SyncDisable, Keeps, User
  <2>3. QED
    BY <2>1, <2>2
<1>3. QED
  BY <1>1, <1>2

\* Starting the service keeps every account.
LEMMA StartedKeeps ==
  ASSUME NEW table \in [Names -> User], NEW b, NEW seeded
  PROVE  /\ Started(table, b, seeded) \in [Names -> User]
         /\ \A n \in Names : Keeps(table[n], Started(table, b, seeded)[n])
<1>1. ASSUME NEW n \in Names
      PROVE  /\ Started(table, b, seeded)[n] \in User
             /\ Keeps(table[n], Started(table, b, seeded)[n])
  <2>1. (n \in BootstrapAdmins) \in BOOLEAN
    OBVIOUS
  <2>2. Keeps(table[n], table[n])
    BY DEF Keeps
  <2>3. \/ Started(table, b, seeded)[n] = Seed(table[n], n \in BootstrapAdmins)
        \/ Started(table, b, seeded)[n] = Ensure(table[n], TRUE)
        \/ Started(table, b, seeded)[n] = table[n]
    BY DEF Started
  <2>4. QED
    BY <2>1, <2>2, <2>3, SeedKeeps, EnsureKeeps
<1>2. QED
  BY <1>1 DEF Started

\* Revocation.
LEMMA RevokedTyped ==
  ASSUME NEW s \in Session
  PROVE  /\ Revoked(s) \in Session /\ Revoked(s).state # "live"
         /\ NoSession \in Session
         /\ [NoSession EXCEPT !.state = "purged"] \in Session
<1>1. 0 \in 0..MaxPasswords
  BY IdentityConstants
<1>2. NoSession \in Session
  BY <1>1 DEF NoSession, Session, Backends
<1>3. [NoSession EXCEPT !.state = "purged"] \in Session
  BY <1>1 DEF NoSession, Session, Backends
<1>4. [NoSession EXCEPT !.state = "revoked"] \in Session
  BY <1>1 DEF NoSession, Session, Backends
<1>5. QED
  BY <1>2, <1>3, <1>4 DEF Revoked, NoSession

LEMMA RevokedTokenTyped ==
  ASSUME NEW k \in Token
  PROVE  /\ RevokedToken(k) \in Token /\ RevokedToken(k).state # "live"
         /\ NoToken \in Token
BY DEF RevokedToken, NoToken, Token

\* Ended sessions are not live, the others are as they were.
LEMMA EndSessionsTyped ==
  ASSUME sessions \in [SessionIds -> Session], NEW S
  PROVE  /\ EndSessions(S) \in [SessionIds -> Session]
         /\ \A i \in SessionIds :
              EndSessions(S)[i].state = "live"
                => i \notin S /\ EndSessions(S)[i] = sessions[i]
BY RevokedTyped DEF EndSessions

LEMMA EndTokensTyped ==
  ASSUME tokens \in [TokenIds -> Token], NEW n
  PROVE  /\ EndTokens(n) \in [TokenIds -> Token]
         /\ \A i \in TokenIds :
              EndTokens(n)[i].state = "live"
                => tokens[i].name # n /\ EndTokens(n)[i] = tokens[i]
BY RevokedTokenTyped DEF EndTokens

LEMMA LoginTyped ==
  ASSUME NEW l \in Login, NEW n \in Names, NEW c \in Nat, NEW p \in 0..MaxPasswords,
         NEW q \in {"idle", "admitted", "verified", "refused", "issued"}
  PROVE  /\ NoLogin \in Login
         /\ [NoLogin EXCEPT !.pc = "admitted", !.name = n] \in Login
         /\ [l EXCEPT !.pc = q] \in Login
         /\ [l EXCEPT !.pc = q, !.created = c] \in Login
         /\ [l EXCEPT !.pc = q, !.password = p, !.created = c] \in Login
         /\ [l EXCEPT !.pc = q, !.fallback = TRUE, !.created = c] \in Login
<1>1. 0 \in 0..MaxPasswords
  BY IdentityConstants
<1>2. NoLogin \in Login
  BY <1>1 DEF NoLogin, Login
<1>3. [NoLogin EXCEPT !.pc = "admitted", !.name = n] \in Login
  BY <1>1 DEF NoLogin, Login
<1>4. [l EXCEPT !.pc = q] \in Login
  BY DEF Login
<1>5. [l EXCEPT !.pc = q, !.created = c] \in Login
  BY DEF Login
<1>6. [l EXCEPT !.pc = q, !.password = p, !.created = c] \in Login
  BY DEF Login
<1>7. [l EXCEPT !.pc = q, !.fallback = TRUE, !.created = c] \in Login
  BY DEF Login
<1>8. QED
  BY <1>2, <1>3, <1>4, <1>5, <1>6, <1>7

\* The numbers the next row would get.
LEMMA SlotsCounted ==
  /\ NextSession \in Nat
  /\ Cardinality(Minted) \in Nat
<1>1. IsFiniteSet(SessionIds) /\ IsFiniteSet(TokenIds)
  BY IdentityConstants, FS_Interval DEF SessionIds, TokenIds
<1>2. IsFiniteSet(Issued) /\ IsFiniteSet(Minted)
  BY <1>1, FS_Subset DEF Issued, Minted
<1>3. QED
  BY <1>2, FS_CardinalityType DEF NextSession

------------------------------------------------------------------------------
(* The three shapes of a step.                                             *)

\* Steps that keep accounts and add no session and no token.
SessionsShrink ==
  \A i \in SessionIds :
    sessions'[i].state = "live" =>
      /\ sessions[i].state = "live"
      /\ sessions'[i].name = sessions[i].name
      /\ sessions'[i].backend = sessions[i].backend
      /\ sessions'[i].verified = sessions[i].verified

TokensShrink ==
  \A i \in TokenIds :
    tokens'[i].state = "live" => tokens[i].state = "live" /\ tokens'[i].name = tokens[i].name

LEMMA SessionsStayGrounded ==
  ASSUME TypeOK, SessionsGrounded, SessionsShrink, backend' = backend,
         \A n \in Names : Keeps(users[n], users'[n])
  PROVE  SessionsGrounded'
<1> SUFFICES ASSUME NEW i \in SessionIds, sessions'[i].state = "live"
             PROVE  /\ sessions'[i].name \in Names
                    /\ sessions'[i].backend = backend'
                    /\ users'[sessions'[i].name].kind = "human"
                    /\ backend' = "local" =>
                         /\ users'[sessions'[i].name].localOn
                         /\ sessions'[i].verified = users'[sessions'[i].name].password
                         /\ sessions'[i].verified # 0
  BY DEF SessionsGrounded
<1> DEFINE n == sessions[i].name
<1>1. /\ sessions[i].state = "live" /\ sessions'[i].name = n
      /\ sessions'[i].backend = sessions[i].backend
      /\ sessions'[i].verified = sessions[i].verified
  BY DEF SessionsShrink
<1>2. /\ n \in Names /\ sessions[i].backend = backend /\ users[n].kind = "human"
      /\ backend = "local" => /\ users[n].localOn
                              /\ sessions[i].verified = users[n].password
                              /\ sessions[i].verified # 0
  BY <1>1 DEF SessionsGrounded
<1>3. /\ users'[n].kind = users[n].kind
      /\ users[n].localOn => users'[n].localOn
      /\ users[n].password # 0 => users'[n].password = users[n].password
  BY <1>2 DEF Keeps
<1>4. QED
  BY <1>1, <1>2, <1>3

LEMMA TokensStayGrounded ==
  ASSUME TypeOK, TokensGrounded, TokensShrink,
         \A n \in Names : Keeps(users[n], users'[n])
  PROVE  TokensGrounded'
<1> SUFFICES ASSUME NEW i \in TokenIds, tokens'[i].state = "live"
             PROVE  /\ tokens'[i].name \in Names
                    /\ users'[tokens'[i].name].kind = "service"
                    /\ users'[tokens'[i].name].enabled
  BY DEF TokensGrounded
<1> DEFINE n == tokens[i].name
<1>1. tokens[i].state = "live" /\ tokens'[i].name = n
  BY DEF TokensShrink
<1>2. n \in Names /\ users[n].kind = "service" /\ users[n].enabled
  BY <1>1 DEF TokensGrounded
<1>3. /\ users'[n].kind = users[n].kind
      /\ users[n].kind = "service" /\ users[n].enabled => users'[n].enabled
  BY <1>2 DEF Keeps
<1>4. QED
  BY <1>1, <1>2, <1>3

\* A step that touches accounts, sessions and tokens in this way and no
\* handler preserves the invariant.
LEMMA CredentialStep ==
  ASSUME IdentityInv, SessionsShrink, TokensShrink,
         users' \in [Names -> User], \A n \in Names : Keeps(users[n], users'[n]),
         sessions' \in [SessionIds -> Session], tokens' \in [TokenIds -> Token],
         request' \in [pc: {"none", "accepted", "refused", "serving"},
                       session: 0..MaxSessions],
         sync' \in [pc: {"idle", "read"}, seen: SUBSET Names, missing: SUBSET Names],
         UNCHANGED <<failures, logins, mint, backend>>
  PROVE  IdentityInv'
<1>1. TypeOK'
  BY DEF IdentityInv, TypeOK
<1>2. LoginsGrounded'
  BY DEF IdentityInv, LoginsGrounded
<1>3. SessionsGrounded'
  BY SessionsStayGrounded DEF IdentityInv
<1>4. TokensGrounded'
  BY TokensStayGrounded DEF IdentityInv
<1>5. QED
  BY <1>1, <1>2, <1>3, <1>4 DEF IdentityInv

\* A step of a handler that writes no credential.
LEMMA HandlerStep ==
  ASSUME IdentityInv, UNCHANGED <<credentials, logins, backend>>,
         failures' \in [Names -> Nat],
         request' \in [pc: {"none", "accepted", "refused", "serving"},
                       session: 0..MaxSessions],
         mint' \in Names \cup {NoName},
         sync' \in [pc: {"idle", "read"}, seen: SUBSET Names, missing: SUBSET Names]
  PROVE  IdentityInv'
<1>1. TypeOK'
  BY DEF IdentityInv, TypeOK, credentials
<1>2. LoginsGrounded' /\ SessionsGrounded' /\ TokensGrounded'
  BY DEF IdentityInv, LoginsGrounded, SessionsGrounded, TokensGrounded, credentials
<1>3. QED
  BY <1>1, <1>2 DEF IdentityInv

\* A step of a login that writes no credential.
LEMMA LoginMoves ==
  ASSUME IdentityInv, NEW t \in Threads, NEW l \in Login,
         logins' = [logins EXCEPT ![t] = l],
         l.pc # "idle" =>
           /\ l.name \in Names
           /\ l.pc = "verified" /\ backend = "local" => l.password # 0,
         failures' \in [Names -> Nat],
         UNCHANGED <<credentials, request, mint, sync, backend>>
  PROVE  IdentityInv'
<1>1. TypeOK'
  <2>1. logins' \in [Threads -> Login]
    BY DEF IdentityInv, TypeOK
  <2>2. QED
    BY <2>1 DEF IdentityInv, TypeOK, credentials
<1>2. LoginsGrounded'
  <2> SUFFICES ASSUME NEW k \in Threads, logins'[k].pc # "idle"
               PROVE  /\ logins'[k].name \in Names
                      /\ logins'[k].pc = "verified" /\ backend' = "local"
                           => logins'[k].password # 0
    BY DEF LoginsGrounded
  <2>1. logins \in [Threads -> Login]
    BY DEF IdentityInv, TypeOK
  <2>2. CASE k = t
    BY <2>1, <2>2
  <2>3. CASE k # t
    BY <2>1, <2>3 DEF IdentityInv, LoginsGrounded
  <2>4. QED
    BY <2>2, <2>3
<1>3. SessionsGrounded' /\ TokensGrounded'
  BY DEF IdentityInv, SessionsGrounded, TokensGrounded, credentials
<1>4. QED
  BY <1>1, <1>2, <1>3 DEF IdentityInv

------------------------------------------------------------------------------
(* Each actor preserves the invariant.                                     *)

\* The insertion: the new row rests on what the transaction reads, the account
\* it may create or grant is kept, and the evicted rows end.
LEMMA IssuePreserves ==
  ASSUME IdentityInv, NEW t \in Threads, Issue(t)
  PROVE  IdentityInv'
<1> DEFINE l == logins[t]
           n == l.name
           u == IF backend = "ldap"
                THEN Ensure(users[n], l.fallback \/ n \in BootstrapAdmins) ELSE users[n]
           row == [state |-> "live", name |-> n, backend |-> backend, created |-> l.created,
                   lapsed |-> "no", verified |-> l.password]
           table == [sessions EXCEPT ![NextSession] = row]
<1>1. /\ users \in [Names -> User] /\ sessions \in [SessionIds -> Session]
      /\ logins \in [Threads -> Login] /\ l \in Login /\ backend \in Backends
  BY DEF IdentityInv, TypeOK
<1>2. l.pc = "verified" /\ n \in Names /\ (backend = "local" => l.password # 0)
  BY DEF Issue, IdentityInv, LoginsGrounded
<1>3. u \in User /\ Keeps(users[n], u)
  <2>1. l.fallback \in BOOLEAN
    BY <1>1 DEF Login
  <2>2. (l.fallback \/ n \in BootstrapAdmins) \in BOOLEAN
    OBVIOUS
  <2>3. users[n] \in User /\ Keeps(users[n], users[n])
    BY <1>1, <1>2 DEF Keeps
  <2>4. CASE backend = "ldap"
    BY <2>2, <2>3, <2>4, EnsureKeeps
  <2>5. CASE backend # "ldap"
    BY <2>3, <2>5
  <2>6. QED
    BY <2>4, <2>5
<1>4. CASE StillEntitled(u, l)
  <2>1. /\ NextSession \in SessionIds
        /\ users' = [users EXCEPT ![n] = u]
        /\ sessions' = [i \in SessionIds |->
                          IF i \in Evicted(table, n) THEN Revoked(table[i]) ELSE table[i]]
        /\ logins' = [logins EXCEPT ![t].pc = "issued"]
        /\ UNCHANGED <<tokens, failures, request, mint, sync, backend>>
    BY <1>4 DEF Issue
  <2>2. row \in Session
    BY <1>1, <1>2 DEF Session, Login
  <2>3. table \in [SessionIds -> Session]
    BY <1>1, <2>2
  <2>4. /\ sessions' \in [SessionIds -> Session]
        /\ \A i \in SessionIds : sessions'[i].state = "live" => sessions'[i] = table[i]
    BY <2>1, <2>3, RevokedTyped
  <2>5. users' \in [Names -> User] /\ \A m \in Names : Keeps(users[m], users'[m])
    BY <1>1, <1>3, <2>1 DEF Keeps
  <2>6. [l EXCEPT !.pc = "issued"] \in Login
    BY <1>1 DEF Login
  <2>7. logins' = [logins EXCEPT ![t] = [l EXCEPT !.pc = "issued"]]
    BY <2>1
  <2>8. TypeOK'
    <3>1. logins' \in [Threads -> Login]
      BY <1>1, <2>6, <2>7
    <3>2. QED
      BY <2>1, <2>4, <2>5, <3>1 DEF IdentityInv, TypeOK
  <2>9. LoginsGrounded'
    BY <1>1, <1>2, <2>1 DEF IdentityInv, LoginsGrounded, Login
  <2>10. SessionsGrounded'
    <3> SUFFICES ASSUME NEW i \in SessionIds, sessions'[i].state = "live"
                 PROVE  /\ sessions'[i].name \in Names
                        /\ sessions'[i].backend = backend'
                        /\ users'[sessions'[i].name].kind = "human"
                        /\ backend' = "local" =>
                             /\ users'[sessions'[i].name].localOn
                             /\ sessions'[i].verified = users'[sessions'[i].name].password
                             /\ sessions'[i].verified # 0
      BY DEF SessionsGrounded
    <3>1. CASE i = NextSession
      <4>1. sessions'[i] = row
        BY <1>1, <2>1, <2>4, <3>1
      <4>2. users'[n] = u
        BY <1>1, <1>2, <2>1
      <4>3. u.kind = "human" /\ (backend = "local" => u.localOn /\ u.password = l.password)
        BY <1>4 DEF StillEntitled
      <4>4. QED
        BY <1>2, <2>1, <4>1, <4>2, <4>3
    <3>2. CASE i # NextSession
      <4> DEFINE m == sessions[i].name
      <4>1. sessions'[i] = sessions[i]
        BY <1>1, <2>4, <3>2
      <4>2. /\ m \in Names /\ sessions[i].backend = backend /\ users[m].kind = "human"
            /\ backend = "local" => /\ users[m].localOn
                                    /\ sessions[i].verified = users[m].password
                                    /\ sessions[i].verified # 0
        BY <4>1 DEF IdentityInv, SessionsGrounded
      <4>3. /\ users'[m].kind = users[m].kind
            /\ users[m].localOn => users'[m].localOn
            /\ users[m].password # 0 => users'[m].password = users[m].password
        BY <2>5, <4>2 DEF Keeps
      <4>4. QED
        BY <2>1, <4>1, <4>2, <4>3
    <3>3. QED
      BY <3>1, <3>2
  <2>11. TokensGrounded'
    <3>1. TokensShrink
      BY <2>1 DEF TokensShrink
    <3>2. QED
      BY <2>5, <3>1, TokensStayGrounded DEF IdentityInv
  <2>12. QED
    BY <2>8, <2>9, <2>10, <2>11 DEF IdentityInv
<1>5. CASE ~StillEntitled(u, l)
  <2>1. /\ logins' = [logins EXCEPT ![t].pc = "refused"]
        /\ UNCHANGED <<users, sessions, tokens, failures, request, mint, sync, backend>>
    BY <1>5 DEF Issue
  <2>2. logins' = [logins EXCEPT ![t] = [l EXCEPT !.pc = "refused"]]
    BY <2>1
  <2>3. /\ [l EXCEPT !.pc = "refused"] \in Login
        /\ [l EXCEPT !.pc = "refused"].pc = "refused"
        /\ [l EXCEPT !.pc = "refused"].name = n
    BY <1>1 DEF Login
  <2>4. failures' \in [Names -> Nat]
    BY <2>1 DEF IdentityInv, TypeOK
  <2>5. QED
    BY <1>2, <2>1, <2>2, <2>3, <2>4, LoginMoves DEF credentials
<1>6. QED
  BY <1>4, <1>5

LEMMA LoginPreserves ==
  ASSUME IdentityInv, NEW t \in Threads, LoginStep(t)
  PROVE  IdentityInv'
<1> DEFINE l == logins[t]
<1>1. /\ logins \in [Threads -> Login] /\ l \in Login
      /\ users \in [Names -> User] /\ failures \in [Names -> Nat]
      /\ 0 \in 0..MaxPasswords
  BY IdentityConstants DEF IdentityInv, TypeOK
<1>2. /\ l.pc # "idle" => l.name \in Names
      /\ l.pc = "verified" /\ backend = "local" => l.password # 0
  BY DEF IdentityInv, LoginsGrounded
<1>3. ASSUME NEW n \in Names, Admit(t, n)
      PROVE  IdentityInv'
  <2> DEFINE k == [NoLogin EXCEPT !.pc = "admitted", !.name = n]
  <2>1. k \in Login /\ k.pc = "admitted" /\ k.name = n
    BY <1>1 DEF NoLogin, Login
  <2>2. /\ logins' = [logins EXCEPT ![t] = k] /\ failures' = failures
        /\ UNCHANGED <<credentials, request, mint, sync, backend>>
    BY <1>3 DEF Admit
  <2>3. QED
    BY <1>1, <2>1, <2>2, LoginMoves
<1>4. CASE VerifyLocal(t)
  <2> DEFINE p == users[l.name].password
             k == [l EXCEPT !.pc = "verified", !.password = p, !.created = NextSession]
  <2>1. l.name \in Names /\ p \in 0..MaxPasswords /\ p # 0
    BY <1>1, <1>2, <1>4 DEF VerifyLocal, LocalLoginAllowed, User
  <2>2. k \in Login /\ k.name = l.name /\ k.password = p
    BY <1>1, <2>1, SlotsCounted DEF Login
  <2>3. /\ logins' = [logins EXCEPT ![t] = k] /\ failures' = failures
        /\ UNCHANGED <<credentials, request, mint, sync, backend>>
    BY <1>4 DEF VerifyLocal
  <2>4. QED
    BY <1>1, <2>1, <2>2, <2>3, LoginMoves
<1>5. CASE VerifyDirectory(t)
  <2> DEFINE k == [l EXCEPT !.pc = "verified", !.created = NextSession]
  <2>1. l.name \in Names /\ backend # "local"
    BY <1>2, <1>5 DEF VerifyDirectory
  <2>2. k \in Login /\ k.name = l.name
    BY <1>1, SlotsCounted DEF Login
  <2>3. /\ logins' = [logins EXCEPT ![t] = k] /\ failures' = failures
        /\ UNCHANGED <<credentials, request, mint, sync, backend>>
    BY <1>5 DEF VerifyDirectory
  <2>4. QED
    BY <1>1, <2>1, <2>2, <2>3, LoginMoves
<1>6. CASE VerifyFallback(t)
  <2> DEFINE k == [l EXCEPT !.pc = "verified", !.fallback = TRUE, !.created = NextSession]
  <2>1. l.name \in Names /\ backend # "local"
    BY <1>2, <1>6 DEF VerifyFallback
  <2>2. k \in Login /\ k.name = l.name
    BY <1>1, SlotsCounted DEF Login
  <2>3. /\ logins' = [logins EXCEPT ![t] = k] /\ failures' = failures
        /\ UNCHANGED <<credentials, request, mint, sync, backend>>
    BY <1>6 DEF VerifyFallback
  <2>4. QED
    BY <1>1, <2>1, <2>2, <2>3, LoginMoves
<1>7. CASE RefuseLogin(t)
  <2> DEFINE k == [l EXCEPT !.pc = "refused"]
  <2>1. k \in Login /\ k.name = l.name /\ k.pc = "refused" /\ l.name \in Names
    BY <1>1, <1>2, <1>7 DEF RefuseLogin, Login
  <2>2. /\ logins' = [logins EXCEPT ![t] = k] /\ failures' = failures
        /\ UNCHANGED <<credentials, request, mint, sync, backend>>
    BY <1>7 DEF RefuseLogin
  <2>3. QED
    BY <1>1, <2>1, <2>2, LoginMoves
<1>8. CASE CountFailure(t) \/ ClearFailures(t)
  <2>1. NoLogin \in Login /\ NoLogin.pc = "idle"
    BY <1>1 DEF NoLogin, Login
  <2>2. /\ logins' = [logins EXCEPT ![t] = NoLogin]
        /\ UNCHANGED <<credentials, request, mint, sync, backend>>
        /\ failures' \in [Names -> Nat]
    BY <1>1, <1>2, <1>8 DEF CountFailure, ClearFailures
  <2>3. QED
    BY <2>1, <2>2, LoginMoves
<1>9. QED
  BY <1>3, <1>4, <1>5, <1>6, <1>7, <1>8, IssuePreserves DEF LoginStep

\* Presenting a session, logging out and the passing of time end sessions or
\* leave them as they are; LDAP Basic authentication adds an account.
LEMMA RequestPreserves ==
  ASSUME IdentityInv, RequestStep
  PROVE  IdentityInv'
<1> DEFINE Requests == [pc: {"none", "accepted", "refused", "serving"},
                        session: 0..MaxSessions]
<1>1. /\ users \in [Names -> User] /\ sessions \in [SessionIds -> Session]
      /\ tokens \in [TokenIds -> Token] /\ request \in Requests
      /\ failures \in [Names -> Nat] /\ mint \in Names \cup {NoName}
      /\ sync \in [pc: {"idle", "read"}, seen: SUBSET Names, missing: SUBSET Names]
  BY DEF IdentityInv, TypeOK
<1>2. NoRequest \in Requests
  BY IdentityConstants DEF NoRequest
<1>3. \A n \in Names : Keeps(users[n], users[n])
  BY DEF Keeps
<1>4. ASSUME NEW i \in SessionIds, Present(i)
      PROVE  IdentityInv'
  <2>1. i \in 0..MaxSessions
    BY IdentityConstants DEF SessionIds
  <2>2. request' \in Requests
    BY <1>4, <2>1 DEF Present
  <2>3. QED
    BY <1>1, <1>4, <2>2, HandlerStep DEF Present
<1>5. ASSUME NEW i \in SessionIds, NEW s \in {"no", "idle", "expired"},
             sessions' = [sessions EXCEPT ![i].lapsed = s],
             request' \in Requests,
             UNCHANGED <<users, tokens, failures, logins, mint, sync, backend>>
      PROVE  IdentityInv'
  <2>1. [sessions[i] EXCEPT !.lapsed = s] \in Session
    BY <1>1 DEF Session
  <2>2. sessions' \in [SessionIds -> Session]
    BY <1>1, <1>5, <2>1
  <2>3. SessionsShrink
    BY <1>1, <1>5 DEF SessionsShrink, Session
  <2>4. TokensShrink
    BY <1>5 DEF TokensShrink
  <2>5. QED
    BY <1>1, <1>3, <1>5, <2>2, <2>3, <2>4, CredentialStep
<1>6. ASSUME NEW S, sessions' = EndSessions(S), request' \in Requests,
             UNCHANGED <<users, tokens, failures, logins, mint, sync, backend>>
      PROVE  IdentityInv'
  <2>1. sessions' \in [SessionIds -> Session] /\ SessionsShrink
    BY <1>1, <1>6, EndSessionsTyped DEF SessionsShrink
  <2>2. TokensShrink
    BY <1>6 DEF TokensShrink
  <2>3. QED
    BY <1>1, <1>3, <1>6, <2>1, <2>2, CredentialStep
<1>7. ASSUME NEW i \in SessionIds, Lapse(i)
      PROVE  IdentityInv'
  BY <1>1, <1>5, <1>7 DEF Lapse, handlers
<1>8. CASE Touch
  <2> DEFINE i == request.session
             s == IF sessions[i].lapsed = "idle" THEN "no" ELSE sessions[i].lapsed
  <2>1. /\ sessions' = [sessions EXCEPT ![i].lapsed = s]
        /\ request' = [request EXCEPT !.pc = "serving"]
        /\ UNCHANGED <<users, tokens, failures, logins, mint, sync, backend>>
    BY <1>8 DEF Touch
  <2>2. request' \in Requests
    BY <1>1, <2>1
  <2>3. CASE i \in SessionIds
    <3>1. s \in {"no", "idle", "expired"}
      BY <1>1, <2>3 DEF Session
    <3>2. QED
      BY <1>5, <2>1, <2>2, <2>3, <3>1
  <2>4. CASE i \notin SessionIds
    <3>1. sessions' = sessions
      BY <1>1, <2>1, <2>4
    <3>2. sessions' \in [SessionIds -> Session] /\ SessionsShrink /\ TokensShrink
      BY <1>1, <2>1, <3>1 DEF SessionsShrink, TokensShrink
    <3>3. QED
      BY <1>1, <1>3, <2>1, <2>2, <3>2, CredentialStep
  <2>5. QED
    BY <2>3, <2>4
<1>9. CASE RevokeRefused
  <2> DEFINE i == request.session
  <2>1. /\ sessions' = [sessions EXCEPT ![i] = Revoked(sessions[i])]
        /\ request' = NoRequest
        /\ UNCHANGED <<users, tokens, failures, logins, mint, sync, backend>>
    BY <1>9 DEF RevokeRefused
  <2>2. sessions' = EndSessions({i})
    BY <1>1, <2>1 DEF EndSessions
  <2>3. QED
    BY <1>2, <1>6, <2>1, <2>2
<1>10. CASE Serve
  BY <1>1, <1>2, <1>10, HandlerStep DEF Serve
<1>11. CASE Logout
  BY <1>2, <1>6, <1>11 DEF Logout
<1>12. ASSUME NEW n \in Names, AuthenticateBasic(n)
       PROVE  IdentityInv'
  <2>1. users' = [users EXCEPT ![n] = Ensure(users[n], FALSE)]
    BY <1>12 DEF AuthenticateBasic
  <2>2. users' \in [Names -> User] /\ \A m \in Names : Keeps(users[m], users'[m])
    BY <1>1, <1>3, <2>1, EnsureKeeps
  <2>3. SessionsShrink /\ TokensShrink
    BY <1>12 DEF AuthenticateBasic, SessionsShrink, TokensShrink
  <2>4. QED
    BY <1>1, <1>12, <2>2, <2>3, CredentialStep DEF AuthenticateBasic, handlers
<1>13. QED
  BY <1>4, <1>7, <1>8, <1>9, <1>10, <1>11, <1>12 DEF RequestStep

\* A name without an account has no live session and no live token, so an
\* account created for it keeps what there is to keep.
LEMMA CreationPreserves ==
  ASSUME IdentityInv, NEW n \in Names, NEW u \in User,
         users[n].kind = "absent", users' = [users EXCEPT ![n] = u],
         UNCHANGED <<sessions, tokens, handlers, backend>>
  PROVE  IdentityInv'
<1>1. users \in [Names -> User]
  BY DEF IdentityInv, TypeOK
<1>2. users' \in [Names -> User] /\ \A m \in Names : Keeps(users[m], users'[m])
  BY <1>1 DEF Keeps
<1>3. SessionsShrink /\ TokensShrink
  BY DEF SessionsShrink, TokensShrink
<1>4. QED
  BY <1>2, <1>3, CredentialStep DEF IdentityInv, TypeOK, handlers

\* A step that ends what rests on the one account it changes.  The kind stays;
\* a session of the account that survives still has its grounds, and a token
\* of it that survives still has an enabled owner.
LEMMA AccountStep ==
  ASSUME IdentityInv, NEW n \in Names, NEW u \in User,
         users[n].kind # "absent", users' = [users EXCEPT ![n] = u],
         u.kind = users[n].kind,
         sessions' \in [SessionIds -> Session], tokens' \in [TokenIds -> Token],
         SessionsShrink, TokensShrink,
         \A i \in SessionIds :
           sessions'[i].state = "live" /\ sessions[i].name = n /\ backend = "local"
             => (users[n].localOn => u.localOn) /\ u.password = users[n].password,
         \A i \in TokenIds :
           tokens'[i].state = "live" /\ tokens[i].name = n
             => (users[n].enabled => u.enabled),
         UNCHANGED <<handlers, backend>>
  PROVE  IdentityInv'
<1>1. users \in [Names -> User]
  BY DEF IdentityInv, TypeOK
<1>2. /\ users' \in [Names -> User] /\ users'[n] = u
      /\ \A m \in Names : m # n => users'[m] = users[m]
  BY <1>1
<1>3. TypeOK'
  BY <1>2 DEF IdentityInv, TypeOK, handlers
<1>4. LoginsGrounded'
  BY DEF IdentityInv, LoginsGrounded, handlers
<1>5. SessionsGrounded'
  <2> SUFFICES ASSUME NEW i \in SessionIds, sessions'[i].state = "live"
               PROVE  /\ sessions'[i].name \in Names
                      /\ sessions'[i].backend = backend'
                      /\ users'[sessions'[i].name].kind = "human"
                      /\ backend' = "local" =>
                           /\ users'[sessions'[i].name].localOn
                           /\ sessions'[i].verified = users'[sessions'[i].name].password
                           /\ sessions'[i].verified # 0
    BY DEF SessionsGrounded
  <2> DEFINE m == sessions[i].name
  <2>1. /\ sessions[i].state = "live" /\ sessions'[i].name = m
        /\ sessions'[i].backend = sessions[i].backend
        /\ sessions'[i].verified = sessions[i].verified
    BY DEF SessionsShrink
  <2>2. /\ m \in Names /\ sessions[i].backend = backend /\ users[m].kind = "human"
        /\ backend = "local" => /\ users[m].localOn
                                /\ sessions[i].verified = users[m].password
                                /\ sessions[i].verified # 0
    BY <2>1 DEF IdentityInv, SessionsGrounded
  <2>3. CASE m = n
    BY <1>2, <2>1, <2>2, <2>3
  <2>4. CASE m # n
    BY <1>2, <2>1, <2>2, <2>4
  <2>5. QED
    BY <2>3, <2>4
<1>6. TokensGrounded'
  <2> SUFFICES ASSUME NEW i \in TokenIds, tokens'[i].state = "live"
               PROVE  /\ tokens'[i].name \in Names
                      /\ users'[tokens'[i].name].kind = "service"
                      /\ users'[tokens'[i].name].enabled
    BY DEF TokensGrounded
  <2> DEFINE m == tokens[i].name
  <2>1. tokens[i].state = "live" /\ tokens'[i].name = m
    BY DEF TokensShrink
  <2>2. m \in Names /\ users[m].kind = "service" /\ users[m].enabled
    BY <2>1 DEF IdentityInv, TokensGrounded
  <2>3. CASE m = n
    BY <1>2, <2>1, <2>2, <2>3
  <2>4. CASE m # n
    BY <1>2, <2>1, <2>2, <2>4
  <2>5. QED
    BY <2>3, <2>4
<1>7. QED
  BY <1>3, <1>4, <1>5, <1>6 DEF IdentityInv

\* Every session and token of a disabled account, and every session of one with
\* a new password, ends in the same step.
LEMMA UpdateUserPreserves ==
  ASSUME IdentityInv, NEW n \in Names, NEW reset \in BOOLEAN,
         NEW enabled \in MaybeBoolean, NEW admin \in MaybeBoolean,
         UpdateUser(n, reset, enabled, admin)
  PROVE  IdentityInv'
<1> DEFINE v == users[n]
           p == IF reset THEN v.password + 1 ELSE v.password
           e == IF enabled = {} THEN v.enabled ELSE TRUE \in enabled
           o == IF enabled = {} THEN v.localOn ELSE TRUE \in enabled
           a == IF admin = {} THEN v.admin ELSE TRUE \in admin
           u == Updated(v, reset, enabled, admin)
<1>1. /\ users \in [Names -> User] /\ v \in User
      /\ sessions \in [SessionIds -> Session] /\ tokens \in [TokenIds -> Token]
  BY DEF IdentityInv, TypeOK
<1>2. /\ v.kind = "human" /\ (reset => v.password < MaxPasswords)
      /\ UNCHANGED <<handlers, backend>>
  BY DEF UpdateUser
<1>3. users' = [users EXCEPT ![n] = u]
  BY DEF UpdateUser
<1>4. /\ reset \/ enabled = {FALSE} => sessions' = EndSessions(SessionsOf(n))
      /\ ~(reset \/ enabled = {FALSE}) => sessions' = sessions
  BY Zenon DEF UpdateUser
<1>5. /\ enabled = {FALSE} => tokens' = EndTokens(n)
      /\ enabled # {FALSE} => tokens' = tokens
  BY Zenon DEF UpdateUser
<1>6. p \in 0..MaxPasswords
  BY <1>1, <1>2, IdentityConstants DEF User
<1>7. e \in BOOLEAN /\ o \in BOOLEAN /\ a \in BOOLEAN
  <2>1. v.enabled \in BOOLEAN /\ v.localOn \in BOOLEAN /\ v.admin \in BOOLEAN
    BY <1>1 DEF User
  <2>2. (TRUE \in enabled) \in BOOLEAN /\ (TRUE \in admin) \in BOOLEAN
    OBVIOUS
  <2>3. QED
    BY <2>1, <2>2, Zenon
<1>8. u \in User /\ u.kind = v.kind /\ u.password = p /\ u.localOn = o /\ u.enabled = e
  <2>1. u = [v EXCEPT !.password = p, !.enabled = e, !.localOn = o, !.admin = a]
    BY Zenon DEF Updated
  <2> HIDE DEF p, e, o, a
  <2>3. QED
    BY <1>1, <1>6, <1>7, <2>1 DEF User
<1>9. enabled # {FALSE} => (v.localOn => o) /\ (v.enabled => e)
  BY DEF MaybeBoolean
<1>10. sessions' \in [SessionIds -> Session] /\ SessionsShrink
  <2>1. CASE sessions' = sessions
    BY <1>1, <2>1 DEF SessionsShrink
  <2>2. CASE sessions' = EndSessions(SessionsOf(n))
    BY <1>1, <2>2, EndSessionsTyped DEF SessionsShrink
  <2>3. QED
    BY <1>4, <2>1, <2>2, Zenon
<1>11. tokens' \in [TokenIds -> Token] /\ TokensShrink
  <2>1. CASE tokens' = tokens
    BY <1>1, <2>1 DEF TokensShrink
  <2>2. CASE tokens' = EndTokens(n)
    BY <1>1, <2>2, EndTokensTyped DEF TokensShrink
  <2>3. QED
    BY <1>5, <2>1, <2>2, Zenon
<1>12. ASSUME NEW i \in SessionIds, sessions'[i].state = "live", sessions[i].name = n
       PROVE  ~reset /\ enabled # {FALSE}
  <2>1. sessions[i].state = "live"
    BY <1>10, <1>12 DEF SessionsShrink
  <2>2. i \in SessionsOf(n)
    BY <1>12, <2>1 DEF SessionsOf, Issued
  <2>3. sessions' # EndSessions(SessionsOf(n))
    BY <1>1, <1>12, <2>2, EndSessionsTyped
  <2>4. QED
    BY <1>4, <2>3, Zenon
<1>13. ASSUME NEW i \in TokenIds, tokens'[i].state = "live", tokens[i].name = n
       PROVE  enabled # {FALSE}
  <2>1. tokens' # EndTokens(n)
    BY <1>1, <1>13, EndTokensTyped
  <2>2. QED
    BY <1>5, <2>1, Zenon
<1>14. \A i \in SessionIds :
         sessions'[i].state = "live" /\ sessions[i].name = n /\ backend = "local"
           => (v.localOn => u.localOn) /\ u.password = v.password
  BY <1>8, <1>9, <1>12
<1>15. \A i \in TokenIds :
         tokens'[i].state = "live" /\ tokens[i].name = n => (v.enabled => u.enabled)
  BY <1>8, <1>9, <1>13
<1>16. v.kind # "absent"
  BY <1>2
<1> HIDE DEF p, e, o, a, u
<1>18. QED
  BY <1>2, <1>3, <1>8, <1>10, <1>11, <1>14, <1>15, <1>16, AccountStep

LEMMA UpdateServicePreserves ==
  ASSUME IdentityInv, NEW n \in Names, NEW enabled \in BOOLEAN, UpdateService(n, enabled)
  PROVE  IdentityInv'
<1> DEFINE v == users[n]
           u == [v EXCEPT !.enabled = enabled]
<1>1. /\ users \in [Names -> User] /\ v \in User
      /\ sessions \in [SessionIds -> Session] /\ tokens \in [TokenIds -> Token]
  BY DEF IdentityInv, TypeOK
<1>2. /\ v.kind = "service" /\ users' = [users EXCEPT ![n] = u]
      /\ UNCHANGED <<handlers, backend>>
  BY DEF UpdateService
<1>3. sessions' = sessions \/ sessions' = EndSessions(SessionsOf(n))
  BY Zenon DEF UpdateService
<1>4. (enabled /\ tokens' = tokens) \/ tokens' = EndTokens(n)
  BY Zenon DEF UpdateService
<1>5. /\ u \in User /\ u.kind = v.kind /\ u.enabled = enabled
      /\ u.localOn = v.localOn /\ u.password = v.password
  BY <1>1 DEF User
<1>6. sessions' \in [SessionIds -> Session] /\ SessionsShrink
  BY <1>1, <1>3, EndSessionsTyped DEF SessionsShrink
<1>7. tokens' \in [TokenIds -> Token] /\ TokensShrink
  BY <1>1, <1>4, EndTokensTyped DEF TokensShrink
<1>8. ASSUME NEW i \in TokenIds, tokens'[i].state = "live", tokens[i].name = n
      PROVE  enabled
  BY <1>1, <1>4, <1>8, EndTokensTyped
<1>9. /\ v.kind # "absent"
      /\ \A i \in SessionIds :
           sessions'[i].state = "live" /\ sessions[i].name = n /\ backend = "local"
             => (v.localOn => u.localOn) /\ u.password = v.password
      /\ \A i \in TokenIds :
           tokens'[i].state = "live" /\ tokens[i].name = n => (v.enabled => u.enabled)
  BY <1>2, <1>5, <1>8
<1>10. u \in User /\ u.kind = v.kind
  BY <1>5
<1> HIDE DEF u
<1>11. QED
  BY <1>2, <1>6, <1>7, <1>9, <1>10, AccountStep

\* The insertion selects the owner again: a token is never issued to an identity
\* disabled since the check.
LEMMA IssueTokenPreserves ==
  ASSUME IdentityInv, IssueToken
  PROVE  IdentityInv'
<1>1. /\ users \in [Names -> User] /\ tokens \in [TokenIds -> Token]
      /\ mint \in Names
      /\ UNCHANGED <<users, sessions, failures, logins, request, sync, backend>>
      /\ mint' = NoName
  BY DEF IdentityInv, TypeOK, IssueToken
<1> DEFINE k == Cardinality(Minted) + 1
           row == [state |-> "live", name |-> mint]
<1>2. tokens' \in [TokenIds -> Token] /\ TokensGrounded'
  <2>1. CASE tokens' = tokens
    BY <1>1, <2>1 DEF IdentityInv, TokensGrounded
  <2>2. CASE tokens' # tokens
    <3>1. /\ users[mint].kind = "service" /\ users[mint].enabled
          /\ tokens' = [tokens EXCEPT ![k] = row]
      BY <2>2 DEF IssueToken
    <3>2. row \in Token
      BY <1>1 DEF Token
    <3>3. QED
      BY <1>1, <3>1, <3>2 DEF IdentityInv, TokensGrounded
  <2>3. QED
    BY <2>1, <2>2
<1>3. TypeOK'
  BY <1>1, <1>2 DEF IdentityInv, TypeOK
<1>4. LoginsGrounded' /\ SessionsGrounded'
  BY <1>1 DEF IdentityInv, LoginsGrounded, SessionsGrounded
<1>5. QED
  BY <1>2, <1>3, <1>4 DEF IdentityInv

LEMMA AdminPreserves ==
  ASSUME IdentityInv, AdminStep
  PROVE  IdentityInv'
<1>1. /\ users \in [Names -> User] /\ sessions \in [SessionIds -> Session]
      /\ tokens \in [TokenIds -> Token]
      /\ request \in [pc: {"none", "accepted", "refused", "serving"},
                      session: 0..MaxSessions]
      /\ failures \in [Names -> Nat]
      /\ sync \in [pc: {"idle", "read"}, seen: SUBSET Names, missing: SUBSET Names]
  BY DEF IdentityInv, TypeOK
<1>2. \A n \in Names : Keeps(users[n], users[n])
  BY DEF Keeps
<1>3. ASSUME NEW n \in Names, NEW adm \in BOOLEAN, CreateUser(n, adm)
      PROVE  IdentityInv'
  <2>1. 1 \in 0..MaxPasswords
    BY IdentityConstants
  <2>2. [Human(adm) EXCEPT !.password = 1, !.localOn = TRUE] \in User
    BY <2>1, NewUserTyped, UserTyped
  <2>3. QED
    BY <1>3, <2>2, CreationPreserves DEF CreateUser
<1>4. ASSUME NEW n \in Names, CreateService(n)
      PROVE  IdentityInv'
  BY <1>4, NewUserTyped, CreationPreserves DEF CreateService
<1>5. ASSUME NEW S, sessions' = EndSessions(S), UNCHANGED <<users, tokens, handlers, backend>>
      PROVE  IdentityInv'
  <2>1. sessions' \in [SessionIds -> Session] /\ SessionsShrink
    BY <1>1, <1>5, EndSessionsTyped DEF SessionsShrink
  <2>2. TokensShrink
    BY <1>5 DEF TokensShrink
  <2>3. QED
    BY <1>1, <1>2, <1>5, <2>1, <2>2, CredentialStep DEF handlers
<1>6. ASSUME NEW n \in Names, RevokeSessions(n)
      PROVE  IdentityInv'
  BY <1>5, <1>6 DEF RevokeSessions
<1>7. CASE RevokeAll
  BY <1>5, <1>7 DEF RevokeAll
<1>8. ASSUME NEW n \in Names, CheckOwner(n)
      PROVE  IdentityInv'
  BY <1>1, <1>8, HandlerStep DEF CheckOwner
<1>9. ASSUME NEW i \in TokenIds, RevokeToken(i)
      PROVE  IdentityInv'
  <2>1. tokens' = [tokens EXCEPT ![i] = RevokedToken(tokens[i])]
    BY <1>9 DEF RevokeToken
  <2>2. tokens' \in [TokenIds -> Token] /\ TokensShrink
    BY <1>1, <2>1, RevokedTokenTyped DEF TokensShrink
  <2>3. SessionsShrink
    BY <1>9 DEF RevokeToken, SessionsShrink
  <2>4. QED
    BY <1>1, <1>2, <1>9, <2>2, <2>3, CredentialStep DEF RevokeToken, handlers
<1>10. QED
  BY <1>3, <1>4, <1>6, <1>7, <1>8, <1>9,
     UpdateUserPreserves, UpdateServicePreserves, IssueTokenPreserves
     DEF AdminStep

\* A process that starts has no login in flight, and no session of the backend
\* it does not run.
LEMMA RestartPreserves ==
  ASSUME IdentityInv, NEW b \in Backends, NEW seeded, Restart(b, seeded)
  PROVE  IdentityInv'
<1>1. /\ users \in [Names -> User] /\ sessions \in [SessionIds -> Session]
      /\ tokens \in [TokenIds -> Token]
  BY DEF IdentityInv, TypeOK
<1>2. /\ backend' = b /\ users' = Started(users, b, seeded) /\ tokens' = tokens
      /\ sessions' = EndSessions({i \in Issued : sessions[i].backend # b})
      /\ failures' = [n \in Names |-> 0] /\ logins' = [t \in Threads |-> NoLogin]
      /\ request' = NoRequest /\ mint' = NoName /\ sync' = NoSync
  BY DEF Restart, ForeignRevoked
<1>3. users' \in [Names -> User] /\ \A n \in Names : Keeps(users[n], users'[n])
  BY <1>1, <1>2, StartedKeeps
<1>4. /\ sessions' \in [SessionIds -> Session] /\ SessionsShrink
      /\ \A i \in SessionIds :
           sessions'[i].state = "live" => sessions[i].backend = b /\ sessions'[i] = sessions[i]
  <2>1. ASSUME NEW i \in SessionIds, sessions'[i].state = "live"
        PROVE  sessions[i].backend = b /\ sessions'[i] = sessions[i]
    <3>1. i \notin {j \in Issued : sessions[j].backend # b} /\ sessions'[i] = sessions[i]
      BY <1>1, <1>2, <2>1, EndSessionsTyped
    <3>2. i \in Issued
      BY <2>1, <3>1 DEF Issued
    <3>3. QED
      BY <3>1, <3>2
  <2>2. QED
    BY <1>1, <1>2, <2>1, EndSessionsTyped DEF SessionsShrink
<1>5. NoLogin \in Login /\ NoLogin.pc = "idle"
  BY IdentityConstants DEF NoLogin, Login
<1>6. /\ NoRequest \in [pc: {"none", "accepted", "refused", "serving"},
                        session: 0..MaxSessions]
      /\ NoSync \in [pc: {"idle", "read"}, seen: SUBSET Names, missing: SUBSET Names]
  BY IdentityConstants DEF NoRequest, NoSync
<1>7. TypeOK'
  <2>1. failures' \in [Names -> Nat] /\ logins' \in [Threads -> Login]
    BY <1>2, <1>5
  <2>2. QED
    BY <1>1, <1>2, <1>3, <1>4, <1>6, <2>1 DEF TypeOK
<1>8. LoginsGrounded'
  BY <1>2, <1>5 DEF LoginsGrounded
<1>9. SessionsGrounded'
  <2>1. CASE backend' = backend
    BY <1>3, <1>4, <2>1, SessionsStayGrounded DEF IdentityInv
  <2>2. CASE backend' # backend
    \* What was live belonged to the other backend.
    BY <1>2, <1>4, <2>2 DEF IdentityInv, SessionsGrounded
  <2>3. QED
    BY <2>1, <2>2
<1>10. TokensGrounded'
  <2>1. TokensShrink
    BY <1>2 DEF TokensShrink
  <2>2. QED
    BY <1>3, <2>1, TokensStayGrounded DEF IdentityInv
<1>11. QED
  BY <1>7, <1>8, <1>9, <1>10 DEF IdentityInv

LEMMA SystemPreserves ==
  ASSUME IdentityInv, SystemStep
  PROVE  IdentityInv'
<1>1. /\ users \in [Names -> User] /\ sessions \in [SessionIds -> Session]
      /\ tokens \in [TokenIds -> Token] /\ failures \in [Names -> Nat]
      /\ request \in [pc: {"none", "accepted", "refused", "serving"},
                      session: 0..MaxSessions]
      /\ mint \in Names \cup {NoName}
      /\ sync \in [pc: {"idle", "read"}, seen: SUBSET Names, missing: SUBSET Names]
  BY DEF IdentityInv, TypeOK
<1>2. \A n \in Names : Keeps(users[n], users[n])
  BY DEF Keeps
<1>3. ASSUME NEW n \in Names, ForgetFailure(n)
      PROVE  IdentityInv'
  <2>1. failures' \in [Names -> Nat]
    BY <1>1, <1>3 DEF ForgetFailure
  <2>2. QED
    BY <1>1, <1>3, <2>1, HandlerStep DEF ForgetFailure
<1>4. ASSUME NEW seen \in SUBSET Names, SyncRead(seen)
      PROVE  IdentityInv'
  <2>1. sync' \in [pc: {"idle", "read"}, seen: SUBSET Names, missing: SUBSET Names]
    BY <1>4 DEF SyncRead
  <2>2. QED
    BY <1>1, <1>4, <2>1, HandlerStep DEF SyncRead
<1>5. CASE SyncApply
  <2>1. users' \in [Names -> User] /\ \A n \in Names : Keeps(users[n], users'[n])
    <3>1. ASSUME NEW n \in Names
          PROVE  users'[n] \in User /\ Keeps(users[n], users'[n])
      <4>1. \/ users'[n] = SyncUpsert(users[n])
            \/ users'[n] = SyncDisable(users[n])
            \/ users'[n] = users[n]
        BY <1>5 DEF SyncApply
      <4>2. QED
        BY <1>1, <1>2, <4>1, SyncKeeps
    <3>2. QED
      BY <1>5, <3>1 DEF SyncApply
  <2>2. SessionsShrink /\ TokensShrink
    BY <1>5 DEF SyncApply, SessionsShrink, TokensShrink
  <2>3. NoSync \in [pc: {"idle", "read"}, seen: SUBSET Names, missing: SUBSET Names]
    BY DEF NoSync
  <2>4. QED
    BY <1>1, <1>5, <2>1, <2>2, <2>3, CredentialStep DEF SyncApply
<1>6. CASE PurgeSessions
  <2>1. ASSUME NEW i \in SessionIds
        PROVE  /\ sessions'[i] \in Session
               /\ sessions'[i].state = "live" => sessions'[i] = sessions[i]
    <3>1. [NoSession EXCEPT !.state = "purged"].state # "live"
      BY DEF NoSession
    <3>2. \/ sessions'[i] = sessions[i]
          \/ sessions'[i] = [NoSession EXCEPT !.state = "purged"]
      BY <1>6 DEF PurgeSessions
    <3>3. QED
      BY <1>1, <3>1, <3>2, RevokedTyped
  <2>2. sessions' \in [SessionIds -> Session] /\ SessionsShrink
    BY <1>6, <2>1 DEF PurgeSessions, SessionsShrink
  <2>3. TokensShrink
    BY <1>6 DEF PurgeSessions, TokensShrink
  <2>4. QED
    BY <1>1, <1>2, <1>6, <2>2, <2>3, CredentialStep DEF PurgeSessions, handlers
<1>7. QED
  BY <1>3, <1>4, <1>5, <1>6, RestartPreserves DEF SystemStep

------------------------------------------------------------------------------
(* The theorems.                                                           *)

\* The inductive invariant holds of every behaviour.
THEOREM IdentityInvariant == Spec => []IdentityInv
<1>1. Init => IdentityInv
  <2> SUFFICES ASSUME Init PROVE IdentityInv
    OBVIOUS
  <2>1. /\ NoUser \in User /\ NoSession \in Session /\ NoToken \in Token
        /\ NoLogin \in Login
        /\ NoSession.state # "live" /\ NoToken.state # "live" /\ NoLogin.pc = "idle"
    <3>1. 0 \in 0..MaxPasswords
      BY IdentityConstants
    <3>2. QED
      BY <3>1 DEF NoUser, User, NoSession, Session, NoToken, Token, NoLogin, Login, Backends
  <2>2. /\ NoRequest \in [pc: {"none", "accepted", "refused", "serving"},
                          session: 0..MaxSessions]
        /\ NoSync \in [pc: {"idle", "read"}, seen: SUBSET Names, missing: SUBSET Names]
    BY IdentityConstants DEF NoRequest, NoSync
  <2>3. users \in [Names -> User]
    <3>1. [n \in Names |-> NoUser] \in [Names -> User]
      BY <2>1
    <3>2. QED
      BY <3>1, StartedKeeps DEF Init
  <2>4. TypeOK
    <3>1. /\ sessions \in [SessionIds -> Session] /\ tokens \in [TokenIds -> Token]
          /\ failures \in [Names -> Nat] /\ logins \in [Threads -> Login]
      BY <2>1 DEF Init
    <3>2. QED
      BY <2>2, <2>3, <3>1 DEF Init, TypeOK
  <2>5. LoginsGrounded /\ SessionsGrounded /\ TokensGrounded
    BY <2>1 DEF Init, LoginsGrounded, SessionsGrounded, TokensGrounded
  <2>6. QED
    BY <2>4, <2>5 DEF IdentityInv
<1>2. IdentityInv /\ [Next]_vars => IdentityInv'
  <2> SUFFICES ASSUME IdentityInv, [Next]_vars PROVE IdentityInv'
    OBVIOUS
  <2>1. CASE Next
    BY <2>1, LoginPreserves, RequestPreserves, AdminPreserves, SystemPreserves DEF Next
  <2>2. CASE UNCHANGED vars
    BY <2>2 DEF vars, IdentityInv, TypeOK, LoginsGrounded, SessionsGrounded, TokensGrounded
  <2>3. QED
    BY <2>1, <2>2
<1>3. QED
  BY <1>1, <1>2, PTL DEF Spec

\* Accounts, sessions, tokens, failure counts and the handlers in flight have
\* their types.
THEOREM TypeCorrect == Spec => []TypeOK
<1>1. IdentityInv => TypeOK
  BY DEF IdentityInv
<1>2. QED
  BY <1>1, IdentityInvariant, PTL

\* No password reset or disabled account leaves a live local session that rests
\* on the old password, also when the login had verified it before.
THEOREM CurrentCredentials == Spec => []NoStaleCredential
<1>1. IdentityInv => NoStaleCredential
  BY DEF IdentityInv, SessionsGrounded, NoStaleCredential
<1>2. QED
  BY <1>1, IdentityInvariant, PTL

\* No session survives the disabling of its account by an administrator or the
\* exchange of the backend.
THEOREM RevokedForGood == Spec => []NoSessionOutlivesItsGrounds
<1>1. IdentityInv => NoSessionOutlivesItsGrounds
  BY DEF IdentityInv, SessionsGrounded, NoSessionOutlivesItsGrounds
<1>2. QED
  BY <1>1, IdentityInvariant, PTL

\* No live token belongs to a disabled service identity.
THEOREM TokensRevoked == Spec => []TokensDieWithTheirOwner
<1>1. IdentityInv => TokensDieWithTheirOwner
  BY DEF IdentityInv, TokensGrounded, TokensDieWithTheirOwner
<1>2. QED
  BY <1>1, IdentityInvariant, PTL

------------------------------------------------------------------------------
(* The cap on sessions.                                                    *)

LEMMA SmallestNumber ==
  ASSUME NEW S \in SUBSET Nat, S # {}
  PROVE  \E m \in S : \A k \in S : m <= k
<1>1. IsWellFoundedOn(OpToRel(<, Nat), Nat)
  BY NatLessThanWellFounded
<1>2. PICK m \in S : \A k \in S : <<k, m>> \notin OpToRel(<, Nat)
  BY <1>1, WFMin
<1>3. \A k \in S : ~(k < m)
  BY <1>2 DEF OpToRel
<1>4. QED
  BY <1>3

\* Any sessions have an oldest one.
LEMMA OldestSession ==
  ASSUME NEW table \in [SessionIds -> Session], NEW T \in SUBSET SessionIds, T # {}
  PROVE  \E x \in T : \A k \in T \ {x} : Newer(table, k, x)
<1>1. \A i \in T : table[i].created \in Nat /\ i \in Nat
  BY IdentityConstants DEF Session, SessionIds
<1> DEFINE Times == {table[i].created : i \in T}
<1>2. PICK c \in Times : \A d \in Times : c <= d
  <2>1. Times \in SUBSET Nat /\ Times # {}
    BY <1>1
  <2> HIDE DEF Times
  <2>2. QED
    BY <2>1, SmallestNumber
<1> DEFINE First == {i \in T : table[i].created = c}
<1>3. PICK x \in First : \A k \in First : x <= k
  BY <1>1, <1>2, SmallestNumber
<1>4. ASSUME NEW k \in T \ {x}
      PROVE  Newer(table, k, x)
  <2>1. CASE table[k].created = c
    BY <1>1, <1>3, <1>4, <2>1 DEF Newer
  <2>2. CASE table[k].created # c
    BY <1>1, <1>2, <1>3, <1>4, <2>2 DEF Newer
  <2>3. QED
    BY <2>1, <2>2
<1>5. QED
  BY <1>3, <1>4

LiveSessions(table, n, b) ==
  {i \in SessionIds : /\ table[i].state = "live" /\ table[i].name = n
                      /\ table[i].backend = b}

LEMMA LiveFinite ==
  ASSUME NEW T \in SUBSET SessionIds
  PROVE  IsFiniteSet(T) /\ Cardinality(T) \in Nat
<1>1. IsFiniteSet(SessionIds)
  BY IdentityConstants, FS_Interval DEF SessionIds
<1>2. IsFiniteSet(T)
  BY <1>1, FS_Subset
<1>3. QED
  BY <1>2, FS_CardinalityType

\* What the eviction leaves is within the cap: the oldest of more would have had
\* as many newer ones as the cap allows.
LEMMA EvictionCaps ==
  ASSUME NEW table \in [SessionIds -> Session], NEW n
  PROVE  Cardinality(LiveSessions(table, n, backend) \ Evicted(table, n)) <= MaxPerUser
<1> DEFINE Live == LiveSessions(table, n, backend)
           Kept == Live \ Evicted(table, n)
           NewerThan(x) == {k \in Live : Newer(table, k, x)}
<1>1. /\ Kept \in SUBSET SessionIds /\ Live \in SUBSET SessionIds
      /\ MaxPerUser \in Nat \ {0}
  BY IdentityConstants DEF LiveSessions
<1>2. Evicted(table, n) = {i \in Live : Cardinality(NewerThan(i)) >= MaxPerUser}
  BY DEF Evicted, LiveSessions
<1>3. IsFiniteSet(Kept) /\ Cardinality(Kept) \in Nat
  BY <1>1, LiveFinite
<1> HIDE DEF Live, Kept
<1>4. SUFFICES ASSUME Cardinality(Kept) > MaxPerUser PROVE FALSE
  BY <1>1, <1>3 DEF Kept, Live
<1>5. Kept # {}
  BY <1>1, <1>4, FS_EmptySet
<1>6. PICK x \in Kept : \A k \in Kept \ {x} : Newer(table, k, x)
  BY <1>1, <1>5, OldestSession
<1>7. Kept \ {x} \in SUBSET NewerThan(x)
  BY <1>6 DEF Kept
<1>8. Cardinality(Kept \ {x}) = Cardinality(Kept) - 1
  BY <1>3, <1>6, FS_RemoveElement
<1>9. IsFiniteSet(NewerThan(x)) /\ Cardinality(NewerThan(x)) \in Nat
  BY <1>1, LiveFinite
<1>10. Cardinality(Kept \ {x}) <= Cardinality(NewerThan(x))
  BY <1>7, <1>9, FS_Subset
<1>11. Cardinality(NewerThan(x)) >= MaxPerUser
  BY <1>1, <1>3, <1>4, <1>8, <1>9, <1>10
<1>12. QED
  BY <1>2, <1>6, <1>11 DEF Kept

\* Nothing but an insertion makes a session live.
LEMMA OnlyLoginsAddSessions ==
  ASSUME IdentityInv, [Next]_vars
  PROVE  SessionsShrink \/ \E t \in Threads : Issue(t) /\ sessions' # sessions
<1>1. sessions \in [SessionIds -> Session]
  BY DEF IdentityInv, TypeOK
<1>2. ASSUME NEW S, sessions' = EndSessions(S)
      PROVE  SessionsShrink
  BY <1>1, <1>2, EndSessionsTyped DEF SessionsShrink
<1>3. CASE sessions' = sessions
  BY <1>3 DEF SessionsShrink
<1>4. ASSUME NEW i, NEW s, sessions' = [sessions EXCEPT ![i].lapsed = s]
      PROVE  SessionsShrink
  BY <1>1, <1>4 DEF SessionsShrink, Session
<1>5. CASE RequestStep
  <2>1. CASE RevokeRefused
    <3>1. sessions' = EndSessions({request.session})
      BY <1>1, <2>1 DEF RevokeRefused, EndSessions
    <3>2. QED
      BY <1>2, <3>1
  <2>2. CASE Touch
    <3> DEFINE i == request.session
    <3>1. sessions' = [sessions EXCEPT ![i].lapsed =
                         IF sessions[i].lapsed = "idle" THEN "no" ELSE sessions[i].lapsed]
      BY <2>2 DEF Touch
    <3>2. QED
      BY <1>4, <3>1
  <2>3. CASE Logout
    BY <1>2, <2>3 DEF Logout
  <2>4. ASSUME NEW i \in SessionIds, Present(i) \/ Lapse(i)
        PROVE  SessionsShrink
    BY <1>3, <1>4, <2>4 DEF Present, Lapse, credentials
  <2>5. CASE Serve \/ \E n \in Names : AuthenticateBasic(n)
    BY <1>3, <2>5 DEF Serve, AuthenticateBasic, credentials
  <2>6. QED
    BY <1>5, <2>1, <2>2, <2>3, <2>4, <2>5 DEF RequestStep
<1>6. CASE AdminStep
  <2>1. ASSUME NEW n \in Names, NEW reset \in BOOLEAN, NEW enabled \in MaybeBoolean,
               NEW admin \in MaybeBoolean, UpdateUser(n, reset, enabled, admin)
        PROVE  SessionsShrink
    <3>1. sessions' = sessions \/ sessions' = EndSessions(SessionsOf(n))
      BY <2>1, Zenon DEF UpdateUser
    <3>2. QED
      BY <1>2, <1>3, <3>1
  <2>2. ASSUME NEW n \in Names, NEW enabled \in BOOLEAN, UpdateService(n, enabled)
        PROVE  SessionsShrink
    <3>1. sessions' = sessions \/ sessions' = EndSessions(SessionsOf(n))
      BY <2>2, Zenon DEF UpdateService
    <3>2. QED
      BY <1>2, <1>3, <3>1
  <2>3. CASE RevokeAll \/ \E n \in Names : RevokeSessions(n)
    BY <1>2, <2>3 DEF RevokeAll, RevokeSessions
  <2>4. CASE \/ IssueToken
             \/ \E i \in TokenIds : RevokeToken(i)
             \/ \E n \in Names : \/ CreateService(n) \/ CheckOwner(n)
                                 \/ \E adm \in BOOLEAN : CreateUser(n, adm)
    BY <1>3, <2>4 DEF IssueToken, RevokeToken, CreateService, CheckOwner, CreateUser, credentials
  <2>5. QED
    BY <1>6, <2>1, <2>2, <2>3, <2>4 DEF AdminStep
<1>7. CASE SystemStep
  <2>1. CASE PurgeSessions
    <3>1. [NoSession EXCEPT !.state = "purged"].state # "live"
      BY DEF NoSession
    <3>2. QED
      BY <2>1, <3>1 DEF PurgeSessions, SessionsShrink
  <2>2. ASSUME NEW b \in Backends, NEW seeded \in SUBSET Names, Restart(b, seeded)
        PROVE  SessionsShrink
    BY <1>2, <2>2 DEF Restart, ForeignRevoked
  <2>3. CASE \/ \E n \in Names : ForgetFailure(n)
             \/ \E seen \in SUBSET Names : SyncRead(seen)
             \/ SyncApply
    BY <1>3, <2>3 DEF ForgetFailure, SyncRead, SyncApply, credentials
  <2>4. QED
    BY <1>7, <2>1, <2>2, <2>3 DEF SystemStep
<1>8. ASSUME NEW t \in Threads, LoginStep(t)
      PROVE  sessions' = sessions \/ Issue(t)
  BY <1>8 DEF LoginStep, Admit, VerifyLocal, VerifyDirectory, VerifyFallback, RefuseLogin,
              CountFailure, ClearFailures, credentials
<1>9. CASE UNCHANGED vars
  BY <1>3, <1>9 DEF vars
<1>10. QED
  BY <1>3, <1>5, <1>6, <1>7, <1>8, <1>9 DEF Next

\* No name has more live sessions of a backend than the cap, between any two
\* steps of any number of concurrent logins.
THEOREM SessionsCapped == Spec => []SessionCap
<1>1. SessionCap <=> \A n \in Names, b \in Backends :
                       Cardinality(LiveSessions(sessions, n, b)) <= MaxPerUser
  BY DEF SessionCap, LiveSessions
<1>2. Init => SessionCap
  <2> SUFFICES ASSUME Init, NEW n \in Names, NEW b \in Backends
               PROVE  Cardinality(LiveSessions(sessions, n, b)) <= MaxPerUser
    BY <1>1
  <2>1. LiveSessions(sessions, n, b) = {}
    BY DEF Init, LiveSessions, NoSession
  <2>2. QED
    BY <2>1, FS_EmptySet, IdentityConstants
<1>3. IdentityInv /\ IdentityInv' /\ SessionCap /\ [Next]_vars => SessionCap'
  <2> SUFFICES ASSUME IdentityInv, IdentityInv', SessionCap, [Next]_vars,
                      NEW n \in Names, NEW b \in Backends
               PROVE  Cardinality(LiveSessions(sessions', n, b)) <= MaxPerUser
    BY DEF SessionCap, LiveSessions
  <2> DEFINE Old == LiveSessions(sessions, n, b)
             New == LiveSessions(sessions', n, b)
  <2>1. /\ sessions \in [SessionIds -> Session] /\ sessions' \in [SessionIds -> Session]
        /\ logins \in [Threads -> Login] /\ backend \in Backends
    BY DEF IdentityInv, TypeOK
  <2>2. /\ Old \in SUBSET SessionIds /\ New \in SUBSET SessionIds
        /\ Cardinality(Old) <= MaxPerUser /\ MaxPerUser \in Nat
    BY <1>1, IdentityConstants DEF LiveSessions
  <2>3. ASSUME NEW T \in SUBSET SessionIds, Cardinality(T) <= MaxPerUser, New \subseteq T
        PROVE  Cardinality(New) <= MaxPerUser
    <3>1. IsFiniteSet(T) /\ Cardinality(T) \in Nat /\ Cardinality(New) \in Nat
      BY <2>2, LiveFinite
    <3>2. Cardinality(New) <= Cardinality(T)
      BY <2>3, <3>1, FS_Subset
    <3>3. QED
      BY <2>2, <2>3, <3>1, <3>2
  <2>4. CASE SessionsShrink
    <3>1. New \subseteq Old
      BY <2>4 DEF SessionsShrink, LiveSessions
    <3>2. QED
      BY <2>2, <2>3, <3>1
  <2>5. ASSUME NEW t \in Threads, Issue(t), sessions' # sessions
        PROVE  Cardinality(New) <= MaxPerUser
    <3> DEFINE l == logins[t]
               row == [state |-> "live", name |-> l.name, backend |-> backend,
                       created |-> l.created, lapsed |-> "no", verified |-> l.password]
               table == [sessions EXCEPT ![NextSession] = row]
               Gone == Evicted(table, l.name)
    <3>1. sessions' = [i \in SessionIds |-> IF i \in Gone THEN Revoked(table[i]) ELSE table[i]]
      BY <2>5, Zenon DEF Issue
    <3>2. l.pc = "verified" /\ l.name \in Names /\ l \in Login
      BY <2>1, <2>5 DEF Issue, IdentityInv, LoginsGrounded
    <3>3. row \in Session
      BY <2>1, <3>2 DEF Session, Login
    <3>4. table \in [SessionIds -> Session]
      BY <2>1, <3>3
    <3>5. \A i \in SessionIds :
            sessions'[i].state = "live" => i \notin Gone /\ sessions'[i] = table[i]
      BY <3>1, <3>4, RevokedTyped
    <3>6. CASE n = l.name /\ b = backend
      <4>1. New \subseteq LiveSessions(table, l.name, backend) \ Gone
        BY <3>5, <3>6 DEF LiveSessions
      <4>2. Cardinality(LiveSessions(table, l.name, backend) \ Gone) <= MaxPerUser
        BY <3>4, EvictionCaps
      <4>3. LiveSessions(table, l.name, backend) \ Gone \in SUBSET SessionIds
        BY DEF LiveSessions
      <4>4. QED
        BY <2>3, <4>1, <4>2, <4>3
    <3>7. CASE ~(n = l.name /\ b = backend)
      <4>1. New \subseteq Old
        BY <2>1, <3>5, <3>7 DEF LiveSessions
      <4>2. QED
        BY <2>2, <2>3, <4>1
    <3>8. QED
      BY <3>6, <3>7
  <2>6. QED
    BY <2>4, <2>5, OnlyLoginsAddSessions
<1>4. QED
  BY <1>2, <1>3, IdentityInvariant, PTL DEF Spec

------------------------------------------------------------------------------
(* The cap on failures.                                                    *)

InFlight(table, n) == {t \in Threads : table[t].name = n /\ table[t].pc # "idle"}

LEMMA InFlightFinite ==
  ASSUME NEW table, NEW n
  PROVE  /\ IsFiniteSet(InFlight(table, n)) /\ Cardinality(InFlight(table, n)) \in Nat
         /\ Cardinality(Threads) \in Nat
         /\ Cardinality(InFlight(table, n)) <= Cardinality(Threads)
<1>1. InFlight(table, n) \in SUBSET Threads /\ IsFiniteSet(Threads)
  BY IdentityConstants DEF InFlight
<1>2. QED
  BY <1>1, FS_Subset, FS_CardinalityType

\* The sum of failures and logins in flight grows in no step but an admission,
\* and there only while the failures are below the limit.
THEOREM FailuresCapped == Spec => []FailuresBounded
<1> DEFINE Sum(f, table, n) == f[n] + Cardinality(InFlight(table, n))
           Bound == FailureLimit + Cardinality(Threads) - 1
<1>1. FailuresBounded <=> \A n \in Names : Sum(failures, logins, n) <= Bound
  BY DEF FailuresBounded, InFlight
<1>2. FailureLimit \in Nat \ {0} /\ Cardinality(Threads) \in Nat
  BY IdentityConstants, FS_CardinalityType
<1>3. Init => FailuresBounded
  <2> SUFFICES ASSUME Init, NEW n \in Names PROVE Sum(failures, logins, n) <= Bound
    BY <1>1
  <2>1. failures[n] = 0
    BY DEF Init
  <2>2. InFlight(logins, n) = {}
    BY DEF Init, InFlight, NoLogin
  <2>3. QED
    BY <1>2, <2>1, <2>2, FS_EmptySet
<1>4. IdentityInv /\ FailuresBounded /\ [Next]_vars => FailuresBounded'
  <2> SUFFICES ASSUME IdentityInv, FailuresBounded, [Next]_vars, NEW n \in Names
               PROVE  Sum(failures', logins', n) <= Bound
    BY DEF FailuresBounded, InFlight
  <2>1. /\ failures \in [Names -> Nat] /\ logins \in [Threads -> Login]
        /\ failures[n] \in Nat /\ failures[n] + Cardinality(InFlight(logins, n)) <= Bound
    BY <1>1 DEF IdentityInv, TypeOK
  <2>2. /\ Cardinality(InFlight(logins, n)) \in Nat /\ Cardinality(InFlight(logins', n)) \in Nat
        /\ Cardinality(InFlight(logins', n)) <= Cardinality(Threads)
        /\ IsFiniteSet(InFlight(logins, n))
    BY InFlightFinite
  <2>3. ASSUME failures' = failures \/ failures'[n] = failures[n] - 1
                 \/ failures' = [m \in Names |-> 0],
               InFlight(logins', n) = InFlight(logins, n) \/ InFlight(logins', n) = {}
        PROVE  Sum(failures', logins', n) <= Bound
    <3>1. failures'[n] \in {failures[n], failures[n] - 1, 0}
      BY <2>3
    <3>2. Cardinality(InFlight(logins', n)) <= Cardinality(InFlight(logins, n))
      <4>1. CASE InFlight(logins', n) = {}
        BY <2>2, <4>1, FS_EmptySet
      <4>2. CASE InFlight(logins', n) = InFlight(logins, n)
        BY <2>2, <4>2
      <4>3. QED
        BY <2>3, <4>1, <4>2
    <3>3. QED
      BY <1>2, <2>1, <2>2, <3>1, <3>2
  <2>4. CASE failures' = failures /\ logins' = logins
    BY <2>3, <2>4
  <2>5. ASSUME NEW t \in Threads, NEW m \in Names, Admit(t, m)
        PROVE  Sum(failures', logins', n) <= Bound
    <3>1. failures' = failures
          /\ logins' = [logins EXCEPT ![t] = [NoLogin EXCEPT !.pc = "admitted", !.name = m]]
      BY <2>5 DEF Admit
    <3>2. CASE n = m
      <4>1. failures[n] < FailureLimit
        BY <2>5, <3>2 DEF Admit
      <4>2. QED
        BY <1>2, <2>1, <2>2, <3>1, <4>1
    <3>3. CASE n # m
      <4>1. InFlight(logins', n) \subseteq InFlight(logins, n)
        BY <2>1, <3>1, <3>3 DEF InFlight, NoLogin
      <4>2. Cardinality(InFlight(logins', n)) <= Cardinality(InFlight(logins, n))
        BY <2>2, <4>1, FS_Subset
      <4>3. QED
        BY <1>2, <2>1, <2>2, <3>1, <4>2
    <3>4. QED
      BY <3>2, <3>3
  <2>6. ASSUME NEW t \in Threads, NEW q \in {"verified", "refused", "issued"},
               logins[t].pc # "idle", failures' = failures,
               logins' \in [Threads -> Login],
               logins'[t].pc = q, logins'[t].name = logins[t].name,
               \A k \in Threads \ {t} : logins'[k] = logins[k]
        PROVE  Sum(failures', logins', n) <= Bound
    <3>1. InFlight(logins', n) = InFlight(logins, n)
      BY <2>1, <2>6 DEF InFlight
    <3>2. QED
      BY <2>3, <2>6, <3>1
  <2>7. ASSUME NEW t \in Threads, LoginStep(t)
        PROVE  Sum(failures', logins', n) <= Bound
    <3>1. logins' \in [Threads -> Login]
      <4>1. IdentityInv'
        BY <2>7, LoginPreserves
      <4>2. QED
        BY <4>1 DEF IdentityInv, TypeOK
    <3>2. CASE VerifyLocal(t) \/ VerifyDirectory(t) \/ VerifyFallback(t)
      BY <2>1, <2>6, <3>1, <3>2 DEF VerifyLocal, VerifyDirectory, VerifyFallback, Login
    <3>3. CASE RefuseLogin(t)
      BY <2>1, <2>6, <3>1, <3>3 DEF RefuseLogin, Login
    <3>4. CASE Issue(t)
      <4>1. \/ logins' = [logins EXCEPT ![t].pc = "issued"]
            \/ logins' = [logins EXCEPT ![t].pc = "refused"]
        BY <3>4, Zenon DEF Issue
      <4>2. logins[t].pc # "idle" /\ failures' = failures
        BY <3>4 DEF Issue
      <4>3. QED
        BY <2>1, <2>6, <3>1, <4>1, <4>2 DEF Login
    <3>5. ASSUME logins' = [logins EXCEPT ![t] = NoLogin], logins[t].pc # "idle"
          PROVE  InFlight(logins', n) = InFlight(logins, n) \ {t}
      BY <2>1, <3>5 DEF InFlight, NoLogin
    <3>6. CASE CountFailure(t)
      <4>1. InFlight(logins', n) = InFlight(logins, n) \ {t}
        BY <3>5, <3>6 DEF CountFailure
      <4>2. failures' = [failures EXCEPT ![logins[t].name] = @ + 1] /\ logins[t].pc # "idle"
        BY <3>6 DEF CountFailure
      <4>3. CASE n = logins[t].name
        <5>1. t \in InFlight(logins, n) /\ failures'[n] = failures[n] + 1
          BY <2>1, <4>2, <4>3 DEF InFlight
        <5>2. Cardinality(InFlight(logins', n)) = Cardinality(InFlight(logins, n)) - 1
          BY <2>2, <4>1, <5>1, FS_RemoveElement
        <5>3. QED
          BY <1>2, <2>1, <2>2, <5>1, <5>2
      <4>4. CASE n # logins[t].name
        <5>1. InFlight(logins', n) = InFlight(logins, n) /\ failures'[n] = failures[n]
          BY <2>1, <4>1, <4>2, <4>4 DEF InFlight
        <5>2. QED
          BY <2>1, <5>1
      <4>5. QED
        BY <4>3, <4>4
    <3>7. CASE ClearFailures(t)
      <4>1. InFlight(logins', n) \subseteq InFlight(logins, n)
        BY <3>5, <3>7 DEF ClearFailures
      <4>2. Cardinality(InFlight(logins', n)) <= Cardinality(InFlight(logins, n))
        BY <2>2, <4>1, FS_Subset
      <4>3. failures'[n] = 0 \/ failures'[n] = failures[n]
        BY <2>1, <3>7 DEF ClearFailures
      <4>4. QED
        BY <1>2, <2>1, <2>2, <4>2, <4>3
    <3>8. QED
      BY <2>5, <2>7, <3>2, <3>3, <3>4, <3>6, <3>7 DEF LoginStep
  <2>8. CASE RequestStep
    BY <2>4, <2>8 DEF RequestStep, Present, Lapse, AuthenticateBasic, Touch, RevokeRefused,
                      Serve, Logout, handlers
  <2>9. CASE AdminStep
    <3>1. failures' = failures /\ logins' = logins
      BY <2>9, Zenon DEF AdminStep, CreateUser, UpdateUser, CreateService, UpdateService, RevokeSessions,
                  CheckOwner, IssueToken, RevokeAll, RevokeToken, handlers
    <3>2. QED
      BY <2>4, <3>1
  <2>10. CASE SystemStep
    <3>1. ASSUME NEW m \in Names, ForgetFailure(m)
          PROVE  Sum(failures', logins', n) <= Bound
      BY <2>1, <2>3, <3>1 DEF ForgetFailure
    <3>2. CASE SyncApply \/ PurgeSessions \/ \E seen \in SUBSET Names : SyncRead(seen)
      BY <2>4, <3>2 DEF SyncApply, PurgeSessions, SyncRead, handlers
    <3>3. ASSUME NEW b \in Backends, NEW seeded \in SUBSET Names, Restart(b, seeded)
          PROVE  Sum(failures', logins', n) <= Bound
      <4>1. failures' = [m \in Names |-> 0] /\ logins' = [t \in Threads |-> NoLogin]
        BY <3>3 DEF Restart
      <4>2. InFlight(logins', n) = {}
        BY <4>1 DEF InFlight, NoLogin
      <4>3. QED
        BY <2>3, <4>1, <4>2
    <3>4. QED
      BY <2>10, <3>1, <3>2, <3>3 DEF SystemStep
  <2>11. CASE UNCHANGED vars
    BY <2>4, <2>11 DEF vars
  <2>12. QED
    BY <2>7, <2>8, <2>9, <2>10, <2>11 DEF Next
<1>5. QED
  BY <1>3, <1>4, IdentityInvariant, PTL DEF Spec
==============================================================================
