------------------------------ MODULE Sessions ------------------------------
(* Accounts, logins and refresh tokens: src/modules/auth and src/modules/users with
   src/lib/lockout.ts. One e-mail address, whose account may be created, deleted and created
   again (each time with a new id), and requests that interleave at their awaits. A request is
   [op, at, id, sid, hash, pw]: what it is, the await it stands at, and the user, session, token
   hash and password it has read. Passwords are numbered; only equality with the stored one
   matters. Refresh tokens stand for their hashes and are numbered as they are minted. *)
EXTENDS Naturals, FiniteSets

CONSTANTS Procs,         \* concurrent requests
          MaxUsers, MaxSessions, MaxHashes, MaxPasswords, MaxTokens,   \* bounds of the model
          MaxAttempts,   \* AUTH_LOGIN_MAX_ATTEMPTS
          MaxIpAttempts, \* AUTH_LOGIN_IP_MAX_ATTEMPTS
          Mixes          \* the combinations of operations whose interleavings are explored

UserIds == 1..MaxUsers
Sids == 1..MaxSessions
Hashes == 1..MaxHashes
Subjects == {"email", "ip"}

ASSUME SessionsAssumption ==
    /\ {MaxUsers, MaxSessions, MaxHashes, MaxTokens} \subseteq Nat
    /\ MaxPasswords \in Nat \ {0} /\ MaxAttempts \in Nat \ {0} /\ MaxIpAttempts \in Nat \ {0}
    /\ IsFiniteSet(Procs)

VARIABLES
    users,     \* the user rows: [provider, status, password], or NoUser
    created,   \* ids given out
    sessions,  \* the session rows: [user, hash, revoked, expired], or NoRow; pw and late (below)
    opened,    \* session ids given out
    minted,    \* hashes given out
    used,      \* refresh_used:<hash> -> session id, 0 when absent
    fails,     \* lockout:login:<subject> counters
    ttl,       \* which of them have an expiry
    keys,      \* single-use keys in Redis: [kind][user] -> how many (oauth states under user 0)
    windows,   \* the resend and reset windows of 60 s that are open
    req,       \* the requests under way
    heir,      \* (history) what each hash was exchanged for
    gone,      \* (history) markers that have run out
    cut,       \* (history) requests that died at the await they stood at
    ops        \* the mix of operations of this behaviour

dbVars == <<users, created, sessions, opened, minted>>
redisVars == <<used, fails, ttl, keys, windows>>
historyVars == <<heir, gone>>
sessionsVars == <<dbVars, redisVars, historyVars, req, cut, ops>>

NoUser == [provider |-> "none", status |-> "none", password |-> 0]
NoRow == [user |-> 0, hash |-> 0, revoked |-> FALSE, expired |-> FALSE, pw |-> 0, late |-> FALSE]
First(op, at) == [op |-> op, at |-> at, id |-> 0, sid |-> 0, hash |-> 0, pw |-> 0]
Idle == First("none", "none")

Goto(p, r) == req' = [req EXCEPT ![p] = r]
Done(p) == Goto(p, Idle)
To(p, at) == Goto(p, [req[p] EXCEPT !.at = at])
At(p, op, at) == req[p].op = op /\ req[p].at = at
Starts(p, op) == op \in ops /\ req[p] = Idle

Accounts == {u \in UserIds : users[u] # NoUser}
findUserByEmail == IF Accounts = {} THEN 0 ELSE CHOOSE u \in Accounts : TRUE

\* requireAuth: the session of the access token is there, not revoked and not expired.
requireAuth(s) == sessions[s] # NoRow /\ ~sessions[s].revoked /\ ~sessions[s].expired

-----------------------------------------------------------------------------
(* Registration and verification *)

\* register(): the uniqueness check before the insert ...
RegisterCheck(p) == /\ Starts(p, "register") /\ Accounts = {}
                    /\ Goto(p, First("register", "create"))
                    /\ UNCHANGED <<dbVars, redisVars, historyVars, cut, ops>>

\* ... the insert, which the unique e-mail column refuses after a race (P2002) ...
createUser(u) == /\ created < MaxUsers /\ created' = created + 1
                 /\ users' = [users EXCEPT ![created + 1] = u]
                 /\ UNCHANGED <<sessions, opened, minted>>

RegisterCreateUnchecked(p) ==
    /\ At(p, "register", "create")
    /\ createUser([provider |-> "email", status |-> "pending_verification", password |-> 1])
    /\ Goto(p, [req[p] EXCEPT !.at = "mail", !.id = created + 1])
    /\ UNCHANGED <<redisVars, historyVars, cut, ops>>
RegisterCreate(p) == /\ At(p, "register", "create")
                     /\ \/ Accounts # {} /\ Done(p) /\ UNCHANGED dbVars
                        \/ /\ Accounts = {}
                           /\ createUser([provider |-> "email", status |-> "pending_verification", password |-> 1])
                           /\ Goto(p, [req[p] EXCEPT !.at = "mail", !.id = created + 1])
                     /\ UNCHANGED <<redisVars, historyVars, cut, ops>>

\* ... and the token of the mail that register, resendVerification and requestPasswordReset send
\* after their answer. A failure is logged.
MailKind(op) == IF op = "reset" THEN "reset" ELSE "verify"
MailToken(p) == /\ req[p].at = "mail"
                /\ LET k == MailKind(req[p].op)
                       u == req[p].id
                   IN  \/ keys[k][u] < MaxTokens /\ keys' = [keys EXCEPT ![k][u] = @ + 1]
                       \/ UNCHANGED keys
                /\ Done(p)
                /\ UNCHANGED <<dbVars, used, fails, ttl, windows, historyVars, cut, ops>>

\* SET NX EX 60 first, then the user: a mail only for an account it makes sense for.
resendVerification(p) ==
    /\ Starts(p, "resend") /\ "resend" \notin windows
    /\ windows' = windows \cup {"resend"}
    /\ LET u == findUserByEmail
       IN  IF u # 0 /\ users[u].status = "pending_verification"
           THEN Goto(p, [First("resend", "mail") EXCEPT !.id = u])
           ELSE UNCHANGED req
    /\ UNCHANGED <<dbVars, used, fails, ttl, keys, historyVars, cut, ops>>

requestPasswordReset(p) ==
    /\ Starts(p, "reset") /\ "reset" \notin windows
    /\ windows' = windows \cup {"reset"}
    /\ LET u == findUserByEmail
       IN  IF u # 0 /\ users[u].provider = "email"
           THEN Goto(p, [First("reset", "mail") EXCEPT !.id = u])
           ELSE UNCHANGED req
    /\ UNCHANGED <<dbVars, used, fails, ttl, keys, historyVars, cut, ops>>

WindowEnds == \E w \in windows : /\ windows' = windows \ {w}
                                 /\ UNCHANGED <<dbVars, used, fails, ttl, keys, historyVars, req, cut, ops>>

\* GETDEL of a single-use key.
Take(kind, u) == /\ keys[kind][u] > 0
                 /\ keys' = [keys EXCEPT ![kind][u] = @ - 1]
                 /\ UNCHANGED <<used, fails, ttl, windows>>

\* verifyEmail(): take the token, read the status, write the status.
VerifyTake(p) == /\ Starts(p, "verify")
                 /\ \E u \in UserIds : /\ Take("verify", u)
                                       /\ Goto(p, [First("verify", "read") EXCEPT !.id = u])
                 /\ UNCHANGED <<dbVars, historyVars, cut, ops>>

VerifyRead(p) == /\ At(p, "verify", "read")
                 /\ IF users[req[p].id].status = "pending_verification" THEN To(p, "write") ELSE Done(p)
                 /\ UNCHANGED <<dbVars, redisVars, historyVars, cut, ops>>

VerifyWrite(p) == /\ At(p, "verify", "write")
                  /\ users' = IF users[req[p].id] = NoUser THEN users
                              ELSE [users EXCEPT ![req[p].id].status = "verified"]
                  /\ Done(p)
                  /\ UNCHANGED <<created, sessions, opened, minted, redisVars, historyVars, cut, ops>>

\* activate() and checkout.session.completed end the onboarding of a verified user.
transitionToCompleteOnboarding ==
    /\ "activate" \in ops
    /\ \E u \in Accounts : /\ users[u].status = "verified"
                           /\ users' = [users EXCEPT ![u].status = "complete"]
    /\ UNCHANGED <<created, sessions, opened, minted, redisVars, historyVars, req, cut, ops>>

-----------------------------------------------------------------------------
(* Login, lockout and sessions *)

getLockoutState(s) == fails[s] >= (IF s = "email" THEN MaxAttempts ELSE MaxIpAttempts)

LoginUnchecked(p) == /\ Starts(p, "login")
                     /\ Goto(p, First("login", "lookup"))
                     /\ UNCHANGED <<dbVars, redisVars, historyVars, cut, ops>>
LoginCheck(p) == /\ Starts(p, "login")
                 /\ ~ \E s \in Subjects : getLockoutState(s)
                 /\ Goto(p, First("login", "lookup"))
                 /\ UNCHANGED <<dbVars, redisVars, historyVars, cut, ops>>

\* The user is read and the password compared with what was read; an unknown user and one
\* without a password fail alike.
LoginLookup(p) ==
    /\ At(p, "login", "lookup")
    /\ LET u == findUserByEmail
       IN  \/ "guess" \in ops /\ To(p, "failed")
           \/ /\ u # 0 /\ users[u].password > 0
              /\ Goto(p, [req[p] EXCEPT !.at = "clear", !.id = u, !.pw = users[u].password])
    /\ UNCHANGED <<dbVars, redisVars, historyVars, cut, ops>>

\* recordFailedLogin, for both subjects: INCR, and PEXPIRE where it was the first failure
\* (pw remembers for which: 1 e-mail, 2 IP, 3 both).
FirstOfEmail(f) == IF f["email"] = 1 THEN 1 ELSE 0
FirstOf(f) == (IF f["email"] = 1 THEN 1 ELSE 0) + (IF f["ip"] = 1 THEN 2 ELSE 0)
LoginFailed(p) == /\ At(p, "login", "failed")
                  /\ fails' = [s \in Subjects |-> fails[s] + 1]
                  /\ IF FirstOf(fails') = 0 THEN Done(p)
                     ELSE Goto(p, [req[p] EXCEPT !.at = "expire", !.pw = FirstOf(fails')])
                  /\ UNCHANGED <<dbVars, used, ttl, keys, windows, historyVars, cut, ops>>

Awaited(r) == {s \in Subjects : r.at = "expire" /\ r.pw \in {3, IF s = "email" THEN 1 ELSE 2}}
LoginExpire(p) == /\ At(p, "login", "expire")
                  /\ ttl' = [s \in Subjects |-> ttl[s] \/ (s \in Awaited(req[p]) /\ fails[s] > 0)]
                  /\ Done(p)
                  /\ UNCHANGED <<dbVars, used, fails, keys, windows, historyVars, cut, ops>>

LockoutEnds == \E s \in Subjects :
                 /\ ttl[s]
                 /\ fails' = [fails EXCEPT ![s] = 0] /\ ttl' = [ttl EXCEPT ![s] = FALSE]
                 /\ UNCHANGED <<dbVars, used, keys, windows, historyVars, req, cut, ops>>

clearLockout(p) == /\ At(p, "login", "clear")
                   /\ fails' = [s \in Subjects |-> 0] /\ ttl' = [s \in Subjects |-> FALSE]
                   /\ To(p, "session")
                   /\ cut' = {r \in cut : r.at # "expire"}
                   /\ UNCHANGED <<dbVars, used, keys, windows, historyVars, ops>>

\* createSession, the last write of login and of the Google callback; the foreign key refuses a
\* user who has gone. late: the password it was opened with is no longer the user's.
createSession(p) ==
    /\ req[p].at = "session"
    /\ LET u == req[p].id
       IN  \/ users[u] = NoUser /\ UNCHANGED <<sessions, opened, minted>>
           \/ /\ users[u] # NoUser /\ opened < MaxSessions /\ minted < MaxHashes
              /\ opened' = opened + 1 /\ minted' = minted + 1
              /\ sessions' = [sessions EXCEPT ![opened + 1] =
                     [user |-> u, hash |-> minted + 1, revoked |-> FALSE, expired |-> FALSE,
                      pw |-> req[p].pw, late |-> users[u].password # req[p].pw]]
    /\ Done(p)
    /\ UNCHANGED <<users, created, redisVars, historyVars, cut, ops>>

\* revokeSession is an update by id: it fails when the row has gone.
revokeSession(p) == /\ req[p].at = "revoke"
                    /\ sessions' = IF sessions[req[p].sid] = NoRow THEN sessions
                                   ELSE [sessions EXCEPT ![req[p].sid].revoked = TRUE]
                    /\ Done(p)
                    /\ UNCHANGED <<users, created, opened, minted, redisVars, historyVars, cut, ops>>

\* logout(): only an access token that still verifies names a session to revoke. (One that does
\* not ends the request without a write.)
logout(p) == /\ Starts(p, "logout")
             /\ \E s \in Sids : /\ sessions[s] # NoRow /\ ~sessions[s].revoked
                                /\ Goto(p, [First("logout", "revoke") EXCEPT !.sid = s])
             /\ UNCHANGED <<dbVars, redisVars, historyVars, cut, ops>>

\* revokeSessionById(): any session of the caller.
revokeSessionById(p) ==
    /\ Starts(p, "revoke")
    /\ \E s, mine \in Sids :
         /\ requireAuth(mine) /\ sessions[s] # NoRow /\ sessions[s].user = sessions[mine].user
         /\ ~sessions[s].revoked
         /\ Goto(p, [First("revoke", "revoke") EXCEPT !.sid = s])
    /\ UNCHANGED <<dbVars, redisVars, historyVars, cut, ops>>

SessionExpires == /\ "expiry" \in ops
                  /\ \E s \in Sids : /\ sessions[s] # NoRow /\ ~sessions[s].expired
                                     /\ sessions' = [sessions EXCEPT ![s].expired = TRUE]
                  /\ UNCHANGED <<users, created, opened, minted, redisVars, historyVars, req, cut, ops>>

-----------------------------------------------------------------------------
(* refresh() *)

\* A token reaches its client with the answer that follows the marking of its predecessor.
Handed(h) == ~ \E r \in cut \cup {req[p] : p \in Procs} : r.at = "mark" /\ heir[r.hash] = h

\* The session is looked up by the hash of the token presented: the current one or an old one.
RefreshFind(p) ==
    /\ Starts(p, "refresh")
    /\ \E h \in {h \in 1..minted : Handed(h)} :
         LET owner == {s \in Sids : sessions[s].hash = h}
             go(at, s) == Goto(p, [First("refresh", at) EXCEPT !.hash = h, !.sid = s])
         IN  \/ owner = {} /\ go("reused", 0)
             \/ \E s \in owner : requireAuth(s) /\ go("rotate", s)
    /\ UNCHANGED <<dbVars, redisVars, historyVars, cut, ops>>

\* A hash that is nobody's: if it is marked as spent, its session is revoked.
RefreshReused(p) ==
    /\ At(p, "refresh", "reused")
    /\ IF used[req[p].hash] = 0 THEN Done(p)
       ELSE Goto(p, [req[p] EXCEPT !.at = "revoke", !.sid = used[req[p].hash]])
    /\ UNCHANGED <<dbVars, redisVars, historyVars, cut, ops>>

\* rotateSessionRefreshHash: the conditional update of the row. Expiry is not a condition: a
\* session that expires after the lookup is renewed.
rotateAnyHash(p) == ~sessions[req[p].sid].revoked /\ sessions[req[p].sid] # NoRow
rotateSessionRefreshHash(p) ==
    /\ sessions[req[p].sid].hash = req[p].hash
    /\ ~sessions[req[p].sid].revoked

RefreshRotate(p) ==
    /\ At(p, "refresh", "rotate")
    /\ IF rotateSessionRefreshHash(p)
       THEN /\ minted < MaxHashes /\ minted' = minted + 1
            /\ sessions' = [sessions EXCEPT ![req[p].sid].hash = minted + 1,
                                            ![req[p].sid].expired = FALSE]
            /\ heir' = [heir EXCEPT ![req[p].hash] = minted + 1]
            /\ To(p, "mark")
       ELSE Done(p) /\ UNCHANGED <<minted, sessions, heir>>
    /\ UNCHANGED <<users, created, opened, redisVars, gone, cut, ops>>

\* The spent hash is marked for as long as a token lives, and the answer goes out.
RefreshMarkNew(p) == /\ At(p, "refresh", "mark")
                     /\ used' = [used EXCEPT ![sessions[req[p].sid].hash] = req[p].sid]
                     /\ Done(p)
                     /\ UNCHANGED <<dbVars, fails, ttl, keys, windows, historyVars, cut, ops>>
RefreshMark(p) == /\ At(p, "refresh", "mark")
                  /\ used' = [used EXCEPT ![req[p].hash] = req[p].sid]
                  /\ Done(p)
                  /\ UNCHANGED <<dbVars, fails, ttl, keys, windows, historyVars, cut, ops>>

MarkerExpires == /\ "expiry" \in ops
                 /\ \E h \in Hashes : /\ used[h] # 0
                                      /\ used' = [used EXCEPT ![h] = 0] /\ gone' = gone \cup {h}
                 /\ UNCHANGED <<dbVars, fails, ttl, keys, windows, heir, req, cut, ops>>

-----------------------------------------------------------------------------
(* Password reset, Google sign-in, deletion *)

ConfirmTake(p) == /\ Starts(p, "confirm")
                  /\ \E u \in UserIds : /\ Take("reset", u)
                                        /\ Goto(p, [First("confirm", "read") EXCEPT !.id = u])
                  /\ UNCHANGED <<dbVars, historyVars, cut, ops>>

ConfirmRead(p) == /\ At(p, "confirm", "read")
                  /\ IF users[req[p].id].provider = "email" THEN To(p, "write") ELSE Done(p)
                  /\ UNCHANGED <<dbVars, redisVars, historyVars, cut, ops>>

updatePassword(p, then) ==
    LET u == req[p].id
    IN  /\ users[u].password < MaxPasswords
        /\ users' = IF users[u] = NoUser THEN users ELSE [users EXCEPT ![u].password = @ + 1]
        /\ IF users[u] = NoUser THEN Done(p) ELSE then
        /\ UNCHANGED <<created, sessions, opened, minted>>

revokeAllSessionsForUser(p) ==
    /\ sessions' = [s \in Sids |-> IF sessions[s].user = req[p].id
                                   THEN [sessions[s] EXCEPT !.revoked = TRUE] ELSE sessions[s]]
    /\ UNCHANGED <<users, created, opened, minted>>

\* confirmPasswordReset(): first the password, then every session of the user.
ConfirmSwapped(p) ==
    /\ \/ At(p, "confirm", "write") /\ revokeAllSessionsForUser(p) /\ To(p, "revokeAll")
       \/ At(p, "confirm", "revokeAll") /\ updatePassword(p, Done(p))
    /\ UNCHANGED <<redisVars, historyVars, cut, ops>>
confirmPasswordReset(p) ==
    /\ \/ At(p, "confirm", "write") /\ updatePassword(p, To(p, "revokeAll"))
       \/ At(p, "confirm", "revokeAll") /\ revokeAllSessionsForUser(p) /\ Done(p)
    /\ UNCHANGED <<redisVars, historyVars, cut, ops>>

googleOAuthInit == /\ "google" \in ops /\ keys["oauth"][0] < MaxTokens
                   /\ keys' = [keys EXCEPT !["oauth"][0] = @ + 1]
                   /\ UNCHANGED <<dbVars, used, fails, ttl, windows, historyVars, req, cut, ops>>

\* handleGoogleCallback(): the state is taken; without a valid code or identity the request ends.
GoogleTake(p) == /\ Starts(p, "google")
                 /\ Take("oauth", 0)
                 /\ Goto(p, First("google", "find")) \/ UNCHANGED req
                 /\ UNCHANGED <<dbVars, historyVars, cut, ops>>

\* An account that signs in with a password is not merged.
GoogleFind(p) ==
    /\ At(p, "google", "find")
    /\ LET u == findUserByEmail
       IN  \/ u = 0 /\ To(p, "create")
           \/ /\ u # 0 /\ users[u].provider = "google"
              /\ Goto(p, [req[p] EXCEPT !.at = "session", !.id = u])
           \/ u # 0 /\ users[u].provider # "google" /\ Done(p)
    /\ UNCHANGED <<dbVars, redisVars, historyVars, cut, ops>>

GoogleCreate(p) ==
    /\ At(p, "google", "create")
    /\ \/ Accounts # {} /\ Done(p) /\ UNCHANGED dbVars
       \/ /\ Accounts = {}
          /\ createUser([provider |-> "google", status |-> "verified", password |-> 0])
          /\ Goto(p, [req[p] EXCEPT !.at = "session", !.id = created + 1])
    /\ UNCHANGED <<redisVars, historyVars, cut, ops>>

\* deleteMe(): the paid plan is cancelled (an await), then the row goes, its sessions with it.
DeleteStart(p) == /\ Starts(p, "delete")
                  /\ \E s \in Sids : /\ requireAuth(s)
                                     /\ Goto(p, [First("delete", "row") EXCEPT !.id = sessions[s].user])
                  /\ UNCHANGED <<dbVars, redisVars, historyVars, cut, ops>>

deleteUser(p) == /\ At(p, "delete", "row")
                 /\ users' = [users EXCEPT ![req[p].id] = NoUser]
                 /\ sessions' = [s \in Sids |-> IF sessions[s].user = req[p].id THEN NoRow ELSE sessions[s]]
                 /\ Done(p)
                 /\ UNCHANGED <<created, opened, minted, redisVars, historyVars, cut, ops>>

\* A request dies at its await: a query that fails, or the whole process.
Dies(p) == /\ "fault" \in ops /\ req[p] # Idle
           /\ cut' = IF req[p].at \in {"mark", "expire", "revokeAll"} THEN cut \cup {req[p]} ELSE cut
           /\ Done(p)
           /\ UNCHANGED <<dbVars, redisVars, historyVars, ops>>

SessionsInit ==
    /\ users = [u \in UserIds |-> NoUser] /\ created = 0
    /\ sessions = [s \in Sids |-> NoRow] /\ opened = 0 /\ minted = 0
    /\ used = [h \in Hashes |-> 0]
    /\ fails = [s \in Subjects |-> 0] /\ ttl = [s \in Subjects |-> FALSE]
    /\ keys = [k \in {"verify", "reset", "oauth"} |-> [u \in 0..MaxUsers |-> 0]]
    /\ windows = {} /\ req = [p \in Procs |-> Idle]
    /\ heir = [h \in Hashes |-> 0] /\ gone = {} /\ cut = {} /\ ops \in Mixes

Request(p) ==
    \/ RegisterCheck(p) \/ RegisterCreate(p) \/ MailToken(p)
    \/ resendVerification(p) \/ requestPasswordReset(p)
    \/ VerifyTake(p) \/ VerifyRead(p) \/ VerifyWrite(p)
    \/ LoginCheck(p) \/ LoginLookup(p) \/ LoginFailed(p) \/ LoginExpire(p) \/ clearLockout(p)
    \/ createSession(p) \/ revokeSession(p) \/ logout(p) \/ revokeSessionById(p)
    \/ RefreshFind(p) \/ RefreshReused(p) \/ RefreshRotate(p) \/ RefreshMark(p)
    \/ ConfirmTake(p) \/ ConfirmRead(p) \/ confirmPasswordReset(p)
    \/ GoogleTake(p) \/ GoogleFind(p) \/ GoogleCreate(p)
    \/ DeleteStart(p) \/ deleteUser(p) \/ Dies(p)

Passing == WindowEnds \/ LockoutEnds \/ SessionExpires \/ MarkerExpires

SessionsNext == \/ \E p \in Procs : Request(p)
                \/ transitionToCompleteOnboarding \/ googleOAuthInit \/ Passing

SessionsSpec == SessionsInit /\ [][SessionsNext]_sessionsVars

-----------------------------------------------------------------------------
(* Properties *)

\* The rows, the counters and the requests.
SessionsTypeOK ==
    /\ users \in [UserIds -> [provider : {"none", "email", "google"}, password : 0..MaxPasswords,
                              status : {"none", "pending_verification", "verified", "complete"}]]
    /\ created \in 0..MaxUsers /\ opened \in 0..MaxSessions /\ minted \in 0..MaxHashes
    /\ sessions \in [Sids -> [user : 0..MaxUsers, hash : 0..MaxHashes, revoked : {TRUE, FALSE},
                              expired : {TRUE, FALSE}, pw : 0..MaxPasswords, late : {TRUE, FALSE}]]
    /\ used \in [Hashes -> 0..MaxSessions] /\ heir \in [Hashes -> 0..MaxHashes]
    /\ keys \in [{"verify", "reset", "oauth"} -> [0..MaxUsers -> 0..MaxTokens]]
    /\ Cardinality(Accounts) <= 1

\* Refresh tokens keep the promise of TokenFamily, whatever requests overlap, are repeated with
\* an old token or die half-way: a session has one exchangeable token, each token is exchanged
\* for at most one other, and a session that was revoked or deleted never gets a token again.
Family == INSTANCE TokenFamily
            WITH Families <- Sids, Tokens <- Hashes, NoToken <- 0,
                 valid <- [s \in Sids |-> IF sessions[s].revoked THEN 0 ELSE sessions[s].hash],
                 seen <- 1..minted,
                 ended <- {s \in 1..opened : sessions[s] = NoRow \/ sessions[s].revoked}
RefreshIsAFamily == Family!FamilySpec

\* Reuse detection (auth.service.ts:416) knows every spent token: its marker is there, or has
\* lived as long as a token may, or the request that spent it is about to write it or died before.
SpentIsMarked ==
    \A h \in Hashes : heir[h] # 0 =>
        \/ used[h] # 0 \/ h \in gone
        \/ \E r \in cut \cup {req[p] : p \in Procs} : r.at = "mark" /\ r.hash = h

\* After a password reset no session lives on that the old password opened, except one whose
\* login had compared the old password before it was replaced and wrote its row after the
\* others were revoked, and unless the reset died between its two writes.
ResetEndsOldSessions ==
    \A s \in Sids :
        (~sessions[s].revoked /\ ~sessions[s].late /\ sessions[s].user # 0
            /\ sessions[s].pw < users[sessions[s].user].password) =>
        \E r \in cut \cup {req[p] : p \in Procs} : r.at = "revokeAll" /\ r.id = sessions[s].user

\* A lockout ends: a counter that has no expiry is one whose PEXPIRE is on its way, unless the
\* request died between INCR and PEXPIRE.
LockoutHasEnd ==
    \A s \in Subjects : (fails[s] > 0 /\ ~ttl[s]) =>
        \E r \in cut \cup {req[p] : p \in Procs} : s \in Awaited(r)

\* Requests that check the lockout together may overshoot it, by no more than the requests that
\* were under way.
AttemptsAreBounded == fails["email"] <= MaxAttempts - 1 + Cardinality(Procs)

\* auth.service.ts:249, "already verified users get a success response without re-writing":
\* verifying never takes an account back from complete to verified.
OnboardingNeverGoesBack ==
    [][\A u \in UserIds : users[u].status = "complete" => users'[u].status # "verified"]_sessionsVars
=============================================================================
