---------------------------- MODULE AccessProofs ----------------------------
(***************************************************************************)
(* Proofs about Sessions and Sockets, for any number of requests, users,   *)
(* sessions, tokens and sockets, any mix of operations and any crash.      *)
(***************************************************************************)
EXTENDS Sockets, FiniteSetTheorems, TLAPS

UserTypes ==
    /\ users \in [UserIds -> [provider : {"none", "email", "google"}, password : 0..MaxPasswords,
                              status : {"none", "pending_verification", "verified", "complete"}]]
    /\ created \in 0..MaxUsers
SessionTypes ==
    /\ opened \in 0..MaxSessions /\ minted \in 0..MaxHashes
    /\ sessions \in [Sids -> [user : 0..MaxUsers, hash : 0..MaxHashes, revoked : {TRUE, FALSE},
                              expired : {TRUE, FALSE}, pw : 0..MaxPasswords, late : {TRUE, FALSE}]]
TokenTypes == used \in [Hashes -> 0..MaxSessions] /\ heir \in [Hashes -> 0..MaxHashes]
KeyTypes == keys \in [{"verify", "reset", "oauth"} -> [0..MaxUsers -> 0..MaxTokens]]
CounterTypes == fails \in [Subjects -> Nat] /\ ttl \in [Subjects -> BOOLEAN]

\* A request and what it may have read.
Ops == {"none", "register", "resend", "reset", "verify", "login", "logout", "revoke", "refresh",
        "confirm", "google", "delete", "ticket"}
Awaits == {"none", "create", "mail", "read", "write", "lookup", "failed", "expire", "clear",
           "session", "revoke", "rotate", "reused", "mark", "revokeAll", "find", "row",
           "wsSession", "wsPlan", "wsOpen"}
RequestRecord == [op : Ops, at : Awaits, id : 0..MaxUsers, sid : 0..MaxSessions,
                  hash : 0..MaxHashes, pw : Nat]
RequestTypes == req \in [Procs -> RequestRecord] /\ cut \subseteq RequestRecord

PlanTypes == /\ plan \in [UserIds -> {"free", "pro"}] /\ changes \in 0..MaxPlanChanges
             /\ published \in [UserIds -> {"no", "due", "sent"}]
             /\ closing \subseteq UserIds /\ missed \subseteq UserIds
             /\ server \in {"off", "starting", "on", "deaf", "stopping"}
TicketTypes == tickets \in [Sids -> 0..MaxTickets]
SocketTypes == sockets \in [SocketIds -> [user : 0..MaxUsers, late : {TRUE, FALSE},
                                          st : {"none", "open", "closing"}]]

Types == /\ UserTypes /\ SessionTypes /\ TokenTypes /\ KeyTypes /\ CounterTypes /\ RequestTypes
         /\ PlanTypes /\ TicketTypes /\ SocketTypes

\* Ids are given out in order, and there is one account at a time.
UserShape == /\ \A u \in UserIds : users[u] # NoUser => u <= created
             /\ \A u, v \in UserIds : users[u] # NoUser /\ users[v] # NoUser => u = v

\* The foreign key: a session row belongs to a user who is there; its hash was minted.
SessionShape ==
    \A s \in Sids : sessions[s] # NoRow =>
        /\ s <= opened
        /\ sessions[s].user \in UserIds /\ users[sessions[s].user] # NoUser
        /\ sessions[s].hash \in 1..minted

\* A socket belongs to a user who has existed.
SocketShape == \A i \in SocketIds : sockets[i].user <= created

\* What a request has read by the await it stands at.
HasRead(r) ==
    /\ r.at \in {"mail", "read", "write", "revokeAll", "clear", "session", "wsPlan", "wsOpen"}
         => r.id \in UserIds
    /\ r.at \in {"wsPlan", "wsOpen"} => r.id <= created
    /\ r.at \in {"find", "create", "clear", "session"} => r.pw <= MaxPasswords
    /\ r.at \in {"rotate", "mark", "revoke", "wsSession"} => r.sid \in Sids
    /\ r.at \in {"rotate", "mark", "reused"} => r.hash \in 1..minted
RequestShape == \A p \in Procs : HasRead(req[p])

\* The logins that have passed the lockout check and are not yet counted.
Trying == {p \in Procs : req[p].at \in {"lookup", "failed"}}
TryingIsCounted == fails["email"] + Cardinality(Trying) <= MaxAttempts - 1 + Cardinality(Procs)

IInv == /\ Types /\ UserShape /\ SessionShape /\ SocketShape /\ RequestShape
        /\ SpentIsMarked /\ ResetEndsOldSessions /\ LockoutHasEnd /\ TryingIsCounted
        /\ FreeHasNoSocket

\* The awaits that a property waits for, and the requests that stand or died there.
Owed == {"mark", "expire", "revokeAll"}
Waiting == cut \cup {req[p] : p \in Procs}

\* The bounds are numbers.
LEMMA Bounds == /\ MaxUsers \in Nat /\ MaxSessions \in Nat /\ MaxHashes \in Nat /\ MaxTokens \in Nat
                /\ MaxPasswords \in Nat \ {0} /\ MaxAttempts \in Nat \ {0}
                /\ MaxSockets \in Nat /\ MaxTickets \in Nat /\ MaxPlanChanges \in Nat \ {0}
                /\ IsFiniteSet(Procs)
BY SessionsAssumption, SocketsAssumption

USE Bounds

-----------------------------------------------------------------------------
(* Frames: what keeps each part of the invariant when the state it speaks of is left alone. *)

\* A request that owes nothing leaves, and whatever was owed is still owed.
LEMMA OwedIsKept ==
    ASSUME NEW p \in Procs, \A q \in Procs : q # p => req'[q] = req[q],
           req[p].at \notin Owed, cut' = cut
    PROVE  \A x \in Waiting : x.at \in {"mark", "expire", "revokeAll"} => x \in Waiting'
BY DEF Waiting, Owed

\* Reuse detection depends on the markers and on the rotations in progress.
LEMMA MarkedFrame ==
    ASSUME SpentIsMarked, UNCHANGED <<used, heir, gone>>,
           \A x \in Waiting : x.at = "mark" => x \in Waiting'
    PROVE  SpentIsMarked'
BY DEF SpentIsMarked, Waiting

\* The end of a lockout depends on the counters and on the failed logins in progress.
LEMMA LockoutFrame ==
    ASSUME LockoutHasEnd, UNCHANGED <<fails, ttl>>,
           \A x \in Waiting : x.at = "expire" => x \in Waiting'
    PROVE  LockoutHasEnd'
BY DEF LockoutHasEnd, Waiting, Awaited

\* A reset depends on who opened which session with what, and on the resets in progress.
LEMMA ResetFrame ==
    ASSUME ResetEndsOldSessions,
           \A s \in Sids :
              \/ /\ sessions'[s].user = sessions[s].user /\ sessions'[s].pw = sessions[s].pw
                 /\ sessions'[s].late = sessions[s].late
                 /\ sessions[s].revoked => sessions'[s].revoked
                 /\ sessions[s].user # 0 =>
                      users'[sessions[s].user].password = users[sessions[s].user].password
              \/ sessions'[s].user = 0 \/ sessions'[s].revoked,
           \A x \in Waiting : x.at = "revokeAll" => x \in Waiting'
    PROVE  ResetEndsOldSessions'
<1> SUFFICES ASSUME NEW s \in Sids,
                    (~sessions[s].revoked /\ ~sessions[s].late /\ sessions[s].user # 0
                       /\ sessions[s].pw < users[sessions[s].user].password)'
             PROVE  \E r \in Waiting' : r.at = "revokeAll" /\ r.id = sessions'[s].user
    BY DEF ResetEndsOldSessions, Waiting
<1>1. \E r \in Waiting : r.at = "revokeAll" /\ r.id = sessions[s].user
    BY DEF ResetEndsOldSessions, Waiting
<1> QED BY <1>1

\* The count of attempts only falls when a login leaves without having failed.
LEMMA TryingFrame ==
    ASSUME TryingIsCounted, CounterTypes, fails'["email"] <= fails["email"],
           fails'["email"] \in Nat, Trying' \subseteq Trying
    PROVE  TryingIsCounted'
<1>1. IsFiniteSet(Trying) /\ IsFiniteSet(Procs)
    BY FS_Subset, Trying \subseteq Procs DEF Trying
<1>2. Cardinality(Trying') <= Cardinality(Trying) /\ Cardinality(Trying') \in Nat
      /\ Cardinality(Trying) \in Nat /\ Cardinality(Procs) \in Nat
    BY <1>1, FS_Subset, FS_CardinalityType
<1> QED BY <1>2 DEF TryingIsCounted, CounterTypes, Subjects

\* A socket outlives its plan only as long as the same event is on its way.
LEMMA SocketFrame ==
    ASSUME FreeHasNoSocket, UNCHANGED <<plan, published, closing, missed, sockets>>,
           \A u \in UserIds : users'[u] # NoUser =>
               users[u] # NoUser \/ \A i \in SocketIds : sockets[i].user # u
    PROVE  FreeHasNoSocket'
BY DEF FreeHasNoSocket

\* A request goes on to its next await, and nothing is owed at the one it leaves.
Moves(p) == /\ req' \in [Procs -> RequestRecord]
            /\ \A q \in Procs : q # p => req'[q] = req[q]
            /\ HasRead(req[p])' /\ req[p].at \notin Owed
            /\ req'[p].at \in {"lookup", "failed"} => req[p].at = "lookup"

LEMMA Move ==
    ASSUME IInv, NEW p \in Procs, Moves(p),
           UNCHANGED <<dbVars, used, fails, ttl, historyVars, cut>>,
           UNCHANGED <<plan, changes, sockets, published, closing, missed, server>>,
           KeyTypes', TicketTypes'
    PROVE  IInv'
<1> USE DEF dbVars, historyVars, Moves
<1>1. Types'
    BY DEF IInv, Types, UserTypes, SessionTypes, TokenTypes, CounterTypes, RequestTypes, PlanTypes,
           SocketTypes
<1>2. /\ UserShape' /\ SessionShape' /\ SocketShape'
    BY DEF IInv, UserShape, SessionShape, SocketShape
<1>3. RequestShape'
    <2> SUFFICES ASSUME NEW q \in Procs PROVE HasRead(req[q])'
        BY DEF RequestShape
    <2>1. CASE q = p  BY <2>1 DEF IInv, Types, RequestTypes, HasRead
    <2>2. CASE q # p  BY <2>2 DEF IInv, Types, RequestTypes, HasRead, RequestShape
    <2> QED BY <2>1, <2>2
<1>4. \A x \in Waiting : x.at \in {"mark", "expire", "revokeAll"} => x \in Waiting'
    BY OwedIsKept DEF IInv, Types
<1>5. SpentIsMarked' /\ LockoutHasEnd'
    BY <1>4, MarkedFrame, LockoutFrame DEF IInv
<1>6. ResetEndsOldSessions'
    BY <1>4, ResetFrame DEF IInv
<1>7. TryingIsCounted'
    <2>1. Trying' \subseteq Trying
        BY DEF Trying, IInv, Types, RequestTypes
    <2> QED BY <2>1, TryingFrame DEF IInv, Types, CounterTypes, Subjects
<1>8. FreeHasNoSocket'
    BY SocketFrame DEF IInv
<1> QED BY <1>1, <1>2, <1>3, <1>5, <1>6, <1>7, <1>8 DEF IInv

-----------------------------------------------------------------------------
(* The steps, operation by operation *)

\* The one account, if there is one.
LEMMA FindUser ==
    /\ findUserByEmail # 0 => findUserByEmail \in UserIds /\ users[findUserByEmail] # NoUser
    /\ findUserByEmail = 0 <=> Accounts = {}
BY DEF findUserByEmail, Accounts, UserIds

\* A request that has just begun.
LEMMA FirstFields ==
    ASSUME NEW op \in Ops, NEW at \in Awaits
    PROVE  /\ First(op, at) \in RequestRecord
           /\ First(op, at).op = op /\ First(op, at).at = at /\ First(op, at).id = 0
           /\ First(op, at).sid = 0 /\ First(op, at).hash = 0 /\ First(op, at).pw = 0
BY DEF First, RequestRecord, Ops, Awaits

LEMMA IdleFields ==
    /\ Idle \in RequestRecord
    /\ Idle.op = "none" /\ Idle.at = "none" /\ Idle.id = 0
    /\ Idle.sid = 0 /\ Idle.hash = 0 /\ Idle.pw = 0
BY FirstFields DEF Idle, Ops, Awaits

\* A key taken, or one set, leaves a count.
LEMMA TakeKeeps ==
    ASSUME KeyTypes, NEW k \in {"verify", "reset", "oauth"}, NEW u \in 0..MaxUsers,
           Take(k, u) \/ (keys[k][u] < MaxTokens /\ keys' = [keys EXCEPT ![k][u] = @ + 1])
    PROVE  KeyTypes'
<1>1. keys[k] \in [0..MaxUsers -> 0..MaxTokens] /\ keys[k][u] \in 0..MaxTokens
    BY DEF KeyTypes
<1>2. CASE Take(k, u)
    <2>0. keys[k][u] - 1 \in 0..MaxTokens  BY <1>1, <1>2 DEF Take
    <2>1. [keys[k] EXCEPT ![u] = @ - 1] \in [0..MaxUsers -> 0..MaxTokens]
        BY <1>1, <2>0
    <2> QED BY <1>2, <2>1 DEF Take, KeyTypes
<1>3. CASE keys[k][u] < MaxTokens /\ keys' = [keys EXCEPT ![k][u] = @ + 1]
    <2>1. [keys[k] EXCEPT ![u] = @ + 1] \in [0..MaxUsers -> 0..MaxTokens]
        BY <1>1, <1>3
    <2> QED BY <1>3, <2>1 DEF KeyTypes
<1> QED BY <1>2, <1>3

\* The requests that only read, take a key or a window, and go on.
LEMMA Reads_Inv ==
    ASSUME IInv, NEW p \in Procs, UNCHANGED socketVars,
           \/ RegisterCheck(p) \/ MailToken(p) \/ resendVerification(p) \/ requestPasswordReset(p)
           \/ VerifyTake(p) \/ VerifyRead(p)
           \/ logout(p) \/ revokeSessionById(p)
           \/ ConfirmTake(p) \/ ConfirmRead(p) \/ GoogleTake(p) \/ DeleteStart(p)
    PROVE  IInv'
<1>0. TicketTypes' /\ req \in [Procs -> RequestRecord] /\ req[p] \in RequestRecord
    BY DEF socketVars, TicketTypes, IInv, Types, RequestTypes
<1>a. HasRead(Idle) /\ HasRead(req[p])
    BY IdleFields DEF IInv, HasRead, RequestShape
<1> USE <1>0, <1>a DEF Goto, Done, To, At, Starts, First, Idle, Owed, RequestRecord, Ops, Awaits, HasRead, Moves
<1>1. CASE RegisterCheck(p)
    <2>1. Moves(p)  BY <1>1 DEF RegisterCheck, dbVars
    <2>2. KeyTypes'  BY <1>1 DEF RegisterCheck, redisVars, IInv, Types, KeyTypes
    <2> QED BY <1>1, <2>1, <2>2, Move DEF RegisterCheck, redisVars, socketVars
<1>2. CASE MailToken(p)
    <2>1. Moves(p)  BY <1>2 DEF MailToken, dbVars
    <2>2. KeyTypes'
        <3> DEFINE k == MailKind(req[p].op)
        <3>1. k \in {"verify", "reset", "oauth"} /\ req[p].id \in 0..MaxUsers
            BY DEF MailKind
        <3>2. KeyTypes /\ UNCHANGED keys => KeyTypes'  BY DEF KeyTypes
        <3>3. KeyTypes  BY DEF IInv, Types
        <3> HIDE DEF k
        <3> QED BY <1>2, <3>1, <3>2, <3>3, TakeKeeps DEF MailToken, k
    <2> QED BY <1>2, <2>1, <2>2, Move DEF MailToken, redisVars, socketVars
<1>3. CASE resendVerification(p)
    <2>1. Moves(p)  BY <1>3, FindUser DEF resendVerification, UserIds
    <2>2. KeyTypes'  BY <1>3 DEF resendVerification, redisVars, IInv, Types, KeyTypes
    <2> QED BY <1>3, <2>1, <2>2, Move DEF resendVerification, redisVars, socketVars
<1>4. CASE requestPasswordReset(p)
    <2>1. Moves(p)  BY <1>4, FindUser DEF requestPasswordReset, UserIds
    <2>2. KeyTypes'  BY <1>4 DEF requestPasswordReset, redisVars, IInv, Types, KeyTypes
    <2> QED BY <1>4, <2>1, <2>2, Move DEF requestPasswordReset, redisVars, socketVars
<1>5. CASE VerifyTake(p)
    <2>1. Moves(p)  BY <1>5 DEF VerifyTake, Take, UserIds, dbVars
    <2>2. KeyTypes'  BY <1>5, TakeKeeps DEF VerifyTake, IInv, Types, UserIds
    <2> QED BY <1>5, <2>1, <2>2, Move DEF VerifyTake, redisVars, socketVars, Take
<1>6. CASE VerifyRead(p)
    <2>1. Moves(p)  BY <1>6 DEF VerifyRead, dbVars
    <2>2. KeyTypes'  BY <1>6 DEF VerifyRead, redisVars, IInv, Types, KeyTypes
    <2> QED BY <1>6, <2>1, <2>2, Move DEF VerifyRead, redisVars, socketVars
<1>7. CASE logout(p)
    <2>1. Moves(p)  BY <1>7 DEF logout, Sids
    <2>2. KeyTypes'  BY <1>7 DEF logout, redisVars, IInv, Types, KeyTypes
    <2> QED BY <1>7, <2>1, <2>2, Move DEF logout, redisVars, socketVars
<1>8. CASE revokeSessionById(p)
    <2>1. Moves(p)  BY <1>8 DEF revokeSessionById, Sids
    <2>2. KeyTypes'  BY <1>8 DEF revokeSessionById, redisVars, IInv, Types, KeyTypes
    <2> QED BY <1>8, <2>1, <2>2, Move DEF revokeSessionById, redisVars, socketVars
<1>9. CASE ConfirmTake(p)
    <2>1. Moves(p)  BY <1>9 DEF ConfirmTake, Take, UserIds, dbVars
    <2>2. KeyTypes'  BY <1>9, TakeKeeps DEF ConfirmTake, IInv, Types, UserIds
    <2> QED BY <1>9, <2>1, <2>2, Move DEF ConfirmTake, redisVars, socketVars, Take
<1>10. CASE ConfirmRead(p)
    <2>1. Moves(p)  BY <1>10 DEF ConfirmRead, dbVars
    <2>2. KeyTypes'  BY <1>10 DEF ConfirmRead, redisVars, IInv, Types, KeyTypes
    <2> QED BY <1>10, <2>1, <2>2, Move DEF ConfirmRead, redisVars, socketVars
<1>11. CASE GoogleTake(p)
    <2>1. Moves(p)  BY <1>11 DEF GoogleTake, Take, UserIds, dbVars
    <2>2. KeyTypes'  BY <1>11, TakeKeeps DEF GoogleTake, IInv, Types
    <2> QED BY <1>11, <2>1, <2>2, Move DEF GoogleTake, redisVars, socketVars, Take
<1>12. CASE DeleteStart(p)
    <2>0. \A s \in Sids : sessions[s].user \in 0..MaxUsers  BY DEF IInv, Types, SessionTypes
    <2>1. Moves(p)  BY <1>12, <2>0 DEF DeleteStart
    <2>2. KeyTypes'  BY <1>12 DEF DeleteStart, redisVars, IInv, Types, KeyTypes
    <2> QED BY <1>12, <2>1, <2>2, Move DEF DeleteStart, redisVars, socketVars
<1> QED BY <1>1, <1>2, <1>3, <1>4, <1>5, <1>6, <1>7, <1>8, <1>9, <1>10, <1>11, <1>12

\* A request moves on from an await at which nothing is owed.
LEMMA MoveTo ==
    ASSUME IInv, NEW p \in Procs, NEW r \in RequestRecord, HasRead(r), Goto(p, r),
           req[p].at \notin Owed, r.at \in {"lookup", "failed"} => req[p].at = "lookup",
           UNCHANGED <<dbVars, redisVars, historyVars, cut, socketVars>>
    PROVE  IInv'
<1>1. Moves(p)
    BY DEF IInv, Types, RequestTypes, Goto, Moves, HasRead, dbVars
<1>2. KeyTypes' /\ TicketTypes'
    BY DEF IInv, Types, KeyTypes, TicketTypes, redisVars, socketVars
<1> QED BY <1>1, <1>2, Move DEF redisVars, socketVars

\* The user is read and the password compared.
LEMMA LoginLookup_Inv ==
    ASSUME IInv, NEW p \in Procs, LoginLookup(p), UNCHANGED socketVars
    PROVE  IInv'
<1> DEFINE u == findUserByEmail
           r1 == [req[p] EXCEPT !.at = "failed"]
           r2 == [req[p] EXCEPT !.at = "clear", !.id = u, !.pw = users[u].password]
<1>0. req[p] \in RequestRecord /\ req[p].at = "lookup"
    BY DEF IInv, Types, RequestTypes, LoginLookup, At
<1>1. "failed" \in Awaits /\ "clear" \in Awaits
    BY DEF Awaits
<1>2. u # 0 => u \in UserIds /\ u \in 0..MaxUsers /\ users[u].password \in 0..MaxPasswords
               /\ users[u].password \in Nat
    BY FindUser DEF IInv, Types, UserTypes, UserIds
<1> HIDE DEF u
<1>3. r1 \in RequestRecord /\ r1.at = "failed"
    BY <1>0, <1>1 DEF RequestRecord
<1>4. u # 0 => r2 \in RequestRecord /\ r2.at = "clear" /\ r2.id = u /\ r2.pw = users[u].password
    BY <1>0, <1>1, <1>2 DEF RequestRecord
<1>5. HasRead(r1) /\ (u # 0 => HasRead(r2))
    BY <1>2, <1>3, <1>4 DEF HasRead
<1>6. Goto(p, r1) \/ (u # 0 /\ Goto(p, r2))
    BY DEF LoginLookup, To, u
<1>7. UNCHANGED <<dbVars, redisVars, historyVars, cut, socketVars>>
    BY DEF LoginLookup
<1> HIDE DEF r1, r2
<1> QED BY <1>0, <1>3, <1>4, <1>5, <1>6, <1>7, MoveTo DEF Owed

\* A Google account is found, or its address is free or taken by another.
LEMMA GoogleFind_Inv ==
    ASSUME IInv, NEW p \in Procs, GoogleFind(p), UNCHANGED socketVars
    PROVE  IInv'
<1> DEFINE u == findUserByEmail
           r1 == [req[p] EXCEPT !.at = "create"]
           r2 == [req[p] EXCEPT !.at = "session", !.id = u]
<1>0. /\ req[p] \in RequestRecord /\ req[p].at = "find" /\ req[p].pw <= MaxPasswords
    BY DEF IInv, Types, RequestTypes, GoogleFind, At, RequestShape, HasRead
<1>1. u # 0 => u \in UserIds /\ u \in 0..MaxUsers
    BY FindUser DEF UserIds
<1> HIDE DEF u
<1>3. r1 \in RequestRecord /\ r1.at = "create" /\ r1.pw = req[p].pw
    BY <1>0 DEF RequestRecord, Awaits
<1>4. u # 0 => r2 \in RequestRecord /\ r2.at = "session" /\ r2.id = u /\ r2.pw = req[p].pw
    BY <1>0, <1>1 DEF RequestRecord, Awaits
<1>5. HasRead(r1) /\ (u # 0 => HasRead(r2)) /\ HasRead(Idle)
    BY <1>0, <1>1, <1>3, <1>4, IdleFields DEF HasRead
<1>6. Goto(p, r1) \/ (u # 0 /\ Goto(p, r2)) \/ Goto(p, Idle)
    BY DEF GoogleFind, To, Done, u
<1>7. UNCHANGED <<dbVars, redisVars, historyVars, cut, socketVars>>
    BY DEF GoogleFind
<1> HIDE DEF r1, r2
<1> QED BY <1>0, <1>3, <1>4, <1>5, <1>6, <1>7, MoveTo, IdleFields DEF Owed

\* The lookup of a refresh: the token's session, or none.
LEMMA RefreshFind_Inv ==
    ASSUME IInv, NEW p \in Procs, RefreshFind(p), UNCHANGED socketVars
    PROVE  IInv'
<1>0. req[p].at = "none" /\ minted \in 0..MaxHashes
    BY IdleFields DEF RefreshFind, Starts, IInv, Types, SessionTypes
<1>1. PICK h \in 1..minted :
        \/ Goto(p, [First("refresh", "reused") EXCEPT !.hash = h, !.sid = 0])
        \/ \E t \in Sids : Goto(p, [First("refresh", "rotate") EXCEPT !.hash = h, !.sid = t])
    BY DEF RefreshFind
<1>2. UNCHANGED <<dbVars, redisVars, historyVars, cut, socketVars>>
    BY DEF RefreshFind
<1>3. h \in 0..MaxHashes /\ 0 \in 0..MaxSessions
    BY <1>0
<1>4. CASE Goto(p, [First("refresh", "reused") EXCEPT !.hash = h, !.sid = 0])
    <2> DEFINE f == First("refresh", "reused")
               r == [f EXCEPT !.hash = h, !.sid = 0]
    <2>1. r \in RequestRecord /\ r.at = "reused" /\ r.hash = h
        <3>1. f \in RequestRecord /\ f.at = "reused"  BY FirstFields DEF Ops, Awaits
        <3> HIDE DEF f
        <3> QED BY <1>3, <3>1 DEF RequestRecord
    <2>2. HasRead(r)  BY <2>1 DEF HasRead
    <2> HIDE DEF r
    <2>3. Goto(p, r)  BY <1>4 DEF r
    <2> QED BY <1>0, <1>2, <2>1, <2>2, <2>3, MoveTo DEF Owed
<1>5. ASSUME NEW t \in Sids, Goto(p, [First("refresh", "rotate") EXCEPT !.hash = h, !.sid = t])
      PROVE  IInv'
    <2> DEFINE f == First("refresh", "rotate")
               r == [f EXCEPT !.hash = h, !.sid = t]
    <2>1. r \in RequestRecord /\ r.at = "rotate" /\ r.hash = h /\ r.sid = t
        <3>1. f \in RequestRecord /\ f.at = "rotate"  BY FirstFields DEF Ops, Awaits
        <3>2. t \in 0..MaxSessions  BY DEF Sids
        <3> HIDE DEF f
        <3> QED BY <1>3, <3>1, <3>2 DEF RequestRecord
    <2>2. HasRead(r)  BY <2>1 DEF HasRead
    <2> HIDE DEF r
    <2>3. Goto(p, r)  BY <1>5 DEF r
    <2> QED BY <1>0, <1>2, <2>1, <2>2, <2>3, MoveTo DEF Owed
<1> QED BY <1>1, <1>4, <1>5

\* A spent token names the session to revoke.
LEMMA RefreshReused_Inv ==
    ASSUME IInv, NEW p \in Procs, RefreshReused(p), UNCHANGED socketVars
    PROVE  IInv'
<1> DEFINE t == used[req[p].hash]
           r == [req[p] EXCEPT !.at = "revoke", !.sid = t]
<1>0. /\ req[p] \in RequestRecord /\ req[p].at = "reused"
      /\ req[p].hash \in 1..minted /\ minted \in 0..MaxHashes
    BY DEF IInv, Types, RequestTypes, RefreshReused, At, RequestShape, HasRead, SessionTypes
<1>1. t \in 0..MaxSessions /\ (t # 0 => t \in Sids)
    BY <1>0 DEF IInv, Types, TokenTypes, Hashes, Sids
<1> HIDE DEF t
<1>2. r \in RequestRecord /\ r.at = "revoke" /\ r.sid = t
    BY <1>0, <1>1 DEF RequestRecord, Awaits
<1>3. (t # 0 => HasRead(r)) /\ HasRead(Idle)
    BY <1>1, <1>2, IdleFields DEF HasRead
<1>4. (t # 0 /\ Goto(p, r)) \/ Goto(p, Idle)
    BY DEF RefreshReused, Done, t
<1>5. UNCHANGED <<dbVars, redisVars, historyVars, cut, socketVars>>
    BY DEF RefreshReused
<1> HIDE DEF r
<1> QED BY <1>0, <1>2, <1>3, <1>4, <1>5, MoveTo, IdleFields DEF Owed

-----------------------------------------------------------------------------
(* The steps that write *)

\* What a move leaves of the requests, when ids and tokens are given out beside it.
LEMMA MoveReq ==
    ASSUME IInv, NEW p \in Procs, Moves(p), cut' = cut,
           created' \in Nat, created <= created', minted' \in Nat, minted <= minted'
    PROVE  /\ RequestTypes' /\ RequestShape' /\ Trying' \subseteq Trying
           /\ \A x \in Waiting : x.at \in {"mark", "expire", "revokeAll"} => x \in Waiting'
<1>0. created \in Nat /\ minted \in Nat
    BY DEF IInv, Types, UserTypes, SessionTypes
<1>1. RequestTypes'  BY DEF IInv, Types, RequestTypes, Moves
<1>2. RequestShape'
    <2> SUFFICES ASSUME NEW q \in Procs, q # p PROVE HasRead(req[q])'
        BY DEF RequestShape, Moves
    <2>1. HasRead(req[q]) /\ req'[q] = req[q] /\ req[q] \in RequestRecord
        BY DEF IInv, Types, RequestTypes, RequestShape, Moves
    <2> QED BY <1>0, <2>1 DEF HasRead, RequestRecord
<1>3. Trying' \subseteq Trying  BY DEF Trying, Moves
<1>4. \A x \in Waiting : x.at \in {"mark", "expire", "revokeAll"} => x \in Waiting'  BY OwedIsKept DEF Moves
<1> QED BY <1>1, <1>2, <1>3, <1>4

\* The request ends.
LEMMA DoneMoves ==
    ASSUME IInv, NEW p \in Procs, Done(p), req[p].at \notin Owed
    PROVE  Moves(p)
<1>1. HasRead(Idle)'  BY IdleFields DEF HasRead
<1>2. req' = [req EXCEPT ![p] = Idle] /\ req \in [Procs -> RequestRecord] /\ Idle \in RequestRecord
    BY IdleFields DEF Done, Goto, IInv, Types, RequestTypes
<1> QED BY <1>1, <1>2, IdleFields DEF Moves

\* An account is created where there was none.
LEMMA CreateUser ==
    ASSUME IInv, NEW p \in Procs, Moves(p), Accounts = {}, NEW u, createUser(u), u # NoUser,
           u \in [provider : {"none", "email", "google"}, password : 0..MaxPasswords,
                  status : {"none", "pending_verification", "verified", "complete"}],
           UNCHANGED <<redisVars, historyVars, cut, socketVars>>
    PROVE  IInv'
<1>0. /\ created \in 0..MaxUsers /\ created' = created + 1 /\ created' \in 0..MaxUsers
      /\ minted \in Nat /\ minted' = minted
    BY DEF createUser, IInv, Types, UserTypes, SessionTypes
<1>1. /\ RequestTypes' /\ RequestShape' /\ Trying' \subseteq Trying
      /\ \A x \in Waiting : x.at \in {"mark", "expire", "revokeAll"} => x \in Waiting'
    BY <1>0, MoveReq
<1>2. \A v \in UserIds : users[v] = NoUser /\ users'[v] = IF v = created + 1 THEN u ELSE NoUser
    BY DEF Accounts, createUser, IInv, Types, UserTypes
<1>3. \A s \in Sids : sessions[s] = NoRow /\ sessions'[s] = NoRow
    BY <1>2 DEF IInv, SessionShape, createUser
<1>4. Types'
    BY <1>0, <1>1 DEF createUser, IInv, Types, UserTypes, SessionTypes, TokenTypes, KeyTypes,
        CounterTypes, PlanTypes, TicketTypes, SocketTypes, redisVars, historyVars, socketVars
<1>5. UserShape'  BY <1>0, <1>2 DEF UserShape, UserIds
<1>6. SessionShape'  BY <1>3 DEF SessionShape
<1>7. SocketShape'
    <2>1. \A i \in SocketIds : sockets[i].user \in Nat /\ sockets[i].user <= created
        <3>0. SocketTypes  BY DEF IInv, Types
        <3>1. \A i \in SocketIds : sockets[i].user \in 0..MaxUsers  BY <3>0 DEF SocketTypes
        <3> QED BY <3>1 DEF IInv, SocketShape
    <2>2. sockets' = sockets  BY DEF socketVars
    <2> QED BY <1>0, <2>1, <2>2 DEF SocketShape
<1>8. SpentIsMarked' /\ LockoutHasEnd'
    BY <1>1, MarkedFrame, LockoutFrame DEF IInv, redisVars, historyVars
<1>9. ResetEndsOldSessions'
    BY <1>3 DEF ResetEndsOldSessions, NoRow
<1>10. TryingIsCounted'
    BY <1>1, TryingFrame DEF IInv, Types, CounterTypes, Subjects, redisVars
<1>11. FreeHasNoSocket'
    <2>1. \A i \in SocketIds : sockets[i].user # created + 1
        BY <1>0 DEF IInv, Types, SocketTypes, SocketShape
    <2> QED BY <1>2, <2>1, SocketFrame DEF IInv, socketVars
<1> QED BY <1>1, <1>4, <1>5, <1>6, <1>7, <1>8, <1>9, <1>10, <1>11 DEF IInv

\* register(): the insert, or the unique e-mail column refuses it.
LEMMA RegisterCreate_Inv ==
    ASSUME IInv, NEW p \in Procs, RegisterCreate(p), UNCHANGED socketVars
    PROVE  IInv'
<1>0. req[p] \in RequestRecord /\ req[p].at = "create" /\ req \in [Procs -> RequestRecord]
    BY DEF IInv, Types, RequestTypes, RegisterCreate, At
<1>1. CASE Done(p) /\ UNCHANGED dbVars
    BY <1>0, <1>1, IdleFields, MoveTo DEF RegisterCreate, Done, Owed, HasRead
<1>2. CASE /\ Accounts = {}
           /\ createUser([provider |-> "email", status |-> "pending_verification", password |-> 1])
           /\ Goto(p, [req[p] EXCEPT !.at = "mail", !.id = created + 1])
    <2> DEFINE r == [req[p] EXCEPT !.at = "mail", !.id = created + 1]
    <2>1. created + 1 \in UserIds /\ created + 1 \in 0..MaxUsers
        BY <1>2 DEF createUser, IInv, Types, UserTypes, UserIds
    <2>2. r \in RequestRecord /\ r.at = "mail" /\ r.id = created + 1
        BY <1>0, <2>1 DEF RequestRecord, Awaits
    <2>3. req' = [req EXCEPT ![p] = r]  BY <1>2 DEF Goto
    <2> HIDE DEF r
    <2>4. Moves(p)  BY <1>0, <2>1, <2>2, <2>3 DEF Moves, HasRead, Owed
    <2> QED BY <1>2, <2>4, CreateUser DEF RegisterCreate, NoUser
<1> QED BY <1>1, <1>2 DEF RegisterCreate

\* The Google callback: the insert, or the unique e-mail column refuses it.
LEMMA GoogleCreate_Inv ==
    ASSUME IInv, NEW p \in Procs, GoogleCreate(p), UNCHANGED socketVars
    PROVE  IInv'
<1>0. /\ req[p] \in RequestRecord /\ req[p].at = "create" /\ req \in [Procs -> RequestRecord]
      /\ req[p].pw <= MaxPasswords
    BY DEF IInv, Types, RequestTypes, GoogleCreate, At, RequestShape, HasRead
<1>1. CASE Done(p) /\ UNCHANGED dbVars
    BY <1>0, <1>1, IdleFields, MoveTo DEF GoogleCreate, Done, Owed, HasRead
<1>2. CASE /\ Accounts = {}
           /\ createUser([provider |-> "google", status |-> "verified", password |-> 0])
           /\ Goto(p, [req[p] EXCEPT !.at = "session", !.id = created + 1])
    <2> DEFINE r == [req[p] EXCEPT !.at = "session", !.id = created + 1]
    <2>1. created + 1 \in UserIds /\ created + 1 \in 0..MaxUsers
        BY <1>2 DEF createUser, IInv, Types, UserTypes, UserIds
    <2>2. r \in RequestRecord /\ r.at = "session" /\ r.id = created + 1 /\ r.pw = req[p].pw
        BY <1>0, <2>1 DEF RequestRecord, Awaits
    <2>3. req' = [req EXCEPT ![p] = r]  BY <1>2 DEF Goto
    <2> HIDE DEF r
    <2>4. Moves(p)  BY <1>0, <2>1, <2>2, <2>3 DEF Moves, HasRead, Owed
    <2> QED BY <1>2, <2>4, CreateUser DEF GoogleCreate, NoUser
<1> QED BY <1>1, <1>2 DEF GoogleCreate

\* A status is written: verification and the end of the onboarding.
LEMMA StatusWrite ==
    ASSUME IInv, NEW u \in UserIds, users[u] # NoUser, NEW st \in {"verified", "complete"},
           users' = [users EXCEPT ![u].status = st],
           (\E p \in Procs : Moves(p)) \/ req' = req,
           UNCHANGED <<created, sessions, opened, minted, redisVars, historyVars, cut, socketVars>>
    PROVE  IInv'
<1>0. \A v \in UserIds : /\ users'[v].password = users[v].password
                         /\ (users'[v] = NoUser) <=> (users[v] = NoUser)
    BY DEF IInv, Types, UserTypes, NoUser
<1>1. /\ RequestTypes' /\ RequestShape' /\ Trying' \subseteq Trying
      /\ \A x \in Waiting : x.at \in {"mark", "expire", "revokeAll"} => x \in Waiting'
    <2>1. created \in Nat /\ minted \in Nat  BY DEF IInv, Types, UserTypes, SessionTypes
    <2>2. CASE req' = req
        BY <2>2 DEF IInv, Types, RequestTypes, RequestShape, HasRead, Trying, Waiting
    <2> QED BY <2>1, <2>2, MoveReq
<1>2. Types'
    <2>1. UserTypes'  BY DEF IInv, Types, UserTypes
    <2> QED BY <1>1, <2>1 DEF IInv, Types, SessionTypes, TokenTypes, KeyTypes,
        CounterTypes, PlanTypes, TicketTypes, SocketTypes, redisVars, historyVars, socketVars
<1>3. UserShape' /\ SessionShape' /\ SocketShape'
    BY <1>0 DEF IInv, UserShape, SessionShape, SocketShape, socketVars
<1>4. SpentIsMarked' /\ LockoutHasEnd'
    BY <1>1, MarkedFrame, LockoutFrame DEF IInv, redisVars, historyVars
<1>5. ResetEndsOldSessions'
    <2>1. \A s \in Sids : sessions[s].user # 0 => sessions[s].user \in UserIds
        BY DEF IInv, SessionShape, NoRow
    <2> QED BY <1>0, <1>1, <2>1, ResetFrame DEF IInv
<1>6. TryingIsCounted'
    BY <1>1, TryingFrame DEF IInv, Types, CounterTypes, Subjects, redisVars
<1>7. FreeHasNoSocket'
    BY <1>0, SocketFrame DEF IInv, socketVars
<1> QED BY <1>1, <1>2, <1>3, <1>4, <1>5, <1>6, <1>7 DEF IInv

\* verifyEmail(): the last write.
LEMMA VerifyWrite_Inv ==
    ASSUME IInv, NEW p \in Procs, VerifyWrite(p), UNCHANGED socketVars
    PROVE  IInv'
<1>0. req[p].at = "write" /\ req[p].id \in UserIds /\ Done(p)
    BY DEF VerifyWrite, At, IInv, RequestShape, HasRead
<1>1. Moves(p)  BY <1>0, DoneMoves DEF Owed
<1>2. CASE users[req[p].id] = NoUser
    BY <1>0, <1>2, IdleFields, MoveTo DEF VerifyWrite, Done, Owed, HasRead, dbVars
<1>3. CASE users[req[p].id] # NoUser
    BY <1>0, <1>1, <1>3, StatusWrite DEF VerifyWrite
<1> QED BY <1>2, <1>3

\* activate() and checkout.session.completed.
LEMMA Onboarding_Inv ==
    ASSUME IInv, transitionToCompleteOnboarding, UNCHANGED socketVars
    PROVE  IInv'
BY StatusWrite DEF transitionToCompleteOnboarding, Accounts

\* A step that touches neither the rows nor a request.
LEMMA Aside ==
    ASSUME IInv, UNCHANGED <<dbVars, used, fails, ttl, historyVars, req, cut>>,
           UNCHANGED <<plan, sockets, published, closing, missed>>,
           KeyTypes', TicketTypes', PlanTypes'
    PROVE  IInv'
<1> USE DEF dbVars, historyVars
<1>1. Types'
    BY DEF IInv, Types, UserTypes, SessionTypes, TokenTypes, CounterTypes, RequestTypes, SocketTypes
<1>2. UserShape' /\ SessionShape' /\ SocketShape' /\ RequestShape'
    BY DEF IInv, UserShape, SessionShape, SocketShape, RequestShape, HasRead
<1>3. SpentIsMarked' /\ LockoutHasEnd' /\ ResetEndsOldSessions'
    BY DEF IInv, SpentIsMarked, LockoutHasEnd, ResetEndsOldSessions
<1>4. TryingIsCounted' /\ FreeHasNoSocket'
    BY DEF IInv, TryingIsCounted, Trying, FreeHasNoSocket
<1> QED BY <1>1, <1>2, <1>3, <1>4 DEF IInv

LEMMA WindowEnds_Inv ==
    ASSUME IInv, WindowEnds, UNCHANGED socketVars
    PROVE  IInv'
BY Aside DEF WindowEnds, IInv, Types, KeyTypes, TicketTypes, PlanTypes, socketVars

LEMMA GoogleInit_Inv ==
    ASSUME IInv, googleOAuthInit, UNCHANGED socketVars
    PROVE  IInv'
<1>0. 0 \in 0..MaxUsers /\ "oauth" \in {"verify", "reset", "oauth"}  OBVIOUS
<1>1. KeyTypes'  BY <1>0, TakeKeeps DEF googleOAuthInit, IInv, Types
<1>2. TicketTypes' /\ PlanTypes'  BY DEF IInv, Types, TicketTypes, PlanTypes, socketVars
<1> QED BY <1>1, <1>2, Aside DEF googleOAuthInit, socketVars

\* A step on the lockout counters.
LEMMA Counting ==
    ASSUME IInv, UNCHANGED <<dbVars, used, keys, historyVars, socketVars>>,
           CounterTypes', RequestTypes', RequestShape', LockoutHasEnd', TryingIsCounted',
           \A x \in Waiting : x.at \in {"mark", "revokeAll"} => x \in Waiting'
    PROVE  IInv'
<1> USE DEF dbVars, historyVars, socketVars
<1>1. Types'
    BY DEF IInv, Types, UserTypes, SessionTypes, TokenTypes, KeyTypes, PlanTypes, TicketTypes,
        SocketTypes
<1>2. UserShape' /\ SessionShape' /\ SocketShape'
    BY DEF IInv, UserShape, SessionShape, SocketShape
<1>3. SpentIsMarked' /\ ResetEndsOldSessions'
    BY MarkedFrame, ResetFrame DEF IInv
<1>4. FreeHasNoSocket'  BY SocketFrame DEF IInv
<1> QED BY <1>1, <1>2, <1>3, <1>4 DEF IInv

\* The lockout check: the logins under way are no more than the requests, and the counter is
\* below the limit.
LEMMA LoginCheck_Inv ==
    ASSUME IInv, NEW p \in Procs, LoginCheck(p), UNCHANGED socketVars
    PROVE  IInv'
<1> DEFINE r == First("login", "lookup")
<1>0. /\ req[p].at = "none" /\ req \in [Procs -> RequestRecord] /\ req' = [req EXCEPT ![p] = r]
      /\ cut' = cut /\ UNCHANGED <<dbVars, redisVars, historyVars>>
    BY IdleFields DEF LoginCheck, Starts, Goto, IInv, Types, RequestTypes
<1>1. r \in RequestRecord /\ r.at = "lookup"
    BY FirstFields DEF Ops, Awaits
<1> HIDE DEF r
<1>2. RequestTypes'  BY <1>0, <1>1 DEF IInv, Types, RequestTypes
<1>3. RequestShape'
    BY <1>0, <1>1 DEF IInv, RequestShape, HasRead, dbVars
<1>4. \A x \in Waiting : x.at \in {"mark", "expire", "revokeAll"} => x \in Waiting'
    BY <1>0, OwedIsKept DEF Owed
<1>5. LockoutHasEnd'  BY <1>0, <1>4, LockoutFrame DEF IInv, redisVars
<1>6. TryingIsCounted'
    <2>1. fails["email"] \in Nat /\ fails'["email"] = fails["email"]
        BY <1>0 DEF IInv, Types, CounterTypes, Subjects, redisVars
    <2>2. fails["email"] <= MaxAttempts - 1
        BY <2>1 DEF LoginCheck, getLockoutState, Subjects
    <2>3. /\ Trying' \subseteq Procs /\ Cardinality(Trying') <= Cardinality(Procs)
          /\ Cardinality(Trying') \in Nat /\ Cardinality(Procs) \in Nat
        <3>1. Trying' \subseteq Procs  BY DEF Trying
        <3> QED BY <3>1, FS_Subset, FS_CardinalityType
    <2> QED BY <2>1, <2>2, <2>3 DEF TryingIsCounted
<1>7. CounterTypes'  BY <1>0 DEF IInv, Types, CounterTypes, redisVars
<1> QED BY <1>0, <1>2, <1>3, <1>4, <1>5, <1>6, <1>7, Counting DEF redisVars

\* INCR: the attempt is counted when it leaves the logins under way, and a counter that was at
\* zero gets its expiry next.
LEMMA LoginFailed_Inv ==
    ASSUME IInv, NEW p \in Procs, LoginFailed(p), UNCHANGED socketVars
    PROVE  IInv'
<1> DEFINE pw == FirstOf(fails')
           r == IF pw = 0 THEN Idle ELSE [req[p] EXCEPT !.at = "expire", !.pw = pw]
<1>0. /\ req[p].at = "failed" /\ req[p] \in RequestRecord /\ req \in [Procs -> RequestRecord]
      /\ cut' = cut /\ fails' = [s \in Subjects |-> fails[s] + 1] /\ ttl' = ttl
      /\ fails \in [Subjects -> Nat] /\ ttl \in [Subjects -> BOOLEAN]
      /\ UNCHANGED <<dbVars, used, keys, historyVars>>
    BY DEF LoginFailed, At, IInv, Types, RequestTypes, CounterTypes
<1>1. /\ pw \in 0..3
      /\ fails'["email"] = 1 => pw \in {1, 3}
      /\ fails'["ip"] = 1 => pw \in {2, 3}
    BY <1>0 DEF FirstOf, Subjects
<1>2. req' = [req EXCEPT ![p] = r]
    BY DEF LoginFailed, Done, Goto
<1> HIDE DEF pw
<1>3. /\ r \in RequestRecord /\ r.at \in {"none", "expire"}
      /\ pw # 0 => r.at = "expire" /\ r.pw = pw
    <2>1. CASE pw = 0  BY <2>1, IdleFields
    <2>2. CASE pw # 0
        <3> DEFINE x == [req[p] EXCEPT !.at = "expire", !.pw = pw]
        <3>1. x \in RequestRecord /\ x.at = "expire" /\ x.pw = pw
            <4>1. pw \in Nat /\ "expire" \in Awaits  BY <1>1 DEF Awaits
            <4> QED BY <1>0, <4>1 DEF RequestRecord
        <3>2. r = x  BY <2>2
        <3> HIDE DEF x, r
        <3> QED BY <3>1, <3>2
    <2> QED BY <2>1, <2>2
<1> HIDE DEF r
<1>4. RequestTypes'  BY <1>0, <1>2, <1>3 DEF IInv, Types, RequestTypes
<1>5. RequestShape'
    BY <1>0, <1>2, <1>3 DEF IInv, RequestShape, HasRead, dbVars
<1>6. \A x \in Waiting : x.at \in {"mark", "expire", "revokeAll"} => x \in Waiting'
    BY <1>0, <1>2, OwedIsKept DEF Owed
<1>7. LockoutHasEnd'
    <2> SUFFICES ASSUME NEW s \in Subjects, ~ttl[s]
                 PROVE  \E x \in Waiting' : s \in Awaited(x)
        BY <1>0 DEF LockoutHasEnd, Waiting
    <2>1. CASE fails[s] = 0
        <3>1. fails'[s] = 1  BY <1>0, <2>1
        <3>2. s \in Awaited(r)  BY <1>1, <1>3, <3>1 DEF Awaited, Subjects
        <3>3. r \in Waiting'  BY <1>0, <1>2 DEF Waiting
        <3> QED BY <3>2, <3>3
    <2>2. CASE fails[s] # 0
        <3>1. \E x \in Waiting : s \in Awaited(x)
            BY <1>0, <2>2 DEF IInv, LockoutHasEnd, Waiting
        <3> QED BY <1>6, <3>1 DEF Awaited
    <2> QED BY <2>1, <2>2
<1>8. TryingIsCounted'
    <2>1. Trying' = Trying \ {p} /\ p \in Trying /\ IsFiniteSet(Trying)
        <3>1. Trying' = Trying \ {p} /\ p \in Trying  BY <1>0, <1>2, <1>3 DEF Trying
        <3>2. Trying \subseteq Procs  BY DEF Trying
        <3> QED BY <3>1, <3>2, FS_Subset
    <2>2. Cardinality(Trying') = Cardinality(Trying) - 1
        BY <2>1, FS_RemoveElement
    <2>3. Cardinality(Trying) \in Nat /\ Cardinality(Procs) \in Nat
        BY <2>1, FS_CardinalityType
    <2>4. fails["email"] \in Nat /\ fails'["email"] = fails["email"] + 1
        BY <1>0 DEF Subjects
    <2> QED BY <2>2, <2>3, <2>4 DEF IInv, TryingIsCounted
<1>9. CounterTypes'  BY <1>0 DEF CounterTypes
<1> QED BY <1>0, <1>4, <1>5, <1>6, <1>7, <1>8, <1>9, Counting

\* PEXPIRE: what this request owed is paid.
LEMMA LoginExpire_Inv ==
    ASSUME IInv, NEW p \in Procs, LoginExpire(p), UNCHANGED socketVars
    PROVE  IInv'
<1>0. /\ req[p].at = "expire" /\ req \in [Procs -> RequestRecord] /\ req' = [req EXCEPT ![p] = Idle]
      /\ cut' = cut /\ ttl' = [s \in Subjects |-> ttl[s] \/ (s \in Awaited(req[p]) /\ fails[s] > 0)]
      /\ fails' = fails /\ fails \in [Subjects -> Nat] /\ ttl \in [Subjects -> BOOLEAN]
      /\ UNCHANGED <<dbVars, used, keys, historyVars>>
    BY DEF LoginExpire, At, Done, Goto, IInv, Types, RequestTypes, CounterTypes
<1>1. RequestTypes' /\ RequestShape'
    BY <1>0, IdleFields DEF IInv, Types, RequestTypes, RequestShape, HasRead, dbVars
<1>2. \A x \in Waiting : x # req[p] => x \in Waiting'
    BY <1>0 DEF Waiting
<1>3. LockoutHasEnd'
    <2> SUFFICES ASSUME NEW s \in Subjects, fails[s] > 0, ~ttl'[s]
                 PROVE  \E x \in Waiting' : s \in Awaited(x)
        BY <1>0 DEF LockoutHasEnd, Waiting
    <2>1. ~ttl[s] /\ s \notin Awaited(req[p])  BY <1>0
    <2>2. \E x \in Waiting : s \in Awaited(x)
        BY <2>1 DEF IInv, LockoutHasEnd, Waiting
    <2> QED BY <1>2, <2>1, <2>2
<1>4. TryingIsCounted'
    <2>1. Trying' \subseteq Trying  BY <1>0, IdleFields DEF Trying
    <2> QED BY <1>0, <2>1, TryingFrame DEF IInv, Types, Subjects
<1>5. CounterTypes'  BY <1>0 DEF CounterTypes
<1> QED BY <1>0, <1>1, <1>2, <1>3, <1>4, <1>5, Counting

\* A counter runs out.
LEMMA LockoutEnds_Inv ==
    ASSUME IInv, LockoutEnds, UNCHANGED socketVars
    PROVE  IInv'
<1>0. PICK s \in Subjects : fails' = [fails EXCEPT ![s] = 0] /\ ttl' = [ttl EXCEPT ![s] = FALSE]
    BY DEF LockoutEnds
<1>1. /\ UNCHANGED <<dbVars, used, keys, historyVars, req, cut>>
      /\ fails \in [Subjects -> Nat] /\ ttl \in [Subjects -> BOOLEAN]
    BY DEF LockoutEnds, IInv, Types, CounterTypes
<1>2. RequestTypes' /\ RequestShape' /\ Waiting' = Waiting /\ Trying' = Trying
    BY <1>1 DEF IInv, Types, RequestTypes, RequestShape, HasRead, dbVars, Waiting, Trying
<1>3. CounterTypes'  BY <1>0, <1>1 DEF CounterTypes
<1>4. LockoutHasEnd'
    BY <1>0, <1>1 DEF IInv, LockoutHasEnd
<1>5. TryingIsCounted'
    <2>1. fails'["email"] <= fails["email"] /\ fails'["email"] \in Nat
        BY <1>0, <1>1 DEF Subjects
    <2> QED BY <1>2, <2>1, TryingFrame DEF IInv, Types
<1> QED BY <1>1, <1>2, <1>3, <1>4, <1>5, Counting

\* A login that succeeds clears both counters.
LEMMA clearLockout_Inv ==
    ASSUME IInv, NEW p \in Procs, clearLockout(p), UNCHANGED socketVars
    PROVE  IInv'
<1> DEFINE r == [req[p] EXCEPT !.at = "session"]
<1>0. /\ req[p].at = "clear" /\ req[p] \in RequestRecord /\ req \in [Procs -> RequestRecord]
      /\ req' = [req EXCEPT ![p] = r] /\ HasRead(req[p])
      /\ cut' = {x \in cut : x.at # "expire"}
      /\ fails' = [s \in Subjects |-> 0] /\ ttl' = [s \in Subjects |-> FALSE]
      /\ UNCHANGED <<dbVars, used, keys, historyVars>>
    BY DEF clearLockout, At, To, Goto, IInv, Types, RequestTypes, RequestShape
<1>1. r \in RequestRecord /\ r.at = "session" /\ r.id = req[p].id /\ r.pw = req[p].pw
    BY <1>0 DEF RequestRecord, Awaits
<1> HIDE DEF r
<1>2. RequestTypes' /\ RequestShape'
    BY <1>0, <1>1 DEF IInv, Types, RequestTypes, RequestShape, HasRead, dbVars
<1>3. \A x \in Waiting : x.at \in {"mark", "revokeAll"} => x \in Waiting'
    BY <1>0 DEF Waiting
<1>4. LockoutHasEnd' /\ CounterTypes'  BY <1>0 DEF LockoutHasEnd, CounterTypes
<1>5. TryingIsCounted'
    <2>1. Trying' \subseteq Trying  BY <1>0, <1>1 DEF Trying
    <2>2. fails'["email"] = 0 /\ fails["email"] \in Nat
        BY <1>0 DEF Subjects, IInv, Types, CounterTypes
    <2> QED BY <2>1, <2>2, TryingFrame DEF IInv, Types
<1> QED BY <1>0, <1>2, <1>3, <1>4, <1>5, Counting

\* A step on sessions, tokens and passwords.
LEMMA Writing ==
    ASSUME IInv, UNCHANGED <<created, fails, ttl, keys, socketVars>>,
           UserTypes', SessionTypes', TokenTypes', RequestTypes', UserShape', SessionShape',
           RequestShape', SpentIsMarked', ResetEndsOldSessions', Trying' \subseteq Trying,
           \A u \in UserIds : users'[u] # NoUser => users[u] # NoUser,
           \A x \in Waiting : x.at = "expire" => x \in Waiting'
    PROVE  IInv'
<1> USE DEF socketVars
<1>1. Types'
    BY DEF IInv, Types, KeyTypes, CounterTypes, PlanTypes, TicketTypes, SocketTypes
<1>2. SocketShape'  BY DEF IInv, SocketShape
<1>3. LockoutHasEnd'  BY LockoutFrame DEF IInv
<1>4. TryingIsCounted'  BY TryingFrame DEF IInv, Types, CounterTypes, Subjects
<1>5. FreeHasNoSocket'  BY SocketFrame DEF IInv
<1> QED BY <1>1, <1>2, <1>3, <1>4, <1>5 DEF IInv

\* The types that the steps below rely on.
LEMMA SessionFacts ==
    ASSUME IInv
    PROVE  /\ created \in 0..MaxUsers /\ opened \in 0..MaxSessions /\ minted \in 0..MaxHashes
           /\ users \in [UserIds -> [provider : {"none", "email", "google"}, password : 0..MaxPasswords,
                              status : {"none", "pending_verification", "verified", "complete"}]]
           /\ sessions \in [Sids -> [user : 0..MaxUsers, hash : 0..MaxHashes, revoked : {TRUE, FALSE},
                              expired : {TRUE, FALSE}, pw : 0..MaxPasswords, late : {TRUE, FALSE}]]
           /\ used \in [Hashes -> 0..MaxSessions] /\ heir \in [Hashes -> 0..MaxHashes]
           /\ req \in [Procs -> RequestRecord]
BY DEF IInv, Types, UserTypes, SessionTypes, TokenTypes, RequestTypes

\* A session is opened, by a user who is still there.
LEMMA createSession_Inv ==
    ASSUME IInv, NEW p \in Procs, createSession(p), UNCHANGED socketVars
    PROVE  IInv'
<1> DEFINE u == req[p].id
           row == [user |-> u, hash |-> minted + 1, revoked |-> FALSE, expired |-> FALSE,
                   pw |-> req[p].pw, late |-> users[u].password # req[p].pw]
<1>0. /\ req[p].at = "session" /\ Done(p) /\ u \in UserIds /\ u \in 0..MaxUsers
      /\ req[p].pw \in 0..MaxPasswords
      /\ UNCHANGED <<users, created, redisVars, historyVars, cut>>
    <2>1. req[p] \in RequestRecord /\ HasRead(req[p])  BY SessionFacts DEF IInv, RequestShape
    <2>2. req[p].pw \in Nat  BY <2>1 DEF RequestRecord
    <2> QED BY <2>1, <2>2 DEF createSession, HasRead, UserIds
<1>1. Moves(p)  BY <1>0, DoneMoves DEF Owed
<1>2. CASE UNCHANGED <<sessions, opened, minted>>
    BY <1>0, <1>2, IdleFields, MoveTo DEF Done, Owed, HasRead, dbVars
<1>3. CASE /\ users[u] # NoUser /\ opened < MaxSessions /\ minted < MaxHashes
           /\ opened' = opened + 1 /\ minted' = minted + 1
           /\ sessions' = [sessions EXCEPT ![opened + 1] = row]
    <2> HIDE DEF u
    <2>1. /\ opened + 1 \in Sids /\ opened' \in 0..MaxSessions /\ minted' \in 0..MaxHashes
          /\ minted + 1 \in 0..MaxHashes /\ minted \in Nat
        BY <1>3, SessionFacts DEF Sids
    <2>2. /\ row \in [user : 0..MaxUsers, hash : 0..MaxHashes, revoked : {TRUE, FALSE},
                      expired : {TRUE, FALSE}, pw : 0..MaxPasswords, late : {TRUE, FALSE}]
          /\ row.user = u /\ row.hash = minted + 1 /\ row.pw = req[p].pw /\ row # NoRow
          /\ ~row.late => users[u].password = req[p].pw
        <3> DEFINE late == users[u].password # req[p].pw
        <3>1. late \in {TRUE, FALSE}  OBVIOUS
        <3> HIDE DEF late
        <3>2. row = [user |-> u, hash |-> minted + 1, revoked |-> FALSE, expired |-> FALSE,
                     pw |-> req[p].pw, late |-> late]
            BY DEF late
        <3> HIDE DEF row
        <3>3. /\ row \in [user : 0..MaxUsers, hash : 0..MaxHashes, revoked : {TRUE, FALSE},
                      expired : {TRUE, FALSE}, pw : 0..MaxPasswords, late : {TRUE, FALSE}]
              /\ row.user = u /\ row.hash = minted + 1 /\ row.pw = req[p].pw
            BY <1>0, <2>1, <3>1, <3>2
        <3>4. row.late = late  BY <3>2
        <3>5. row # NoRow  BY <1>0, <3>3 DEF NoRow, UserIds
        <3> QED BY <3>3, <3>4, <3>5 DEF late
    <2> HIDE DEF row
    <2>3. SessionTypes'  BY <1>3, <2>1, <2>2, SessionFacts DEF SessionTypes
    <2>4. SessionShape'
        <3> SUFFICES ASSUME NEW s \in Sids, sessions'[s] # NoRow
                     PROVE  /\ s <= opened' /\ sessions'[s].user \in UserIds
                            /\ users'[sessions'[s].user] # NoUser /\ sessions'[s].hash \in 1..minted'
            BY DEF SessionShape
        <3>1. CASE s = opened + 1
            BY <1>0, <1>3, <2>1, <2>2, <3>1, SessionFacts
        <3>2. CASE s # opened + 1
            <4>1. sessions'[s] = sessions[s]  BY <1>3, <3>2, SessionFacts
            <4>2. /\ s <= opened /\ sessions[s].user \in UserIds
                  /\ users[sessions[s].user] # NoUser /\ sessions[s].hash \in 1..minted
                BY <4>1 DEF IInv, SessionShape
            <4> QED BY <1>0, <1>3, <2>1, <4>1, <4>2, SessionFacts DEF Sids
        <3> QED BY <3>1, <3>2
    <2>5. /\ RequestTypes' /\ RequestShape' /\ Trying' \subseteq Trying
          /\ \A x \in Waiting : x.at \in {"mark", "expire", "revokeAll"} => x \in Waiting'
        BY <1>0, <1>1, <1>3, <2>1, MoveReq, SessionFacts
    <2>6. SpentIsMarked'
        BY <1>0, <2>5, MarkedFrame DEF IInv, redisVars, historyVars
    <2>7. ResetEndsOldSessions'
        <3> SUFFICES ASSUME NEW s \in Sids, ~sessions'[s].revoked, ~sessions'[s].late,
                            sessions'[s].user # 0,
                            sessions'[s].pw < users'[sessions'[s].user].password
                     PROVE  \E x \in Waiting' : x.at = "revokeAll" /\ x.id = sessions'[s].user
            BY DEF ResetEndsOldSessions, Waiting
        <3>1. s # opened + 1
            BY <1>0, <1>3, <2>1, <2>2, SessionFacts
        <3>2. sessions'[s] = sessions[s]  BY <1>3, <3>1, SessionFacts
        <3>3. \E x \in Waiting : x.at = "revokeAll" /\ x.id = sessions[s].user
            BY <1>0, <3>2 DEF IInv, ResetEndsOldSessions, Waiting
        <3> QED BY <2>5, <3>2, <3>3
    <2>8. UserTypes' /\ TokenTypes' /\ UserShape'
        BY <1>0 DEF IInv, Types, UserTypes, TokenTypes, UserShape, redisVars, historyVars
    <2> QED BY <1>0, <2>3, <2>4, <2>5, <2>6, <2>7, <2>8, Writing DEF redisVars
<1> QED BY <1>2, <1>3 DEF createSession

\* Rows that stay, with the same user, password and hash, keep the shape of the table.
LEMMA SameRows ==
    ASSUME IInv, UNCHANGED <<users, opened, minted>>,
           \A s \in Sids : \/ sessions'[s] = NoRow
                          \/ /\ sessions[s] # NoRow
                             /\ sessions'[s].user = sessions[s].user
                             /\ sessions'[s].hash = sessions[s].hash
    PROVE  SessionShape'
BY DEF IInv, SessionShape

\* One session is revoked, whichever of logout, the sessions page or reuse detection asks.
LEMMA revokeSession_Inv ==
    ASSUME IInv, NEW p \in Procs, revokeSession(p), UNCHANGED socketVars
    PROVE  IInv'
<1> DEFINE t == req[p].sid
<1>0. /\ req[p].at = "revoke" /\ Done(p) /\ t \in Sids
      /\ UNCHANGED <<users, created, opened, minted, redisVars, historyVars, cut>>
    BY DEF revokeSession, IInv, RequestShape, HasRead
<1>1. Moves(p)  BY <1>0, DoneMoves DEF Owed
<1>2. CASE sessions' = sessions
    BY <1>0, <1>2, IdleFields, MoveTo DEF Done, Owed, HasRead, dbVars
<1>3. CASE sessions[t] # NoRow /\ sessions' = [sessions EXCEPT ![t].revoked = TRUE]
    <2> HIDE DEF t
    <2>1. SessionTypes'  BY <1>0, <1>3, SessionFacts DEF SessionTypes
    <2>2. \A s \in Sids : /\ sessions'[s].user = sessions[s].user /\ sessions'[s].pw = sessions[s].pw
                          /\ sessions'[s].hash = sessions[s].hash /\ sessions'[s].late = sessions[s].late
                          /\ sessions[s].revoked => sessions'[s].revoked
        BY <1>0, <1>3, SessionFacts
    <2>3. SessionShape'
        BY <1>0, <1>3, <2>2, SameRows, SessionFacts
    <2>5. /\ RequestTypes' /\ RequestShape' /\ Trying' \subseteq Trying
          /\ \A x \in Waiting : x.at \in {"mark", "expire", "revokeAll"} => x \in Waiting'
        BY <1>0, <1>1, MoveReq, SessionFacts
    <2>6. SpentIsMarked' /\ ResetEndsOldSessions'
        BY <1>0, <2>2, <2>5, MarkedFrame, ResetFrame DEF IInv, redisVars, historyVars
    <2>8. UserTypes' /\ TokenTypes' /\ UserShape'
        BY <1>0 DEF IInv, Types, UserTypes, TokenTypes, UserShape, redisVars, historyVars
    <2> QED BY <1>0, <2>1, <2>3, <2>5, <2>6, <2>8, Writing DEF redisVars
<1> QED BY <1>2, <1>3 DEF revokeSession

\* A session expires.
LEMMA SessionExpires_Inv ==
    ASSUME IInv, SessionExpires, UNCHANGED socketVars
    PROVE  IInv'
<1>0. PICK t \in Sids : sessions[t] # NoRow /\ sessions' = [sessions EXCEPT ![t].expired = TRUE]
    BY DEF SessionExpires
<1>1. UNCHANGED <<users, created, opened, minted, redisVars, historyVars, req, cut>>
    BY DEF SessionExpires
<1>2. SessionTypes'  BY <1>0, <1>1, SessionFacts DEF SessionTypes
<1>3. \A s \in Sids : /\ sessions'[s].user = sessions[s].user /\ sessions'[s].pw = sessions[s].pw
                      /\ sessions'[s].hash = sessions[s].hash /\ sessions'[s].late = sessions[s].late
                      /\ sessions'[s].revoked = sessions[s].revoked
    BY <1>0, SessionFacts
<1>4. SessionShape'  BY <1>0, <1>1, <1>3, SameRows, SessionFacts
<1>5. /\ RequestTypes' /\ RequestShape' /\ Trying' = Trying /\ Waiting' = Waiting
    BY <1>1 DEF IInv, Types, RequestTypes, RequestShape, HasRead, Trying, Waiting
<1>6. SpentIsMarked' /\ ResetEndsOldSessions'
    BY <1>1, <1>3, <1>5, MarkedFrame, ResetFrame DEF IInv, redisVars, historyVars
<1>7. UserTypes' /\ TokenTypes' /\ UserShape'
    BY <1>1 DEF IInv, Types, UserTypes, TokenTypes, UserShape, redisVars, historyVars
<1> QED BY <1>1, <1>2, <1>4, <1>5, <1>6, <1>7, Writing DEF redisVars

\* The conditional update: the session that still has the hash gets the next one, and the
\* request owes the marker of the hash it spent.
LEMMA RefreshRotate_Inv ==
    ASSUME IInv, NEW p \in Procs, RefreshRotate(p), UNCHANGED socketVars
    PROVE  IInv'
<1> DEFINE t == req[p].sid
           h == req[p].hash
           r == [req[p] EXCEPT !.at = "mark"]
<1>0. /\ req[p].at = "rotate" /\ t \in Sids /\ h \in 1..minted /\ h \in Hashes
      /\ req[p] \in RequestRecord
      /\ UNCHANGED <<users, created, opened, redisVars, gone, cut>>
    <2>1. HasRead(req[p]) /\ req[p].at = "rotate"  BY DEF RefreshRotate, At, IInv, RequestShape
    <2>2. t \in Sids /\ h \in 1..minted  BY <2>1 DEF HasRead
    <2>3. h \in Hashes  BY <2>2, SessionFacts DEF Hashes
    <2> QED BY <2>1, <2>2, <2>3, SessionFacts DEF RefreshRotate
<1>1. CASE Done(p) /\ UNCHANGED <<minted, sessions, heir>>
    BY <1>0, <1>1, IdleFields, MoveTo DEF Done, Owed, HasRead, dbVars, historyVars
<1>2. CASE /\ sessions[t].hash = h /\ ~sessions[t].revoked
           /\ minted < MaxHashes /\ minted' = minted + 1
           /\ sessions' = [sessions EXCEPT ![t].hash = minted + 1, ![t].expired = FALSE]
           /\ heir' = [heir EXCEPT ![h] = minted + 1]
           /\ Goto(p, r)
    <2> HIDE DEF t, h
    <2>1. minted + 1 \in 0..MaxHashes /\ minted \in Nat /\ minted' \in 0..MaxHashes
        BY <1>2, SessionFacts
    <2>2. r \in RequestRecord /\ r.at = "mark" /\ r.sid = t /\ r.hash = h
        BY <1>0 DEF RequestRecord, Awaits, t, h
    <2> HIDE DEF r
    <2>3. Moves(p)
        BY <1>0, <1>2, <2>1, <2>2, SessionFacts DEF Goto, Moves, HasRead, Owed
    <2>4. SessionTypes'  BY <1>0, <1>2, <2>1, SessionFacts DEF SessionTypes
    <2>5. \A s \in Sids : /\ sessions'[s].user = sessions[s].user /\ sessions'[s].pw = sessions[s].pw
                          /\ sessions'[s].late = sessions[s].late
                          /\ sessions'[s].revoked = sessions[s].revoked
                          /\ s # t => sessions'[s] = sessions[s]
        BY <1>0, <1>2, SessionFacts
    <2>6. sessions'[t].hash = minted + 1
        BY <1>0, <1>2, SessionFacts
    <2>7. SessionShape'
        <3>1. sessions[t] # NoRow  BY <1>0, <1>2 DEF NoRow
        <3> SUFFICES ASSUME NEW s \in Sids, sessions'[s] # NoRow
                     PROVE  /\ s <= opened' /\ sessions'[s].user \in UserIds
                            /\ users'[sessions'[s].user] # NoUser /\ sessions'[s].hash \in 1..minted'
            BY DEF SessionShape
        <3>2. /\ s <= opened /\ sessions[s].user \in UserIds
              /\ users[sessions[s].user] # NoUser /\ sessions[s].hash \in 1..minted
            BY <2>5, <3>1 DEF IInv, SessionShape
        <3>3. sessions'[s].hash \in 1..(minted + 1)
            BY <2>1, <2>5, <2>6, <3>2
        <3> QED BY <1>0, <1>2, <2>5, <3>2, <3>3
    <2>8. /\ RequestTypes' /\ RequestShape' /\ Trying' \subseteq Trying
          /\ \A x \in Waiting : x.at \in {"mark", "expire", "revokeAll"} => x \in Waiting'
        BY <1>0, <1>2, <2>1, <2>3, MoveReq, SessionFacts
    <2>9. SpentIsMarked'
        <3> SUFFICES ASSUME NEW g \in Hashes, heir'[g] # 0
                     PROVE  \/ used'[g] # 0 \/ g \in gone'
                            \/ \E x \in Waiting' : x.at = "mark" /\ x.hash = g
            BY DEF SpentIsMarked, Waiting
        <3>1. CASE g = h
            <4>1. r \in Waiting'  BY <1>2, SessionFacts DEF Goto, Waiting
            <4> QED BY <2>2, <3>1, <4>1
        <3>2. CASE g # h
            <4>1. heir[g] # 0  BY <1>2, <3>2, SessionFacts
            <4>2. \/ used[g] # 0 \/ g \in gone
                  \/ \E x \in Waiting : x.at = "mark" /\ x.hash = g
                BY <4>1 DEF IInv, SpentIsMarked, Waiting
            <4> QED BY <1>0, <2>8, <4>2 DEF redisVars
        <3> QED BY <3>1, <3>2
    <2>10. ResetEndsOldSessions'
        BY <1>0, <2>5, <2>8, ResetFrame DEF IInv
    <2>11. UserTypes' /\ TokenTypes' /\ UserShape'
        BY <1>0, <1>2, <2>1, SessionFacts DEF IInv, Types, UserTypes, TokenTypes, UserShape, redisVars
    <2> QED BY <1>0, <2>4, <2>7, <2>8, <2>9, <2>10, <2>11, Writing DEF redisVars
<1> QED BY <1>1, <1>2 DEF RefreshRotate, rotateSessionRefreshHash, To

\* The marker is written: what this request owed is paid.
LEMMA RefreshMark_Inv ==
    ASSUME IInv, NEW p \in Procs, RefreshMark(p), UNCHANGED socketVars
    PROVE  IInv'
<1> DEFINE t == req[p].sid
           h == req[p].hash
<1>0. /\ req[p].at = "mark" /\ t \in Sids /\ h \in 1..minted /\ h \in Hashes
      /\ used' = [used EXCEPT ![h] = t] /\ req' = [req EXCEPT ![p] = Idle]
      /\ UNCHANGED <<dbVars, fails, ttl, keys, windows, historyVars, cut>>
    <2>1. HasRead(req[p]) /\ req[p].at = "mark"  BY DEF RefreshMark, At, IInv, RequestShape
    <2>2. t \in Sids /\ h \in 1..minted  BY <2>1 DEF HasRead
    <2>3. h \in Hashes  BY <2>2, SessionFacts DEF Hashes
    <2> QED BY <2>1, <2>2, <2>3 DEF RefreshMark, Done, Goto
<1> HIDE DEF t, h
<1>1. /\ RequestTypes' /\ RequestShape' /\ Trying' \subseteq Trying
    BY <1>0, IdleFields, SessionFacts
       DEF IInv, Types, RequestTypes, RequestShape, HasRead, dbVars, Trying
<1>2. \A x \in Waiting : x # req[p] => x \in Waiting'
    BY <1>0 DEF Waiting
<1>3. SpentIsMarked'
    <2> SUFFICES ASSUME NEW g \in Hashes, heir[g] # 0
                 PROVE  \/ used'[g] # 0 \/ g \in gone
                        \/ \E x \in Waiting' : x.at = "mark" /\ x.hash = g
        BY <1>0 DEF SpentIsMarked, Waiting, historyVars
    <2>1. CASE g = h  BY <1>0, <2>1, SessionFacts DEF Sids
    <2>2. CASE g # h
        <3>1. \/ used[g] # 0 \/ g \in gone
              \/ \E x \in Waiting : x.at = "mark" /\ x.hash = g
            BY DEF IInv, SpentIsMarked, Waiting
        <3> QED BY <1>0, <1>2, <2>2, <3>1, SessionFacts DEF h
    <2> QED BY <2>1, <2>2
<1>4. ResetEndsOldSessions'
    BY <1>0, <1>2, ResetFrame DEF IInv, dbVars
<1>5. UserTypes' /\ SessionTypes' /\ TokenTypes' /\ UserShape' /\ SessionShape'
    <2>1. used' \in [Hashes -> 0..MaxSessions]  BY <1>0, SessionFacts DEF Sids
    <2> QED BY <1>0, <2>1 DEF IInv, Types, UserTypes, SessionTypes, TokenTypes, UserShape, SessionShape,
           dbVars, historyVars
<1> QED BY <1>0, <1>1, <1>2, <1>3, <1>4, <1>5, Writing DEF dbVars

\* A marker has lived as long as a token may.
LEMMA MarkerExpires_Inv ==
    ASSUME IInv, MarkerExpires, UNCHANGED socketVars
    PROVE  IInv'
<1>0. PICK h \in Hashes : used' = [used EXCEPT ![h] = 0] /\ gone' = gone \cup {h}
    BY DEF MarkerExpires
<1>1. UNCHANGED <<dbVars, fails, ttl, keys, windows, heir, req, cut>>
    BY DEF MarkerExpires
<1>2. /\ RequestTypes' /\ RequestShape' /\ Trying' = Trying /\ Waiting' = Waiting
    BY <1>1 DEF IInv, Types, RequestTypes, RequestShape, HasRead, Trying, Waiting, dbVars
<1>3. SpentIsMarked'
    BY <1>0, <1>1, SessionFacts DEF IInv, SpentIsMarked
<1>4. ResetEndsOldSessions'  BY <1>1, <1>2, ResetFrame DEF IInv, dbVars
<1>5. UserTypes' /\ SessionTypes' /\ TokenTypes' /\ UserShape' /\ SessionShape'
    <2>1. used' \in [Hashes -> 0..MaxSessions]  BY <1>0, SessionFacts
    <2> QED BY <1>1, <2>1 DEF IInv, Types, UserTypes, SessionTypes, TokenTypes, UserShape, SessionShape,
           dbVars
<1> QED BY <1>1, <1>2, <1>3, <1>4, <1>5, Writing DEF dbVars

\* The first write of a reset: the new password, with the revocation owed.
LEMMA UpdatePassword_Inv ==
    ASSUME IInv, NEW p \in Procs, At(p, "confirm", "write"), updatePassword(p, To(p, "revokeAll")),
           UNCHANGED <<redisVars, historyVars, cut, socketVars>>
    PROVE  IInv'
<1> DEFINE u == req[p].id
           r == [req[p] EXCEPT !.at = "revokeAll"]
<1>0. /\ req[p].at = "write" /\ u \in UserIds /\ users[u].password < MaxPasswords
      /\ req[p] \in RequestRecord /\ UNCHANGED <<created, sessions, opened, minted>>
    BY SessionFacts DEF At, updatePassword, IInv, RequestShape, HasRead
<1>1. CASE users' = users /\ Done(p)
    BY <1>0, <1>1, IdleFields, MoveTo DEF Done, Owed, HasRead, dbVars
<1>2. CASE /\ users[u] # NoUser /\ users' = [users EXCEPT ![u].password = @ + 1]
           /\ Goto(p, r)
    <2> HIDE DEF u
    <2>1. r \in RequestRecord /\ r.at = "revokeAll" /\ r.id = u
        BY <1>0 DEF RequestRecord, Awaits, u
    <2> HIDE DEF r
    <2>2. Moves(p)
        BY <1>0, <1>2, <2>1, SessionFacts DEF Goto, Moves, HasRead, Owed
    <2>3. /\ RequestTypes' /\ RequestShape' /\ Trying' \subseteq Trying
          /\ \A x \in Waiting : x.at \in {"mark", "expire", "revokeAll"} => x \in Waiting'
        BY <1>0, <2>2, MoveReq, SessionFacts
    <2>4. UserTypes'
        <3>1. users[u].password + 1 \in 0..MaxPasswords  BY <1>0, SessionFacts
        <3> QED BY <1>0, <1>2, <3>1, SessionFacts DEF UserTypes
    <2>5. \A v \in UserIds : (v # u => users'[v] = users[v]) /\ users'[v].provider = users[v].provider
                             /\ users'[v].status = users[v].status
        BY <1>0, <1>2, SessionFacts
    <2>6. users'[u].password = users[u].password + 1  BY <1>0, <1>2, SessionFacts
    <2>7. users'[u] # NoUser
        <3>1. users[u].password + 1 # 0  BY <1>0, SessionFacts
        <3> QED BY <2>6, <3>1 DEF NoUser
    <2>8. UserShape' /\ SessionShape'
        BY <1>0, <1>2, <2>5, <2>7 DEF IInv, UserShape, SessionShape
    <2>9. SpentIsMarked'  BY <2>3, MarkedFrame DEF IInv, redisVars, historyVars
    <2>10. ResetEndsOldSessions'
        <3> SUFFICES ASSUME NEW s \in Sids, ~sessions[s].revoked, ~sessions[s].late,
                            sessions[s].user # 0, sessions[s].pw < users'[sessions[s].user].password
                     PROVE  \E x \in Waiting' : x.at = "revokeAll" /\ x.id = sessions[s].user
            BY <1>0 DEF ResetEndsOldSessions, Waiting
        <3>1. CASE sessions[s].user = u
            <4>1. r \in Waiting'  BY <1>2, SessionFacts DEF Goto, Waiting
            <4> QED BY <2>1, <3>1, <4>1
        <3>2. CASE sessions[s].user # u
            <4>1. sessions[s].user \in UserIds  BY DEF IInv, SessionShape, NoRow
            <4>2. \E x \in Waiting : x.at = "revokeAll" /\ x.id = sessions[s].user
                BY <2>5, <3>2, <4>1 DEF IInv, ResetEndsOldSessions, Waiting
            <4> QED BY <2>3, <4>2
        <3> QED BY <3>1, <3>2
    <2>11. SessionTypes' /\ TokenTypes'
        BY <1>0 DEF IInv, Types, SessionTypes, TokenTypes, redisVars, historyVars
    <2>12. \A v \in UserIds : users'[v] # NoUser => users[v] # NoUser
        BY <1>2, <2>5
    <2> QED BY <1>0, <2>3, <2>4, <2>8, <2>9, <2>10, <2>11, <2>12, Writing DEF redisVars
<1> QED BY <1>1, <1>2 DEF updatePassword, To

\* The second write of a reset: no session of the user is left, which is what was owed.
LEMMA RevokeAll_Inv ==
    ASSUME IInv, NEW p \in Procs, At(p, "confirm", "revokeAll"), revokeAllSessionsForUser(p), Done(p),
           UNCHANGED <<redisVars, historyVars, cut, socketVars>>
    PROVE  IInv'
<1> DEFINE u == req[p].id
<1>0. /\ req[p].at = "revokeAll" /\ u \in UserIds /\ req' = [req EXCEPT ![p] = Idle]
      /\ UNCHANGED <<users, created, opened, minted>>
      /\ sessions' = [s \in Sids |-> IF sessions[s].user = u
                                      THEN [sessions[s] EXCEPT !.revoked = TRUE] ELSE sessions[s]]
    BY DEF At, revokeAllSessionsForUser, IInv, RequestShape, HasRead, Done, Goto
<1> HIDE DEF u
<1>1. /\ RequestTypes' /\ RequestShape' /\ Trying' \subseteq Trying
    BY <1>0, IdleFields, SessionFacts DEF IInv, Types, RequestTypes, RequestShape, HasRead, Trying
<1>2. \A x \in Waiting : x # req[p] => x \in Waiting'
    BY <1>0 DEF Waiting
<1>3. SessionTypes'  BY <1>0, SessionFacts DEF SessionTypes
<1>4. \A s \in Sids : /\ sessions'[s].user = sessions[s].user /\ sessions'[s].pw = sessions[s].pw
                      /\ sessions'[s].hash = sessions[s].hash /\ sessions'[s].late = sessions[s].late
                      /\ sessions[s].user = u => sessions'[s].revoked
                      /\ sessions[s].user # u => sessions'[s] = sessions[s]
    BY <1>0, SessionFacts
<1>5. SessionShape'
    <2>1. \A s \in Sids : sessions'[s] = NoRow \/ sessions[s] # NoRow
        BY <1>0, <1>4 DEF NoRow, UserIds
    <2> QED BY <1>0, <1>4, <2>1, SameRows
<1>6. SpentIsMarked'
    BY <1>0, <1>2, MarkedFrame DEF IInv, redisVars, historyVars
<1>7. ResetEndsOldSessions'
    <2> SUFFICES ASSUME NEW s \in Sids, ~sessions'[s].revoked, ~sessions'[s].late,
                        sessions'[s].user # 0, sessions'[s].pw < users[sessions'[s].user].password
                 PROVE  \E x \in Waiting' : x.at = "revokeAll" /\ x.id = sessions'[s].user
        BY <1>0 DEF ResetEndsOldSessions, Waiting
    <2>1. sessions[s].user # u /\ sessions'[s] = sessions[s]  BY <1>4
    <2>2. PICK x \in Waiting : x.at = "revokeAll" /\ x.id = sessions[s].user
        BY <2>1 DEF IInv, ResetEndsOldSessions, Waiting
    <2>3. x # req[p]  BY <2>1, <2>2 DEF u
    <2> QED BY <1>2, <2>1, <2>2, <2>3
<1>8. UserTypes' /\ TokenTypes' /\ UserShape'
    BY <1>0 DEF IInv, Types, UserTypes, TokenTypes, UserShape, redisVars, historyVars
<1> QED BY <1>0, <1>1, <1>2, <1>3, <1>5, <1>6, <1>7, <1>8, Writing DEF redisVars

\* The account goes, and its sessions with it.
LEMMA deleteUser_Inv ==
    ASSUME IInv, NEW p \in Procs, deleteUser(p), UNCHANGED socketVars
    PROVE  IInv'
<1> DEFINE u == req[p].id
<1>0. /\ req[p].at = "row" /\ Done(p) /\ users' = [users EXCEPT ![u] = NoUser]
      /\ sessions' = [s \in Sids |-> IF sessions[s].user = u THEN NoRow ELSE sessions[s]]
      /\ UNCHANGED <<created, opened, minted, redisVars, historyVars, cut>>
    BY DEF deleteUser, At
<1> HIDE DEF u
<1>1. Moves(p)  BY <1>0, DoneMoves DEF Owed
<1>2. /\ RequestTypes' /\ RequestShape' /\ Trying' \subseteq Trying
      /\ \A x \in Waiting : x.at \in {"mark", "expire", "revokeAll"} => x \in Waiting'
    BY <1>0, <1>1, MoveReq, SessionFacts
<1>3. SessionTypes'
    <2>1. NoRow \in [user : 0..MaxUsers, hash : 0..MaxHashes, revoked : {TRUE, FALSE},
                     expired : {TRUE, FALSE}, pw : 0..MaxPasswords, late : {TRUE, FALSE}]
        BY DEF NoRow
    <2> QED BY <1>0, <2>1, SessionFacts DEF SessionTypes
<1>4. UserTypes'
    <2>1. NoUser \in [provider : {"none", "email", "google"}, password : 0..MaxPasswords,
                      status : {"none", "pending_verification", "verified", "complete"}]
        BY DEF NoUser
    <2> QED BY <1>0, <2>1, SessionFacts DEF UserTypes
<1>5. \A v \in UserIds : users'[v] = IF v = u THEN NoUser ELSE users[v]
    BY <1>0, SessionFacts
<1>6. UserShape'  BY <1>0, <1>5 DEF IInv, UserShape
<1>7. \A s \in Sids : sessions'[s] = NoRow \/ (sessions'[s] = sessions[s] /\ sessions[s].user # u)
    BY <1>0
<1>8. SessionShape'  BY <1>0, <1>5, <1>7 DEF IInv, SessionShape
<1>9. SpentIsMarked'  BY <1>0, <1>2, MarkedFrame DEF IInv, redisVars, historyVars
<1>10. ResetEndsOldSessions'
    <2>1. \A s \in Sids : sessions[s].user # 0 => sessions[s].user \in UserIds
        BY DEF IInv, SessionShape, NoRow
    <2>2. NoRow.user = 0  BY DEF NoRow
    <2> QED BY <1>2, <1>5, <1>7, <2>1, <2>2, ResetFrame DEF IInv
<1>11. TokenTypes'  BY <1>0 DEF IInv, Types, TokenTypes, redisVars, historyVars
<1> QED BY <1>0, <1>2, <1>3, <1>4, <1>5, <1>6, <1>8, <1>9, <1>10, <1>11, Writing DEF redisVars

\* A request dies; what it owed is remembered.
LEMMA Dies_Inv ==
    ASSUME IInv, NEW p \in Procs, Dies(p), UNCHANGED socketVars
    PROVE  IInv'
<1>0. /\ req' = [req EXCEPT ![p] = Idle] /\ req[p] \in RequestRecord
      /\ cut' = IF req[p].at \in {"mark", "expire", "revokeAll"} THEN cut \cup {req[p]} ELSE cut
      /\ UNCHANGED <<dbVars, redisVars, historyVars>>
    BY SessionFacts DEF Dies, Done, Goto
<1>1. /\ RequestTypes' /\ RequestShape' /\ Trying' \subseteq Trying
    BY <1>0, IdleFields, SessionFacts
       DEF IInv, Types, RequestTypes, RequestShape, HasRead, dbVars, Trying
<1>2. \A x \in Waiting : x.at \in {"mark", "expire", "revokeAll"} => x \in Waiting'
    BY <1>0 DEF Waiting
<1>3. SpentIsMarked' /\ ResetEndsOldSessions'
    BY <1>0, <1>2, MarkedFrame, ResetFrame DEF IInv, dbVars, redisVars, historyVars
<1>4. UserTypes' /\ SessionTypes' /\ TokenTypes' /\ UserShape' /\ SessionShape'
    BY <1>0 DEF IInv, Types, UserTypes, SessionTypes, TokenTypes, UserShape, SessionShape,
           dbVars, redisVars, historyVars
<1> QED BY <1>0, <1>1, <1>2, <1>3, <1>4, Writing DEF dbVars, redisVars

-----------------------------------------------------------------------------
(* Tickets, upgrades, plans and the server *)

\* An upgrade reads its way from the ticket to the plan.
LEMMA UpgradeReads_Inv ==
    ASSUME IInv, NEW p \in Procs, UpgradeTake(p) \/ UpgradeSession(p) \/ UpgradePlan(p)
    PROVE  IInv'
<1>0. req[p] \in RequestRecord /\ req \in [Procs -> RequestRecord] /\ HasRead(req[p]) /\ HasRead(Idle)
    BY SessionFacts, IdleFields DEF IInv, RequestShape, HasRead
<1>1. CASE UpgradeTake(p)
    <2>1. PICK t \in Sids : /\ tickets[t] > 0 /\ tickets' = [tickets EXCEPT ![t] = @ - 1]
                           /\ Goto(p, [First("ticket", "wsSession") EXCEPT !.sid = t])
        BY <1>1 DEF UpgradeTake
    <2>2. TicketTypes'
        <3>1. tickets \in [Sids -> 0..MaxTickets]  BY DEF IInv, Types, TicketTypes
        <3>2. tickets[t] - 1 \in 0..MaxTickets  BY <2>1, <3>1
        <3> QED BY <2>1, <3>1, <3>2 DEF TicketTypes
    <2> DEFINE f == First("ticket", "wsSession")
               r == [f EXCEPT !.sid = t]
    <2>3. f \in RequestRecord /\ f.at = "wsSession"  BY FirstFields DEF Ops, Awaits
    <2>4. t \in 0..MaxSessions  BY DEF Sids
    <2>5. req' = [req EXCEPT ![p] = r]  BY <2>1 DEF Goto
    <2> HIDE DEF f
    <2>6. r \in RequestRecord /\ r.at = "wsSession" /\ r.sid = t
        BY <2>3, <2>4 DEF RequestRecord
    <2> HIDE DEF r
    <2>7. req[p].at = "none"  BY <1>1, IdleFields DEF UpgradeTake, Starts
    <2>8. Moves(p)  BY <1>0, <2>5, <2>6, <2>7 DEF Moves, HasRead, Owed
    <2>9. KeyTypes'  BY <1>1 DEF UpgradeTake, IInv, Types, KeyTypes, redisVars
    <2> QED BY <1>1, <2>2, <2>8, <2>9, Move DEF UpgradeTake, redisVars
<1>2. CASE UpgradeSession(p)
    <2> DEFINE t == req[p].sid
               u == sessions[t].user
               r == [req[p] EXCEPT !.at = "wsPlan", !.id = u]
    <2>1. req[p].at = "wsSession" /\ t \in Sids  BY <1>0, <1>2 DEF UpgradeSession, At, HasRead
    <2>2. CASE requireAuth(t) /\ Goto(p, r)
        <3>1. u \in UserIds /\ u <= created /\ u \in 0..MaxUsers
            BY <2>1, <2>2 DEF requireAuth, IInv, SessionShape, UserShape, UserIds
        <3> HIDE DEF u
        <3>2. r \in RequestRecord /\ r.at = "wsPlan" /\ r.id = u
            BY <1>0, <3>1 DEF RequestRecord, Awaits
        <3> HIDE DEF r
        <3>3. HasRead(r)  BY <3>1, <3>2 DEF HasRead
        <3> QED BY <1>2, <2>1, <2>2, <3>2, <3>3, MoveTo DEF UpgradeSession, Owed
    <2>3. CASE Done(p)
        BY <1>0, <1>2, <2>1, <2>3, MoveTo, IdleFields DEF UpgradeSession, Done, Owed
    <2> QED BY <1>2, <2>2, <2>3 DEF UpgradeSession
<1>3. CASE UpgradePlan(p)
    <2> DEFINE r == [req[p] EXCEPT !.at = "wsOpen"]
    <2>1. req[p].at = "wsPlan" /\ req[p].id \in UserIds /\ req[p].id <= created
        BY <1>0, <1>3 DEF UpgradePlan, At, HasRead
    <2>2. r \in RequestRecord /\ r.at = "wsOpen" /\ r.id = req[p].id
        BY <1>0 DEF RequestRecord, Awaits
    <2>3. Goto(p, r) \/ Goto(p, Idle)  BY <1>3 DEF UpgradePlan, To, Done
    <2> HIDE DEF r
    <2>4. HasRead(r)  BY <2>1, <2>2 DEF HasRead
    <2> QED BY <1>0, <1>3, <2>1, <2>2, <2>3, <2>4, MoveTo, IdleFields DEF UpgradePlan, Owed
<1> QED BY <1>1, <1>2, <1>3

\* A step on plans, events and the registry.
LEMMA Registry ==
    ASSUME IInv, UNCHANGED <<sessionsVars, tickets>>,
           PlanTypes', SocketTypes', SocketShape', FreeHasNoSocket'
    PROVE  IInv'
<1> USE DEF sessionsVars, dbVars, redisVars, historyVars
<1>1. Types'
    BY DEF IInv, Types, UserTypes, SessionTypes, TokenTypes, CounterTypes, RequestTypes, KeyTypes,
           TicketTypes
<1>2. UserShape' /\ SessionShape' /\ RequestShape'
    BY DEF IInv, UserShape, SessionShape, RequestShape, HasRead
<1>3. SpentIsMarked' /\ LockoutHasEnd' /\ ResetEndsOldSessions' /\ TryingIsCounted'
    BY DEF IInv, SpentIsMarked, LockoutHasEnd, ResetEndsOldSessions, TryingIsCounted, Trying
<1> QED BY <1>1, <1>2, <1>3 DEF IInv

\* The types of plans, events and sockets.
LEMMA SocketFacts ==
    ASSUME IInv
    PROVE  /\ plan \in [UserIds -> {"free", "pro"}] /\ changes \in 0..MaxPlanChanges
           /\ published \in [UserIds -> {"no", "due", "sent"}]
           /\ closing \subseteq UserIds /\ missed \subseteq UserIds
           /\ server \in {"off", "starting", "on", "deaf", "stopping"}
           /\ sockets \in [SocketIds -> [user : 0..MaxUsers, late : {TRUE, FALSE},
                                         st : {"none", "open", "closing"}]]
           /\ created \in 0..MaxUsers
BY DEF IInv, Types, PlanTypes, SocketTypes, UserTypes

\* The socket is registered, late when the plan it was admitted for has gone.
LEMMA handleConnection_Inv ==
    ASSUME IInv, NEW p \in Procs, handleConnection(p)
    PROVE  IInv'
<1> DEFINE u == req[p].id
           late == getEffectivePlan(u) = "free"
           row == [user |-> u, st |-> "open", late |-> late]
<1>0. /\ req[p].at = "wsOpen" /\ Done(p) /\ u \in UserIds /\ u <= created
      /\ UNCHANGED <<dbVars, redisVars, historyVars, cut, ops, plan, changes, tickets, published,
                     closing, missed, server>>
    BY DEF handleConnection, At, IInv, RequestShape, HasRead
<1>1. CASE UNCHANGED sockets
    BY <1>0, <1>1, IdleFields, MoveTo DEF Done, Owed, HasRead, socketVars
<1>2. ASSUME NEW i \in SocketIds, sockets' = [sockets EXCEPT ![i] = row]
      PROVE  IInv'
    <2>1. late \in {TRUE, FALSE}  OBVIOUS
    <2>2. users[u] # NoUser /\ plan[u] = "free" => late = TRUE  BY DEF getEffectivePlan
    <2> HIDE DEF u, late
    <2>3. /\ row \in [user : 0..MaxUsers, late : {TRUE, FALSE}, st : {"none", "open", "closing"}]
          /\ row.user = u /\ row.late = late
        <3>1. u \in 0..MaxUsers  BY <1>0 DEF UserIds
        <3>2. row = [user |-> u, st |-> "open", late |-> late]  OBVIOUS
        <3> HIDE DEF row
        <3> QED BY <2>1, <3>1, <3>2
    <2> HIDE DEF row
    <2>4. SocketTypes'  BY <1>2, <2>3, SocketFacts DEF SocketTypes
    <2>5. SocketShape'
        BY <1>0, <1>2, <2>3, SocketFacts DEF IInv, SocketShape, dbVars
    <2>6. FreeHasNoSocket'
        <3> SUFFICES ASSUME NEW v \in UserIds, NEW j \in SocketIds, users[v] # NoUser,
                            plan[v] = "free", published[v] = "no", v \notin closing \cup missed,
                            sockets'[j].user = v, sockets'[j].st = "open"
                     PROVE  sockets'[j].late
            BY <1>0 DEF FreeHasNoSocket, dbVars
        <3>1. CASE j = i
            <4>1. sockets'[j] = row  BY <1>2, <3>1, SocketFacts
            <4> QED BY <2>2, <2>3, <4>1
        <3>2. CASE j # i
            <4>1. sockets'[j] = sockets[j]  BY <1>2, <3>2, SocketFacts
            <4> QED BY <4>1 DEF IInv, FreeHasNoSocket
        <3> QED BY <3>1, <3>2
    <2>7. Moves(p)  BY <1>0, DoneMoves DEF Owed
    <2>8. /\ RequestTypes' /\ RequestShape' /\ Trying' \subseteq Trying
          /\ \A x \in Waiting : x.at \in {"mark", "expire", "revokeAll"} => x \in Waiting'
        BY <1>0, <2>7, MoveReq, SessionFacts DEF dbVars
    <2>9. Types'
        BY <1>0, <2>4, <2>8 DEF IInv, Types, UserTypes, SessionTypes, TokenTypes, CounterTypes, KeyTypes,
            TicketTypes, PlanTypes, dbVars, redisVars, historyVars
    <2>10. UserShape' /\ SessionShape'
        BY <1>0 DEF IInv, UserShape, SessionShape, dbVars
    <2>11. SpentIsMarked' /\ LockoutHasEnd' /\ ResetEndsOldSessions'
        BY <1>0, <2>8, MarkedFrame, LockoutFrame, ResetFrame DEF IInv, dbVars, redisVars, historyVars
    <2>12. TryingIsCounted'
        BY <1>0, <2>8, TryingFrame DEF IInv, Types, CounterTypes, Subjects, redisVars
    <2> QED BY <2>5, <2>6, <2>8, <2>9, <2>10, <2>11, <2>12 DEF IInv
<1> QED BY <1>1, <1>2 DEF handleConnection

\* Tickets are issued and expire; the server takes upgrades and subscribes.
LEMMA Tickets_Inv ==
    ASSUME IInv, issueWsTicket \/ TicketExpires \/ startWsServer
    PROVE  IInv'
<1> USE DEF sessionsVars, redisVars
<1>0. tickets \in [Sids -> 0..MaxTickets] /\ KeyTypes /\ PlanTypes  BY DEF IInv, Types, TicketTypes
<1>1. CASE issueWsTicket
    <2>1. TicketTypes'
        <3>1. PICK s \in Sids : tickets[s] < MaxTickets /\ tickets' = [tickets EXCEPT ![s] = @ + 1]
            BY <1>1 DEF issueWsTicket
        <3>2. tickets[s] + 1 \in 0..MaxTickets  BY <1>0, <3>1
        <3> QED BY <1>0, <3>1, <3>2 DEF TicketTypes
    <2>2. KeyTypes' /\ PlanTypes'  BY <1>0, <1>1 DEF issueWsTicket, KeyTypes, PlanTypes
    <2> QED BY <1>1, <2>1, <2>2, Aside DEF issueWsTicket
<1>2. CASE TicketExpires
    <2>1. TicketTypes'
        <3>1. PICK s \in Sids : tickets[s] > 0 /\ tickets' = [tickets EXCEPT ![s] = @ - 1]
            BY <1>2 DEF TicketExpires
        <3>2. tickets[s] - 1 \in 0..MaxTickets  BY <1>0, <3>1
        <3> QED BY <1>0, <3>1, <3>2 DEF TicketTypes
    <2>2. KeyTypes' /\ PlanTypes'  BY <1>0, <1>2 DEF TicketExpires, KeyTypes, PlanTypes
    <2> QED BY <1>2, <2>1, <2>2, Aside DEF TicketExpires
<1>3. CASE startWsServer
    <2>1. TicketTypes' /\ KeyTypes' /\ PlanTypes'
        BY <1>0, <1>3 DEF startWsServer, KeyTypes, PlanTypes, TicketTypes
    <2> QED BY <1>3, <2>1, Aside DEF startWsServer
<1> QED BY <1>1, <1>2, <1>3

\* A socket closes, or the server terminates all of them.
LEMMA Closing_Inv ==
    ASSUME IInv, unregisterSocket \/ stopWsServer
    PROVE  IInv'
<1>0. /\ UNCHANGED <<sessionsVars, tickets, plan, changes, published, closing, missed>>
      /\ server' \in {"off", "starting", "on", "deaf", "stopping"}
    BY SocketFacts DEF unregisterSocket, stopWsServer
<1>1. NoSocket \in [user : 0..MaxUsers, late : {TRUE, FALSE}, st : {"none", "open", "closing"}]
      /\ NoSocket.user = 0 /\ NoSocket.st = "none"
    BY DEF NoSocket
<1>2. /\ sockets' \in [SocketIds -> [user : 0..MaxUsers, late : {TRUE, FALSE},
                                     st : {"none", "open", "closing"}]]
      /\ \A i \in SocketIds : sockets'[i] = sockets[i] \/ sockets'[i] = NoSocket
    <2>1. CASE unregisterSocket
        <3>1. PICK i \in SocketIds : sockets' = [sockets EXCEPT ![i] = NoSocket]
            BY <2>1 DEF unregisterSocket
        <3> QED BY <1>1, <3>1, SocketFacts
    <2>2. CASE stopWsServer
        <3>2. CASE sockets' = [i \in SocketIds |-> NoSocket]
            BY <1>1, <3>2
        <3>3. CASE sockets' = sockets
            BY <3>3, SocketFacts
        <3> QED BY <2>2, <3>2, <3>3 DEF stopWsServer
    <2> QED BY <2>1, <2>2
<1>3. PlanTypes' /\ SocketTypes'  BY <1>0, <1>2, SocketFacts DEF PlanTypes, SocketTypes
<1>4. SocketShape'
    <2>1. \A i \in SocketIds : sockets'[i].user = sockets[i].user \/ sockets'[i].user = 0
        BY <1>1, <1>2
    <2>2. created' = created /\ created \in Nat  BY <1>0 DEF IInv, Types, UserTypes, sessionsVars, dbVars
    <2>3. \A i \in SocketIds : sockets[i].user <= created  BY DEF IInv, SocketShape
    <2> QED BY <2>1, <2>2, <2>3 DEF SocketShape
<1>5. FreeHasNoSocket'
    BY <1>0, <1>1, <1>2 DEF IInv, FreeHasNoSocket, sessionsVars, dbVars
<1> QED BY <1>0, <1>3, <1>4, <1>5, Registry

\* A plan begins: a late socket is in time again.
LEMMA PlanStarts_Inv ==
    ASSUME IInv, NEW u \in UserIds, PlanStarts(u)
    PROVE  IInv'
<1>0. /\ plan' = [plan EXCEPT ![u] = "pro"] /\ missed' = missed \ {u} /\ changes' = changes + 1
      /\ UNCHANGED <<sessionsVars, tickets, published, closing, server>>
      /\ sockets' = [i \in SocketIds |-> IF sockets[i].user = u
                                         THEN [sockets[i] EXCEPT !.late = FALSE] ELSE sockets[i]]
      /\ changes < (IF "again" \in ops THEN MaxPlanChanges ELSE 1)
    BY DEF PlanStarts
<1>1. \A i \in SocketIds : /\ sockets'[i].user = sockets[i].user
                           /\ sockets[i].user # u => sockets'[i] = sockets[i]
    BY <1>0, SocketFacts
<1>2. SocketTypes'  BY <1>0, SocketFacts DEF SocketTypes
<1>3. SocketShape'  BY <1>0, <1>1 DEF IInv, SocketShape, sessionsVars, dbVars
<1>4. PlanTypes'
    <2>1. changes + 1 \in 0..MaxPlanChanges  BY <1>0, SocketFacts
    <2> QED BY <1>0, <2>1, SocketFacts DEF PlanTypes
<1>5. FreeHasNoSocket'
    <2> SUFFICES ASSUME NEW v \in UserIds, NEW j \in SocketIds, users[v] # NoUser,
                        plan'[v] = "free", published[v] = "no", v \notin closing \cup missed',
                        sockets'[j].user = v, sockets'[j].st = "open"
                 PROVE  sockets'[j].late
        BY <1>0 DEF FreeHasNoSocket, sessionsVars, dbVars
    <2>1. v # u  BY <1>0, SocketFacts
    <2>2. sockets'[j] = sockets[j] /\ plan[v] = "free" /\ v \notin closing \cup missed
        BY <1>0, <1>1, <2>1, SocketFacts
    <2> QED BY <2>2 DEF IInv, FreeHasNoSocket
<1> QED BY <1>0, <1>2, <1>3, <1>4, <1>5, Registry

\* A plan ends with an event that is still to be sent, or lapses without one; the event is sent,
\* lost or received.
LEMMA PlanEvents_Inv ==
    ASSUME IInv, NEW u \in UserIds, PlanEnds(u) \/ PlanLapses(u) \/ Publish(u) \/ UserEvent(u)
    PROVE  IInv'
<1>0. UNCHANGED <<sessionsVars, changes, tickets, sockets, server>>
    BY DEF PlanEnds, PlanLapses, Publish, UserEvent
<1>1. PlanTypes'
    BY <1>0, SocketFacts DEF PlanTypes, PlanEnds, PlanLapses, Publish, UserEvent
<1>2. SocketTypes' /\ SocketShape'
    BY <1>0 DEF IInv, Types, SocketTypes, SocketShape, sessionsVars, dbVars
<1>3. FreeHasNoSocket'
    <2> SUFFICES ASSUME NEW v \in UserIds, users[v] # NoUser, plan'[v] = "free", published'[v] = "no",
                        v \notin closing' \cup missed', NEW j \in SocketIds,
                        sockets[j].user = v, sockets[j].st = "open"
                 PROVE  sockets[j].late
        BY <1>0 DEF FreeHasNoSocket, sessionsVars, dbVars
    <2>1. plan[v] = "free" /\ published[v] = "no" /\ v \notin closing \cup missed
        <3>1. CASE PlanEnds(u)  BY <3>1, SocketFacts DEF PlanEnds
        <3>2. CASE PlanLapses(u)  BY <3>2, SocketFacts DEF PlanLapses
        <3>3. CASE Publish(u)  BY <3>3, SocketFacts DEF Publish
        <3>4. CASE UserEvent(u)  BY <3>4, SocketFacts DEF UserEvent, getEffectivePlan
        <3> QED BY <3>1, <3>2, <3>3, <3>4
    <2> QED BY <2>1 DEF IInv, FreeHasNoSocket
<1> QED BY <1>0, <1>1, <1>2, <1>3, Registry

\* The event is handled: no socket of the user is left open.
LEMMA handleUserEvent_Inv ==
    ASSUME IInv, NEW u \in UserIds, handleUserEvent(u)
    PROVE  IInv'
<1>0. /\ closing' = closing \ {u}
      /\ UNCHANGED <<sessionsVars, plan, changes, tickets, published, missed, server>>
      /\ sockets' = [i \in SocketIds |-> IF sockets[i].user = u /\ sockets[i].st = "open"
                                         THEN [sockets[i] EXCEPT !.st = "closing"] ELSE sockets[i]]
    BY DEF handleUserEvent, closeSocketsOf
<1>1. \A i \in SocketIds : /\ sockets'[i].user = sockets[i].user
                           /\ sockets'[i].user = u => sockets'[i].st # "open"
                           /\ sockets[i].user # u => sockets'[i] = sockets[i]
    BY <1>0, SocketFacts
<1>2. SocketTypes'  BY <1>0, SocketFacts DEF SocketTypes
<1>3. SocketShape'  BY <1>0, <1>1 DEF IInv, SocketShape, sessionsVars, dbVars
<1>4. PlanTypes'  BY <1>0, SocketFacts DEF PlanTypes
<1>5. FreeHasNoSocket'
    <2> SUFFICES ASSUME NEW v \in UserIds, NEW j \in SocketIds, users[v] # NoUser,
                        plan[v] = "free", published[v] = "no", v \notin closing' \cup missed,
                        sockets'[j].user = v, sockets'[j].st = "open"
                 PROVE  sockets'[j].late
        BY <1>0 DEF FreeHasNoSocket, sessionsVars, dbVars
    <2>1. sockets'[j] = sockets[j] /\ v \notin closing \cup missed
        BY <1>0, <1>1
    <2> QED BY <2>1 DEF IInv, FreeHasNoSocket
<1> QED BY <1>0, <1>2, <1>3, <1>4, <1>5, Registry

\* The subscriber loses its connection, and the events on their way with it.
LEMMA SubscriberDrops_Inv ==
    ASSUME IInv, SubscriberDrops
    PROVE  IInv'
<1>0. UNCHANGED <<sessionsVars, plan, changes, tickets, sockets, closing>>
    BY DEF SubscriberDrops
<1>1. /\ server' \in {"off", "starting", "on", "deaf", "stopping"}
      /\ missed' \subseteq UserIds /\ published' \in [UserIds -> {"no", "due", "sent"}]
      /\ \A v \in UserIds : (published'[v] = "no" /\ v \notin missed')
                             => (published[v] = "no" /\ v \notin missed)
    BY SocketFacts DEF SubscriberDrops
<1>2. PlanTypes' /\ SocketTypes' /\ SocketShape'
    BY <1>0, <1>1 DEF IInv, Types, PlanTypes, SocketTypes, SocketShape, sessionsVars, dbVars
<1>3. FreeHasNoSocket'
    BY <1>0, <1>1 DEF IInv, FreeHasNoSocket, sessionsVars, dbVars
<1> QED BY <1>0, <1>2, <1>3, Registry

-----------------------------------------------------------------------------
(* The invariant *)

LEMMA Init_Inv == Init => IInv
<1> SUFFICES ASSUME Init PROVE IInv
    OBVIOUS
<1> USE DEF Init, SessionsInit
<1>1. req = [p \in Procs |-> Idle] /\ \A p \in Procs : req[p] = Idle
    OBVIOUS
<1>2. Types
    <2>1. UserTypes  BY DEF UserTypes, NoUser
    <2>2. SessionTypes  BY DEF SessionTypes, NoRow
    <2>3. TokenTypes /\ CounterTypes /\ TicketTypes /\ PlanTypes
        BY DEF TokenTypes, CounterTypes, TicketTypes, PlanTypes
    <2>4. KeyTypes  BY DEF KeyTypes
    <2>5. RequestTypes  BY <1>1, IdleFields DEF RequestTypes
    <2>6. SocketTypes  BY DEF SocketTypes, NoSocket
    <2> QED BY <2>1, <2>2, <2>3, <2>4, <2>5, <2>6 DEF Types
<1>3. UserShape /\ SessionShape
    BY DEF UserShape, SessionShape
<1>4. SocketShape
    BY DEF SocketShape, NoSocket
<1>5. RequestShape
    BY <1>1, IdleFields DEF RequestShape, HasRead
<1>6. SpentIsMarked /\ LockoutHasEnd
    BY DEF SpentIsMarked, LockoutHasEnd
<1>7. ResetEndsOldSessions
    BY DEF ResetEndsOldSessions, NoRow
<1>8. TryingIsCounted
    <2>1. Trying = {}  BY <1>1, IdleFields DEF Trying
    <2>2. Cardinality(Trying) = 0 /\ Cardinality(Procs) \in Nat
        BY <2>1, FS_EmptySet, FS_CardinalityType
    <2>3. fails["email"] = 0  BY DEF Subjects
    <2> QED BY <2>2, <2>3 DEF TryingIsCounted
<1>9. FreeHasNoSocket
    BY DEF FreeHasNoSocket, NoSocket
<1> QED BY <1>2, <1>3, <1>4, <1>5, <1>6, <1>7, <1>8, <1>9 DEF IInv

\* Nothing happens.
LEMMA Stutter_Inv ==
    ASSUME IInv, UNCHANGED vars
    PROVE  IInv'
<1>1. UNCHANGED <<sessionsVars, socketVars>>  BY DEF vars
<1>2. PlanTypes' /\ SocketTypes' /\ SocketShape' /\ FreeHasNoSocket'
    BY <1>1 DEF IInv, Types, PlanTypes, SocketTypes, SocketShape, FreeHasNoSocket, socketVars,
                sessionsVars, dbVars
<1> QED BY <1>1, <1>2, Registry DEF socketVars

LEMMA Next_Inv == IInv /\ [Next]_vars => IInv'
<1> SUFFICES ASSUME IInv, [Next]_vars PROVE IInv'
    OBVIOUS
<1>1. ASSUME NEW p \in Procs, Request(p), UNCHANGED socketVars PROVE IInv'
    <2>1. CASE \/ RegisterCheck(p) \/ MailToken(p) \/ resendVerification(p) \/ requestPasswordReset(p)
               \/ VerifyTake(p) \/ VerifyRead(p) \/ logout(p) \/ revokeSessionById(p)
               \/ ConfirmTake(p) \/ ConfirmRead(p) \/ GoogleTake(p) \/ DeleteStart(p)
        BY <1>1, <2>1, Reads_Inv
    <2>2. CASE RegisterCreate(p) \/ GoogleCreate(p)
        BY <1>1, <2>2, RegisterCreate_Inv, GoogleCreate_Inv
    <2>3. CASE VerifyWrite(p)  BY <1>1, <2>3, VerifyWrite_Inv
    <2>4. CASE LoginCheck(p) \/ LoginLookup(p) \/ LoginFailed(p) \/ LoginExpire(p) \/ clearLockout(p)
        BY <1>1, <2>4, LoginCheck_Inv, LoginLookup_Inv, LoginFailed_Inv, LoginExpire_Inv, clearLockout_Inv
    <2>5. CASE createSession(p) \/ revokeSession(p)
        BY <1>1, <2>5, createSession_Inv, revokeSession_Inv
    <2>6. CASE RefreshFind(p) \/ RefreshReused(p) \/ RefreshRotate(p) \/ RefreshMark(p)
        BY <1>1, <2>6, RefreshFind_Inv, RefreshReused_Inv, RefreshRotate_Inv, RefreshMark_Inv
    <2>7. CASE confirmPasswordReset(p)
        BY <1>1, <2>7, UpdatePassword_Inv, RevokeAll_Inv DEF confirmPasswordReset
    <2>8. CASE GoogleFind(p) \/ deleteUser(p) \/ Dies(p)
        BY <1>1, <2>8, GoogleFind_Inv, deleteUser_Inv, Dies_Inv
    <2> QED BY <1>1, <2>1, <2>2, <2>3, <2>4, <2>5, <2>6, <2>7, <2>8 DEF Request
<1>2. CASE SessionsNext /\ UNCHANGED socketVars
    <2>1. CASE transitionToCompleteOnboarding  BY <1>2, <2>1, Onboarding_Inv
    <2>2. CASE googleOAuthInit  BY <1>2, <2>2, GoogleInit_Inv
    <2>3. CASE Passing
        BY <1>2, <2>3, WindowEnds_Inv, LockoutEnds_Inv, SessionExpires_Inv, MarkerExpires_Inv DEF Passing
    <2> QED BY <1>1, <1>2, <2>1, <2>2, <2>3 DEF SessionsNext
<1>3. ASSUME NEW p \in Procs, Upgrade(p) PROVE IInv'
    BY <1>3, UpgradeReads_Inv, handleConnection_Inv DEF Upgrade
<1>4. ASSUME NEW u \in UserIds, Events(u) PROVE IInv'
    BY <1>4, PlanStarts_Inv, PlanEvents_Inv, handleUserEvent_Inv DEF Events
<1>5. CASE issueWsTicket \/ TicketExpires \/ startWsServer  BY <1>5, Tickets_Inv
<1>6. CASE unregisterSocket \/ stopWsServer  BY <1>6, Closing_Inv
<1>7. CASE SubscriberDrops  BY <1>7, SubscriberDrops_Inv
<1>8. CASE UNCHANGED vars  BY <1>8, Stutter_Inv
<1> QED BY <1>2, <1>3, <1>4, <1>5, <1>6, <1>7, <1>8 DEF Next

\* The inductive invariant holds in every reachable state.
THEOREM Invariance == Spec => []IInv
BY Init_Inv, Next_Inv, PTL DEF Spec

-----------------------------------------------------------------------------
(* Safety *)

\* Type correctness, and one account at a time: the unique e-mail column refuses a second row.
THEOREM TypeCorrect == Spec => []TypeOK
<1>1. IInv => TypeOK
    <2> SUFFICES ASSUME IInv PROVE TypeOK
        OBVIOUS
    <2>1. Cardinality(Accounts) <= 1
        <3>1. CASE Accounts = {}  BY <3>1, FS_EmptySet
        <3>2. CASE Accounts # {}
            <4>1. PICK u \in Accounts : TRUE  BY <3>2
            <4>2. Accounts = {u}  BY <4>1 DEF IInv, UserShape, Accounts
            <4>3. Cardinality({u}) = 1  BY FS_Singleton
            <4> QED BY <4>2, <4>3
        <3> QED BY <3>1, <3>2
    <2>2. SessionsTypeOK
        BY <2>1 DEF IInv, Types, UserTypes, SessionTypes, TokenTypes, KeyTypes, SessionsTypeOK
    <2> QED BY <2>2 DEF IInv, Types, PlanTypes, TicketTypes, SocketTypes, TypeOK
<1> QED BY <1>1, Invariance, PTL

\* A refresh token that was exchanged is known to reuse detection, whatever interleaves with the
\* rotation: it is marked, or was for as long as tokens live, or the marking is owed.
THEOREM Marked == Spec => []SpentIsMarked
<1>1. IInv => SpentIsMarked  BY DEF IInv
<1> QED BY <1>1, Invariance, PTL

\* No session opened with a replaced password outlives the reset, other than those of a login
\* that overlapped it or of a reset that died half-way.
THEOREM ResetEnds == Spec => []ResetEndsOldSessions
<1>1. IInv => ResetEndsOldSessions  BY DEF IInv
<1> QED BY <1>1, Invariance, PTL

\* Every lockout counter expires, or its expiry is owed by a request that is there or died.
THEOREM LockoutEnding == Spec => []LockoutHasEnd
<1>1. IInv => LockoutHasEnd  BY DEF IInv
<1> QED BY <1>1, Invariance, PTL

\* The attempts counted against an e-mail exceed the limit by at most the concurrent requests.
THEOREM AttemptsBound == Spec => []AttemptsAreBounded
<1>1. IInv => AttemptsAreBounded
    <2> SUFFICES ASSUME IInv PROVE AttemptsAreBounded
        OBVIOUS
    <2>1. IsFiniteSet(Trying)  BY FS_Subset, Trying \subseteq Procs DEF Trying
    <2>2. Cardinality(Trying) \in Nat /\ Cardinality(Procs) \in Nat  BY <2>1, FS_CardinalityType
    <2>3. fails["email"] \in Nat  BY DEF IInv, Types, CounterTypes, Subjects
    <2> QED BY <2>2, <2>3 DEF IInv, TryingIsCounted, AttemptsAreBounded
<1> QED BY <1>1, Invariance, PTL

\* No socket outlives its user's plan once the plan_changed event has been handled.
THEOREM FreeIsClosed == Spec => []FreeHasNoSocket
<1>1. IInv => FreeHasNoSocket  BY DEF IInv
<1> QED BY <1>1, Invariance, PTL

-----------------------------------------------------------------------------
(* Refinement: the rows, the rotations and the revocations implement TokenFamily. *)

\* The state of a family as the rows hold it.
Valid == [s \in Sids |-> IF sessions[s].revoked THEN 0 ELSE sessions[s].hash]
Ended == {s \in 1..opened : sessions[s] = NoRow \/ sessions[s].revoked}

\* A step that leaves rows and tokens alone does nothing to a family.
LEMMA FamilyStutters ==
    ASSUME UNCHANGED <<opened, minted, heir>>, Valid' = Valid, Ended' = Ended
    PROVE  UNCHANGED Family!familyVars
BY DEF Family!familyVars, Valid, Ended

\* Rows that are revoked or deleted end their families.
LEMMA FamilyEnds ==
    ASSUME SessionTypes, UNCHANGED <<opened, minted, heir>>, NEW F \in SUBSET (1..opened),
           \A s \in Sids : s \in F => sessions'[s] = NoRow \/ sessions'[s].revoked,
           \A s \in Sids : s \notin F => sessions'[s] = sessions[s]
    PROVE  Family!FamilyNext
<1>1. F \subseteq Sids /\ 1..opened \subseteq Sids  BY DEF SessionTypes, Sids
<1>2. Valid' = [f \in Sids |-> IF f \in F THEN 0 ELSE Valid[f]]
    BY <1>1 DEF Valid, NoRow
<1>3. Ended' = Ended \cup F
    BY <1>1 DEF Ended
<1>4. Family!End(F)
    BY <1>2, <1>3 DEF Family!End, Valid, Ended
<1> QED BY <1>1, <1>4 DEF Family!FamilyNext

LEMMA createSession_Family ==
    ASSUME IInv, NEW p \in Procs, createSession(p)
    PROVE  Family!FamilyNext \/ UNCHANGED Family!familyVars
<1> DEFINE u == req[p].id
           o == opened + 1
           t == minted + 1
<1>1. CASE UNCHANGED <<sessions, opened, minted>>
    BY <1>1, FamilyStutters DEF createSession, Valid, Ended, historyVars
<1>2. CASE /\ users[u] # NoUser /\ opened < MaxSessions /\ minted < MaxHashes
           /\ opened' = opened + 1 /\ minted' = minted + 1
           /\ sessions' = [sessions EXCEPT ![opened + 1] =
                  [user |-> u, hash |-> minted + 1, revoked |-> FALSE, expired |-> FALSE,
                   pw |-> req[p].pw, late |-> users[u].password # req[p].pw]]
    <2>1. /\ opened \in Nat /\ minted \in Nat /\ o \in Sids /\ t \in Hashes
          /\ sessions[o] = NoRow /\ DOMAIN sessions = Sids
        <3>1. opened \in Nat /\ minted \in Nat /\ DOMAIN sessions = Sids  BY SessionFacts
        <3>2. o \in Sids /\ t \in Hashes  BY <1>2, <3>1 DEF Sids, Hashes
        <3>3. sessions[o] = NoRow  BY <3>1, <3>2 DEF IInv, SessionShape
        <3> QED BY <3>1, <3>2, <3>3
    <2>2. /\ sessions'[o].hash = t /\ ~sessions'[o].revoked
          /\ \A s \in Sids : s # o => sessions'[s] = sessions[s]
        BY <1>2, <2>1
    <2>3. sessions'[o] # NoRow  BY <2>1, <2>2 DEF NoRow
    <2>4. Valid' = [Valid EXCEPT ![o] = t]  BY <2>1, <2>2 DEF Valid
    <2>5. Ended' = Ended
        <3>1. \A s \in 1..opened : s \in Sids /\ s # o  BY <2>1 DEF Sids
        <3>2. 1..opened' = 1..opened \cup {o}  BY <1>2, <2>1
        <3> QED BY <2>2, <2>3, <3>1, <3>2 DEF Ended
    <2>6. o \notin Ended /\ Valid[o] = 0  BY <2>1 DEF Ended, Valid, NoRow
    <2>7. t \in Hashes \ (1..minted) /\ 1..minted' = 1..minted \cup {t}  BY <1>2, <2>1
    <2>8. UNCHANGED heir  BY DEF createSession, historyVars
    <2>9. PICK f \in Sids : f = o  BY <2>1
    <2>10. Family!Open(f)
        BY <2>4, <2>5, <2>6, <2>7, <2>8, <2>9 DEF Family!Open, Valid, Ended
    <2> QED BY <2>10 DEF Family!FamilyNext
<1> QED BY <1>1, <1>2 DEF createSession

LEMMA RefreshRotate_Family ==
    ASSUME IInv, NEW p \in Procs, RefreshRotate(p)
    PROVE  Family!FamilyNext \/ UNCHANGED Family!familyVars
<1> DEFINE i == req[p].sid
           h == req[p].hash
           t == minted + 1
<1>1. CASE ~rotateSessionRefreshHash(p)
    BY <1>1, FamilyStutters DEF RefreshRotate, Valid, Ended
<1>2. CASE rotateSessionRefreshHash(p)
    <2>1. /\ minted < MaxHashes /\ minted' = minted + 1 /\ opened' = opened
          /\ sessions' = [sessions EXCEPT ![i].hash = minted + 1, ![i].expired = FALSE]
          /\ heir' = [heir EXCEPT ![h] = minted + 1]
          /\ sessions[i].hash = h /\ ~sessions[i].revoked /\ req[p].at = "rotate"
        BY <1>2 DEF RefreshRotate, rotateSessionRefreshHash, At
    <2>2. /\ i \in Sids /\ h \in 1..minted /\ opened \in Nat /\ minted \in Nat /\ t \in Hashes
          /\ opened <= MaxSessions
        <3>1. opened \in Nat /\ minted \in Nat /\ opened <= MaxSessions  BY SessionFacts
        <3>2. i \in Sids /\ h \in 1..minted  BY <2>1 DEF IInv, RequestShape, HasRead
        <3>3. t \in Hashes  BY <2>1, <3>1 DEF Hashes
        <3> QED BY <3>1, <3>2, <3>3
    <2>3. /\ sessions'[i].hash = t /\ ~sessions'[i].revoked
          /\ \A s \in Sids : s # i => sessions'[s] = sessions[s]
        BY <2>1, <2>2, SessionFacts
    <2>a. NoRow.hash = 0 /\ h # 0 /\ t # 0  BY <2>2 DEF NoRow
    <2>4. sessions[i] # NoRow /\ sessions'[i] # NoRow  BY <2>1, <2>3, <2>a
    <2>5. Valid' = [Valid EXCEPT ![i] = t] /\ Valid[i] = h
        <3> HIDE DEF i, h, t
        <3>1. Valid[i] = h  BY <2>1, <2>2 DEF Valid
        <3>2. \A s \in Sids : s # i => Valid'[s] = Valid[s]  BY <2>3 DEF Valid
        <3>3. Valid'[i] = t  BY <2>2, <2>3 DEF Valid
        <3> QED BY <2>2, <3>1, <3>2, <3>3 DEF Valid
    <2>6. Ended' = Ended
        <3>1. 1..opened \subseteq Sids  BY <2>2 DEF Sids
        <3> QED BY <2>1, <2>3, <2>4, <3>1 DEF Ended
    <2>7. t \in Hashes \ (1..minted) /\ 1..minted' = 1..minted \cup {t} /\ h # 0  BY <2>1, <2>2
    <2>8. PICK f \in Sids : f = i  BY <2>2
    <2>9. Family!Exchange(f)
        BY <2>1, <2>5, <2>6, <2>7, <2>8 DEF Family!Exchange, Valid, Ended
    <2> QED BY <2>9 DEF Family!FamilyNext
<1> QED BY <1>1, <1>2

LEMMA SessionExpires_Family ==
    ASSUME IInv, SessionExpires
    PROVE  UNCHANGED Family!familyVars
<1>1. PICK i \in Sids : sessions[i] # NoRow /\ sessions' = [sessions EXCEPT ![i].expired = TRUE]
    BY DEF SessionExpires
<1>2. UNCHANGED <<opened, minted, heir>>  BY DEF SessionExpires, historyVars
<1>3. /\ \A s \in Sids : sessions'[s].hash = sessions[s].hash /\ sessions'[s].revoked = sessions[s].revoked
      /\ \A s \in Sids : s # i => sessions'[s] = sessions[s]
      /\ sessions'[i].expired = TRUE
    BY <1>1, SessionFacts
<1>4. sessions'[i] # NoRow  BY <1>3 DEF NoRow
<1>5. Valid' = Valid  BY <1>3 DEF Valid
<1>6. Ended' = Ended
    <2>1. 1..opened \subseteq Sids  BY SessionFacts DEF Sids
    <2> QED BY <1>1, <1>2, <1>3, <1>4, <2>1 DEF Ended
<1> QED BY <1>2, <1>5, <1>6, FamilyStutters

\* logout, the revocation of one session and the reaction to a reused token; the revocation of
\* all sessions; and the deletion of the user.
LEMMA Revocations_Family ==
    ASSUME IInv, NEW p \in Procs,
           \/ revokeSession(p)
           \/ At(p, "confirm", "revokeAll") /\ revokeAllSessionsForUser(p) /\ UNCHANGED historyVars
           \/ deleteUser(p)
    PROVE  Family!FamilyNext \/ UNCHANGED Family!familyVars
<1> USE DEF historyVars
<1>0. SessionTypes /\ DOMAIN sessions = Sids /\ opened \in Nat  BY SessionFacts DEF IInv, Types
<1>a. \A s \in Sids : sessions[s] # NoRow => s \in 1..opened  BY SessionFacts DEF IInv, SessionShape, Sids
<1>1. CASE revokeSession(p)
    <2>1. CASE sessions[req[p].sid] = NoRow
        BY <1>1, <2>1, FamilyStutters DEF revokeSession, Valid, Ended
    <2>2. CASE sessions[req[p].sid] # NoRow
        <3>1. req[p].sid \in Sids  BY <1>1 DEF revokeSession, IInv, RequestShape, HasRead
        <3>2. sessions' = [sessions EXCEPT ![req[p].sid].revoked = TRUE]
            BY <1>1, <2>2 DEF revokeSession
        <3>3. /\ sessions'[req[p].sid].revoked
              /\ \A s \in Sids : s # req[p].sid => sessions'[s] = sessions[s]
            BY <3>1, <3>2, SessionFacts
        <3>4. {req[p].sid} \in SUBSET (1..opened)  BY <1>a, <2>2, <3>1
        <3>5. UNCHANGED <<opened, minted, heir>>  BY <1>1 DEF revokeSession
        <3> QED BY <1>0, <3>3, <3>4, <3>5, FamilyEnds
    <2> QED BY <2>1, <2>2
<1>2. CASE At(p, "confirm", "revokeAll") /\ revokeAllSessionsForUser(p) /\ UNCHANGED historyVars
    <2> DEFINE F == {s \in Sids : sessions[s].user = req[p].id}
    <2>1. req[p].id # 0  BY <1>2 DEF At, IInv, RequestShape, HasRead, UserIds
    <2>2. F \in SUBSET (1..opened)  BY <1>a, <2>1 DEF NoRow
    <2>3. /\ \A s \in Sids : s \in F => sessions'[s].revoked
          /\ \A s \in Sids : s \notin F => sessions'[s] = sessions[s]
        BY <1>2, SessionFacts DEF revokeAllSessionsForUser
    <2> HIDE DEF F
    <2> QED BY <1>0, <1>2, <2>2, <2>3, FamilyEnds DEF revokeAllSessionsForUser
<1>3. CASE deleteUser(p)
    <2> DEFINE F == {s \in Sids : sessions[s] # NoRow /\ sessions[s].user = req[p].id}
    <2>1. F \in SUBSET (1..opened)  BY <1>a
    <2>2. /\ \A s \in Sids : s \in F => sessions'[s] = NoRow
          /\ \A s \in Sids : s \notin F => sessions'[s] = sessions[s]
        BY <1>3 DEF deleteUser
    <2> HIDE DEF F
    <2> QED BY <1>0, <1>3, <2>1, <2>2, FamilyEnds DEF deleteUser
<1> QED BY <1>1, <1>2, <1>3

\* Every other step leaves the rows, the ids and the tokens alone.
LEMMA Others_Family ==
    ASSUME UNCHANGED <<sessions, opened, minted, heir>>
    PROVE  UNCHANGED Family!familyVars
BY FamilyStutters DEF Valid, Ended

LEMMA Step_Family == IInv /\ [Next]_vars => Family!FamilyNext \/ UNCHANGED Family!familyVars
<1> SUFFICES ASSUME IInv, [Next]_vars PROVE Family!FamilyNext \/ UNCHANGED Family!familyVars
    OBVIOUS
<1> USE DEF dbVars, historyVars, sessionsVars
<1>1. ASSUME NEW p \in Procs, Request(p)
      PROVE  Family!FamilyNext \/ UNCHANGED Family!familyVars
    <2>1. CASE createSession(p)  BY <2>1, createSession_Family
    <2>2. CASE RefreshRotate(p)  BY <2>2, RefreshRotate_Family
    <2>3. CASE revokeSession(p) \/ deleteUser(p)  BY <2>3, Revocations_Family
    <2>4. CASE confirmPasswordReset(p)
        <3>1. CASE At(p, "confirm", "write") /\ updatePassword(p, To(p, "revokeAll"))
            BY <2>4, <3>1, Others_Family DEF confirmPasswordReset, updatePassword
        <3>2. CASE At(p, "confirm", "revokeAll") /\ revokeAllSessionsForUser(p)
            BY <2>4, <3>2, Revocations_Family DEF confirmPasswordReset
        <3> QED BY <2>4, <3>1, <3>2 DEF confirmPasswordReset
    <2>5. CASE \/ RegisterCheck(p) \/ RegisterCreate(p) \/ MailToken(p) \/ resendVerification(p)
               \/ requestPasswordReset(p) \/ VerifyTake(p) \/ VerifyRead(p) \/ VerifyWrite(p)
        BY <2>5, Others_Family DEF RegisterCheck, RegisterCreate, createUser, MailToken,
            resendVerification, requestPasswordReset, VerifyTake, VerifyRead, VerifyWrite
    <2>6. CASE \/ LoginCheck(p) \/ LoginLookup(p) \/ LoginFailed(p) \/ LoginExpire(p) \/ clearLockout(p)
               \/ logout(p) \/ revokeSessionById(p) \/ RefreshFind(p) \/ RefreshReused(p) \/ RefreshMark(p)
        BY <2>6, Others_Family DEF LoginCheck, LoginLookup, LoginFailed, LoginExpire, clearLockout,
            logout, revokeSessionById, RefreshFind, RefreshReused, RefreshMark
    <2>7. CASE \/ ConfirmTake(p) \/ ConfirmRead(p) \/ GoogleTake(p) \/ GoogleFind(p) \/ GoogleCreate(p)
               \/ DeleteStart(p) \/ Dies(p)
        BY <2>7, Others_Family DEF ConfirmTake, ConfirmRead, GoogleTake, GoogleFind, GoogleCreate,
            createUser, DeleteStart, Dies
    <2> QED BY <1>1, <2>1, <2>2, <2>3, <2>4, <2>5, <2>6, <2>7 DEF Request
<1>2. CASE SessionsNext
    <2>1. CASE SessionExpires  BY <2>1, SessionExpires_Family
    <2>2. CASE \/ transitionToCompleteOnboarding \/ googleOAuthInit
               \/ WindowEnds \/ LockoutEnds \/ MarkerExpires
        BY <2>2, Others_Family DEF transitionToCompleteOnboarding, googleOAuthInit, WindowEnds,
            LockoutEnds, MarkerExpires
    <2> QED BY <1>1, <1>2, <2>1, <2>2 DEF SessionsNext, Passing
<1>3. ASSUME NEW p \in Procs, Upgrade(p) PROVE UNCHANGED Family!familyVars
    BY <1>3, Others_Family DEF Upgrade, UpgradeTake, UpgradeSession, UpgradePlan, handleConnection
<1>4. ASSUME NEW u \in UserIds, Events(u) PROVE UNCHANGED Family!familyVars
    BY <1>4, Others_Family DEF Events, PlanStarts, PlanEnds, PlanLapses, Publish, UserEvent, handleUserEvent
<1>5. CASE \/ issueWsTicket \/ TicketExpires \/ startWsServer \/ unregisterSocket \/ stopWsServer
           \/ SubscriberDrops
    BY <1>5, Others_Family DEF issueWsTicket, TicketExpires, startWsServer, unregisterSocket,
        stopWsServer, SubscriberDrops
<1>6. CASE UNCHANGED vars
    BY <1>6, Others_Family DEF vars
<1> QED BY <1>2, <1>3, <1>4, <1>5, <1>6 DEF Next

LEMMA Init_Family == Init => Family!FamilyInit
<1> SUFFICES ASSUME Init PROVE Family!FamilyInit
    OBVIOUS
<1>1. Valid = [s \in Sids |-> 0]  BY DEF Init, SessionsInit, Valid, NoRow
<1>2. Ended = {} /\ 1..minted = {}  BY DEF Init, SessionsInit, Ended
<1> QED BY <1>1, <1>2 DEF Init, SessionsInit, Family!FamilyInit, Valid, Ended

\* Sessions and their refresh tokens implement TokenFamily: one exchangeable token per session, one
\* heir per token, and no token for a session that has ended, whatever interleaves or dies.
THEOREM RefreshRefines == Spec => RefreshIsAFamily
BY Init_Family, Step_Family, Invariance, PTL DEF Spec, RefreshIsAFamily, Family!FamilySpec
=============================================================================
