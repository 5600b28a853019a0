----------------------------- MODULE Portfolios -----------------------------
(* Portfolios (src/modules/portfolios): creating, renaming, resyncing and deleting them, with
   the plan's cap, the names, the wallets and the Moralis streams that go with a portfolio.
   A request checks what it found in one statement and writes in a later one; nothing locks the
   user in between, and the table has no unique index on names or wallets. The first sync and
   the resync go on in Snapshots. *)
EXTENDS Integers, FiniteSets

CONSTANTS
    Procs,          \* requests (and operator scripts) under way at a time
    Users, Names, Slug,     \* Slug[n] is slugify(n), "" when nothing of the name is left
    Wallets,        \* wallet and chain; FreeWallets are those on a free tier chain
    FreeWallets, Manual,    \* Manual: no wallet at all
    PLAN_CAPS,      \* by plan
    MaxPortfolios,  \* ids ever given out
    Mixes,          \* which operations an instance mixes
    Asked           \* by mix, the names and wallets users ask for

Plans == {"free", "pro"}
Pids == 1..MaxPortfolios

ASSUME PortfoliosAssumption ==
    /\ MaxPortfolios \in Nat /\ FreeWallets \subseteq Wallets /\ Manual \notin Wallets
    /\ PLAN_CAPS \in [Plans -> Nat] /\ PLAN_CAPS["free"] <= PLAN_CAPS["pro"]
    /\ DOMAIN Slug = Names
    /\ Asked \in [Mixes -> SUBSET (Names \X (Wallets \cup {Manual}))]

VARIABLES
    ops,        \* the operations of this behaviour
    accounts,   \* users with a row
    plan,       \* getEffectivePlan, by user
    port,       \* the portfolio table, by id
    nextId,     \* the id sequence
    streams,    \* streams that exist at Moralis, by the portfolio they were created for
    cooldown,   \* resync_cooldown keys
    req,        \* what each request has read and where it stands
    raced,      \* (history) users who had a write slip in between another request's check and write
    wasPro,     \* (history) users who have been Pro
    stray       \* (history) streams lost track of by a fault, a crash or a deletion in between

portVars == <<accounts, plan, port, nextId, streams, cooldown, raced, wasPro, stray>>
portfolioVars == <<ops, req, portVars>>

NoPortfolio == [user |-> "none"]
NoPlan == "unread"
Idle == [op |-> "idle"]

Rows == [user : Users, name : Names, wallet : Wallets \cup {Manual}, stream : BOOLEAN]
Of(u) == {p \in Pids : port[p] # NoPortfolio /\ port[p].user = u}

At(r, op, at) == req[r].op = op /\ req[r].at = at
Goto(r, rec) == req' = [req EXCEPT ![r] = rec]
To(r, at) == Goto(r, [req[r] EXCEPT !.at = at])
Done(r) == Goto(r, Idle)

\* A row of u is written by r: what the user's other requests have checked is out of date.
Wrote(r, next) ==
    /\ req' = [q \in Procs |->
         IF q = r THEN next
         ELSE IF req[q].op \in {"create", "rename"} /\ req[q].user = req[r].user
              THEN [req[q] EXCEPT !.stale = TRUE] ELSE req[q]]
    /\ raced' = IF req[r].stale THEN raced \cup {req[r].user} ELSE raced

-----------------------------------------------------------------------------
(* createPortfolio *)

\* The cap of the plan; a request that is refused leaves nothing behind.
CreateCount(r) ==
    /\ req[r] = Idle /\ "create" \in ops /\ nextId <= MaxPortfolios
    /\ "one" \in ops => nextId = 1 /\ \A q \in Procs : req[q] = Idle   \* a bound on instances
    /\ \E u \in accounts, asked \in Asked[ops] :
         /\ Cardinality(Of(u)) < PLAN_CAPS[plan[u]]
         /\ Goto(r, [op |-> "create", at |-> "slug", user |-> u, name |-> asked[1],
                     wallet |-> asked[2], plan |-> plan[u], pid |-> 0, stale |-> FALSE])
    /\ UNCHANGED <<ops, portVars>>

namesByText(u, n, exclude) ==   \* a slip: names compared, not what slugify makes of them
    Slug[n] # "" /\ \A p \in Of(u) \ {exclude} : port[p].name # n

assertSlugAvailable(u, n, exclude) ==
    Slug[n] # "" /\ \A p \in Of(u) \ {exclude} : Slug[port[p].name] # Slug[n]

CreateSlug(r) ==
    /\ At(r, "create", "slug")
    /\ IF assertSlugAvailable(req[r].user, req[r].name, 0)
       THEN To(r, IF req[r].wallet = Manual THEN "row" ELSE "wallet") ELSE Done(r)
    /\ UNCHANGED <<ops, portVars>>

findConnectedPortfolioByWallet(u, w) == {p \in Of(u) : port[p].wallet = w}

\* The chain against the plan read at the start, and the wallet against the user's others.
CreateWallet(r) ==
    /\ At(r, "create", "wallet")
    /\ IF /\ req[r].plan = "free" => req[r].wallet \in FreeWallets
          /\ findConnectedPortfolioByWallet(req[r].user, req[r].wallet) = {}
       THEN To(r, "row") ELSE Done(r)
    /\ UNCHANGED <<ops, portVars>>

\* createPortfolioRow; a manual portfolio with assets is one transaction that may roll back.
createPortfolioRow(r) ==
    /\ At(r, "create", "row")
    /\ \/ /\ req[r].user \in accounts /\ nextId <= MaxPortfolios
          /\ port' = [port EXCEPT ![nextId] = [user |-> req[r].user, name |-> req[r].name,
                                               wallet |-> req[r].wallet, stream |-> FALSE]]
          /\ nextId' = nextId + 1
          /\ Wrote(r, IF req[r].wallet = Manual THEN Idle
                      ELSE [req[r] EXCEPT !.at = "stream", !.pid = nextId])
       \/ /\ req[r].wallet = Manual \/ req[r].user \notin accounts \/ nextId > MaxPortfolios \/ "fault" \in ops
          /\ Done(r) /\ UNCHANGED <<port, nextId, raced>>
    /\ UNCHANGED <<ops, accounts, plan, streams, cooldown, wasPro, stray>>

\* createStream: the stream, then its address; a failure of the second leaves the first behind.
createStream(r) ==
    /\ At(r, "create", "stream")
    /\ \/ streams' = streams \cup {req[r].pid} /\ To(r, "streamId") /\ UNCHANGED stray
       \/ "fault" \in ops /\ To(r, "sync") /\ UNCHANGED <<streams, stray>>
       \/ /\ "fault" \in ops /\ To(r, "sync")
          /\ streams' = streams \cup {req[r].pid} /\ stray' = stray \cup {req[r].pid}
    /\ UNCHANGED <<ops, accounts, plan, port, nextId, cooldown, raced, wasPro>>

\* The update of moralisStreamId throws when the row is gone.
CreateStreamId(r) ==
    /\ At(r, "create", "streamId") /\ To(r, "sync")
    /\ \/ /\ port[req[r].pid] # NoPortfolio
          /\ port' = [port EXCEPT ![req[r].pid].stream = TRUE] /\ UNCHANGED stray
       \/ /\ port[req[r].pid] = NoPortfolio \/ "fault" \in ops
          /\ stray' = stray \cup {req[r].pid} /\ UNCHANGED port
    /\ UNCHANGED <<ops, accounts, plan, nextId, streams, cooldown, raced, wasPro>>

-----------------------------------------------------------------------------
(* updatePortfolio, deletePortfolioById, deleteMe *)

RenameRead(r) ==
    /\ req[r] = Idle /\ "rename" \in ops
    /\ \E p \in Pids, n \in Names :
         /\ port[p] # NoPortfolio /\ n # port[p].name
         /\ Goto(r, [op |-> "rename", at |-> "slug", user |-> port[p].user, name |-> n, pid |-> p,
                     stale |-> FALSE])
    /\ UNCHANGED <<ops, portVars>>

RenameSlug(r) ==
    /\ At(r, "rename", "slug")
    /\ IF assertSlugAvailable(req[r].user, req[r].name, req[r].pid) THEN To(r, "row") ELSE Done(r)
    /\ UNCHANGED <<ops, portVars>>

updatePortfolioName(r) ==
    /\ At(r, "rename", "row")
    /\ \/ /\ port[req[r].pid] # NoPortfolio
          /\ port' = [port EXCEPT ![req[r].pid].name = req[r].name] /\ Wrote(r, Idle)
       \/ port[req[r].pid] = NoPortfolio /\ Done(r) /\ UNCHANGED <<port, raced>>
    /\ UNCHANGED <<ops, accounts, plan, nextId, streams, cooldown, wasPro, stray>>

\* The row is read once; whether it names a stream is decided here.
DeleteRead(r) ==
    /\ req[r] = Idle /\ "delete" \in ops
    /\ \E p \in Pids :
         /\ port[p] # NoPortfolio
         /\ Goto(r, [op |-> "delete", at |-> IF port[p].stream THEN "stream" ELSE "row",
                     pid |-> p, stream |-> port[p].stream])
    /\ UNCHANGED <<ops, portVars>>

deleteNoStream(r) ==   \* a slip: the row goes, the stream stays
    /\ At(r, "delete", "stream") /\ To(r, "row")
    /\ UNCHANGED <<ops, portVars>>

deleteStream(r) ==
    /\ At(r, "delete", "stream") /\ To(r, "row")
    /\ \/ streams' = streams \ {req[r].pid} /\ UNCHANGED stray
       \/ "fault" \in ops /\ stray' = stray \cup {req[r].pid} /\ UNCHANGED streams
    /\ UNCHANGED <<ops, accounts, plan, port, nextId, cooldown, raced, wasPro>>

\* The delete of the row throws when it is gone, or when the database does.
deletePortfolio(r) ==
    /\ At(r, "delete", "row") /\ Done(r)
    /\ \/ /\ port' = [port EXCEPT ![req[r].pid] = NoPortfolio]
          /\ stray' = IF port[req[r].pid] # NoPortfolio /\ port[req[r].pid].stream /\ ~req[r].stream
                      THEN stray \cup {req[r].pid} ELSE stray
       \/ /\ "fault" \in ops /\ UNCHANGED port
          /\ stray' = IF req[r].stream THEN stray \cup {req[r].pid} ELSE stray
    /\ UNCHANGED <<ops, accounts, plan, nextId, streams, cooldown, raced, wasPro>>

\* Deleting the account cascades to the portfolios; nobody deletes their streams.
deleteMe(u) ==
    /\ "account" \in ops /\ u \in accounts
    /\ accounts' = accounts \ {u} /\ plan' = [plan EXCEPT ![u] = "free"]
    /\ port' = [p \in Pids |-> IF p \in Of(u) THEN NoPortfolio ELSE port[p]]
    /\ stray' = stray \cup {p \in Of(u) : port[p].stream}
    /\ UNCHANGED <<ops, req, nextId, streams, cooldown, raced, wasPro>>

-----------------------------------------------------------------------------
(* resyncPortfolio: the cooldown is looked at before and armed after the resync *)

ResyncGate(r) ==
    /\ req[r] = Idle /\ "resync" \in ops
    /\ \E p \in Pids :
         /\ port[p] # NoPortfolio /\ port[p].wallet # Manual
         /\ p \notin cooldown \/ "fault" \in ops
         /\ Goto(r, [op |-> "resync", at |-> "sync", pid |-> p])
    /\ UNCHANGED <<ops, portVars>>

ResyncArm(r) ==
    /\ At(r, "resync", "arm") /\ Done(r)
    /\ \/ cooldown' = cooldown \cup {req[r].pid}
       \/ "fault" \in ops /\ UNCHANGED cooldown
    /\ UNCHANGED <<ops, accounts, plan, port, nextId, streams, raced, wasPro, stray>>

CooldownEnds(p) ==
    /\ p \in cooldown /\ cooldown' = cooldown \ {p}
    /\ UNCHANGED <<ops, req, accounts, plan, port, nextId, streams, raced, wasPro, stray>>

\* The subscription row changes (Billing).
PlanChanges(u) ==
    /\ "plan" \in ops /\ u \in accounts
    /\ plan' = [plan EXCEPT ![u] = IF @ = "free" THEN "pro" ELSE "free"]
    /\ wasPro' = wasPro \cup {u}
    /\ UNCHANGED <<ops, req, accounts, port, nextId, streams, cooldown, raced, stray>>

-----------------------------------------------------------------------------

\* Requests die with the process; the streams two of them had half done are nobody's.
Scripts == {"rebuild", "reclassify", "backfill"}
RequestsDie ==
    /\ req' = [r \in Procs |-> IF req[r].op \in Scripts THEN req[r] ELSE Idle]
    /\ stray' = stray \cup {p \in Pids : \E r \in Procs :
         \/ At(r, "create", "streamId") /\ req[r].pid = p
         \/ At(r, "delete", "row") /\ req[r].pid = p /\ req[r].stream}
    /\ UNCHANGED <<ops, accounts, plan, port, nextId, streams, cooldown, raced, wasPro>>

PortfoliosInit ==
    /\ ops \in Mixes /\ accounts = Users
    /\ plan \in [Users -> Plans] /\ wasPro = {u \in Users : plan[u] = "pro"}
    /\ port = [p \in Pids |-> NoPortfolio] /\ nextId = 1
    /\ streams = {} /\ cooldown = {} /\ raced = {} /\ stray = {}
    /\ req = [r \in Procs |-> Idle]

PortfolioStep ==
    \/ \E r \in Procs : \/ CreateCount(r) \/ CreateSlug(r) \/ CreateWallet(r) \/ createPortfolioRow(r)
                        \/ createStream(r) \/ CreateStreamId(r)
                        \/ RenameRead(r) \/ RenameSlug(r) \/ updatePortfolioName(r)
                        \/ DeleteRead(r) \/ deleteStream(r) \/ deletePortfolio(r)
                        \/ ResyncGate(r) \/ ResyncArm(r)
    \/ \E u \in Users : deleteMe(u) \/ PlanChanges(u)
    \/ \E p \in Pids : CooldownEnds(p)

-----------------------------------------------------------------------------
(* Properties *)

\* What createPortfolio and updatePortfolio check one after the other adds up: a user's
\* portfolios have distinct slugs and distinct wallets and are no more than the plan allows
\* (the highest plan the user has had: nothing is taken away on a downgrade), unless another
\* write of the same user came between a request's checks and its write.
PortfoliosAreDistinct ==
    \A u \in Users \ raced :
      /\ \A p, q \in Of(u) : p # q =>
           /\ Slug[port[p].name] # Slug[port[q].name]
           /\ port[p].wallet # port[q].wallet \/ port[p].wallet = Manual
      /\ Cardinality(Of(u)) <= PLAN_CAPS[IF u \in wasPro THEN "pro" ELSE "free"]

\* Moralis streams and portfolios go together ("prevents quota leaks"): a stream that exists is
\* named by its portfolio and a stream that is named exists, but for the requests under way and
\* for what a failed call, a crash, a deletion that had read the row before the stream was
\* saved, or the deletion of the account has left behind.
StreamsAreOwned ==
    LET named == {p \in Pids : port[p] # NoPortfolio /\ port[p].stream}
        underWay == {p \in Pids : \E r \in Procs :
                       \/ At(r, "create", "streamId") /\ req[r].pid = p
                       \/ At(r, "delete", "row") /\ req[r].pid = p}
    IN (streams \ named) \cup (named \ streams) \subseteq stray \cup underWay

=============================================================================
