-------------------------- MODULE SnapshotsProofs --------------------------
(***************************************************************************)
(* Proofs about Snapshots and the Portfolios it is built on, for any       *)
(* number of users, requests, job runs, portfolios and days. Types holds   *)
(* of every state; on top of it each property has an inductive invariant   *)
(* of its own.                                                             *)
(***************************************************************************)
EXTENDS Snapshots, FiniteSetTheorems, WellFoundedInduction, TLAPS

-----------------------------------------------------------------------------
(* The types *)

Values == [approx : BOOLEAN, by : Sources \cup {"none"}]
Curves == [Days -> Values]

Creates == [op : {"create"}, at : {"slug", "wallet", "row", "stream", "streamId", "sync"},
            user : Users, name : Names, wallet : Wallets \cup {Manual}, plan : Plans,
            pid : 0..MaxPortfolios, stale : BOOLEAN]
Renames == [op : {"rename"}, at : {"slug", "row"}, user : Users, name : Names, pid : Pids,
            stale : BOOLEAN]
Deletes == [op : {"delete"}, at : {"stream", "row"}, pid : Pids, stream : BOOLEAN]
Resyncs == [op : {"resync"}, at : {"sync", "arm"}, pid : Pids]
Reads == [op : {"history", "rebuild"}, at : {"read"}, pid : Pids, today : Days]
Writes == [op : {"history", "rebuild"}, at : {"write", "today"}, pid : Pids, today : Days,
           past : Curves, point : Values]
Backfills == [op : {"backfill"}, at : {"rows"}, today : Days, todo : SUBSET Pids]
Marks == [op : {"reclassify"}, at : {"mark"}, pid : Pids, oldest : Days]
Requests == {Idle} \cup Creates \cup Renames \cup Deletes \cup Resyncs \cup Reads \cup Writes
            \cup Backfills \cup Marks

Owners == {<<>>} \cup UNION {[S -> Users] : S \in SUBSET Pids}
Runs == [at : {"list", "loop", "write", "prune", "tokens"}, date : Days, owner : Owners,
         left : SUBSET Pids, failed : SUBSET Pids, cur : 0..MaxPortfolios,
         memo : [Users -> Plans \cup {NoPlan}]]

PortTypes ==
    /\ ops \in Mixes /\ accounts \subseteq Users /\ plan \in [Users -> Plans]
    /\ port \in [Pids -> Rows \cup {NoPortfolio}] /\ nextId \in 1..(MaxPortfolios + 1)
    /\ streams \subseteq Pids /\ cooldown \subseteq Pids /\ stray \subseteq Pids
    /\ raced \subseteq Users /\ wasPro \subseteq Users

SnapTypes ==
    /\ today \in Days /\ up \in BOOLEAN /\ tokenDays \subseteq Days
    /\ rows \in [Pids -> Curves]

\* A request that has created its row knows its id.
Placed(c) == c.op = "create" /\ c.at \in {"stream", "streamId", "sync"} => c.pid \in Pids

\* A run works on what it has listed.
Shaped(k) == k.at # "idle" => /\ k.left \subseteq DOMAIN k.owner
                              /\ k.at = "write" => k.cur \in DOMAIN k.owner
                              /\ k.at \in {"prune", "tokens"} => k.left = {}

Types == /\ PortTypes /\ SnapTypes
         /\ req \in [Procs -> Requests] /\ \A r \in Procs : Placed(req[r])
         /\ job \in [JobSlots -> {NoJob} \cup Runs] /\ \A j \in JobSlots : Shaped(job[j])

-----------------------------------------------------------------------------
(* The invariants *)

\* Ids are given out once.
FreshIds ==
    /\ \A p \in Pids : p >= nextId => port[p] = NoPortfolio
    /\ \A r \in Procs : req[r].op \in {"create", "rename", "delete"} => req[r].pid < nextId

Making(r) == req[r].op = "create" /\ req[r].at \in {"stream", "streamId"}
Unmaking(r) == req[r].op = "delete" /\ req[r].stream
Named(p) == port[p] # NoPortfolio /\ port[p].stream

\* A request that is about to make a stream is alone with its portfolio's.
Alone(r) ==
    /\ req[r].pid \in Pids /\ ~Named(req[r].pid)
    /\ req[r].at = "streamId" => req[r].pid \in streams
    /\ \A q \in Procs : /\ Unmaking(q) => req[q].pid # req[r].pid
                        /\ Making(q) /\ q # r => req[q].pid # req[r].pid

\* Who answers for a stream that no row names, and for a row that names none.
Streams ==
    /\ \A p \in streams : Named(p) \/ p \in stray \/ \E r \in Procs : At(r, "create", "streamId") /\ req[r].pid = p
    /\ \A p \in Pids : Named(p) =>
         p \in streams \/ p \in stray \/ \E r \in Procs : At(r, "delete", "row") /\ req[r].stream /\ req[r].pid = p
    /\ \A r \in Procs : Making(r) => Alone(r)
    /\ \A r \in Procs : At(r, "delete", "stream") => req[r].stream
    /\ \A r \in Procs : At(r, "delete", "row") /\ req[r].stream => req[r].pid \notin streams \/ req[r].pid \in stray

\* What a request has checked still holds while it is not stale.
Cap(u) == PLAN_CAPS[IF u \in wasPro THEN "pro" ELSE "free"]
Apart(u) ==
    /\ \A p, q \in Of(u) : p # q =>
         /\ Slug[port[p].name] # Slug[port[q].name]
         /\ port[p].wallet # port[q].wallet \/ port[p].wallet = Manual
    /\ Cardinality(Of(u)) <= Cap(u)
CheckedCreate(c) ==
    /\ c.at \in {"slug", "wallet", "row"} => Cardinality(Of(c.user)) < Cap(c.user)
    /\ c.at \in {"wallet", "row"} => \A p \in Of(c.user) : Slug[port[p].name] # Slug[c.name]
    /\ c.at = "row" /\ c.wallet # Manual => \A p \in Of(c.user) : port[p].wallet # c.wallet
CheckedRename(c) ==
    c.at = "row" => \A p \in Of(c.user) \ {c.pid} : Slug[port[p].name] # Slug[c.name]
Checked ==
    /\ \A u \in Users \ raced : Apart(u)
    /\ \A u \in Users : plan[u] = "pro" => u \in wasPro
    /\ \A r \in Procs : req[r].op = "create" /\ ~req[r].stale => CheckedCreate(req[r])
    /\ \A r \in Procs : req[r].op = "rename" =>
         /\ port[req[r].pid] # NoPortfolio => port[req[r].pid].user = req[r].user
         /\ ~req[r].stale => CheckedRename(req[r])

\* Nothing that passes for real is an estimate, in the table or on its way there.
Flagged(v) == v # NoRow /\ ~v.approx => v.by \in {"job", "observed", "priced"}
HonestRequest(c) ==
    /\ c.op \in {"history", "rebuild"} /\ c.at \in {"write", "today"} =>
         /\ \A d \in Days : Flagged(c.past[d])
         /\ c.point # NoRow => c.point.by \in {"job", "observed", "priced"}
    /\ c.op = "reclassify" => "reclassify" \in ops
Honest ==
    /\ \A p \in Pids, d \in Days : Flagged(rows[p][d])
    /\ \A r \in Procs : HonestRequest(req[r])

\* What a run of the job has been through has a row, or an excuse.
Has(p, d) == IF "reclassify" \in ops THEN rows[p][d] # NoRow ELSE Real(p, d)
Through(k) == ((DOMAIN k.owner \ k.failed) \ k.left) \ (IF k.at = "write" THEN {k.cur} ELSE {})
Covered(k) ==
    /\ k.at \in {"loop", "write", "prune", "tokens"} =>
         /\ \A p \in DOMAIN k.owner : p < nextId
         /\ \A p \in Through(k) : /\ k.memo[k.owner[p]] # NoPlan
                                  /\ k.memo[k.owner[p]] = "pro" /\ port[p] # NoPortfolio
                                     /\ k.date >= today - Retention => Has(p, k.date)
    /\ k.at = "write" => k.memo[k.owner[k.cur]] = "pro"
Covering == \A j \in JobSlots : Covered(job[j])

-----------------------------------------------------------------------------
(* Facts about the records *)

LEMMA NoRowFacts ==
    /\ NoRow \in Values /\ NoRow.by = "none" /\ ~NoRow.approx
    /\ NoRows \in Curves /\ \A d \in Days : NoRows[d] = NoRow
BY DEF NoRow, NoRows, Values, Curves, Sources

LEMMA RequestKinds ==
    ASSUME NEW c \in Requests
    PROVE  /\ c.op \in {"idle", "create", "rename", "delete", "resync", "history", "rebuild",
                        "backfill", "reclassify"}
           /\ c.op = "create" => c \in Creates
           /\ c.op = "rename" => c \in Renames
           /\ c.op = "delete" => c \in Deletes
           /\ c.op = "resync" => c \in Resyncs
           /\ c.op \in {"history", "rebuild"} /\ c.at = "read" => c \in Reads
           /\ c.op \in {"history", "rebuild"} /\ c.at \in {"write", "today"} => c \in Writes
           /\ c.op = "backfill" => c \in Backfills
           /\ c.op = "reclassify" => c \in Marks
           /\ c.op = "idle" => c = Idle
BY DEF Requests, Idle, Creates, Renames, Deletes, Resyncs, Reads, Writes, Backfills, Marks

LEMMA NoPortfolioIsNoRow ==
    ASSUME NEW c \in Rows
    PROVE  c # NoPortfolio
BY DEF Rows, NoPortfolio

LEMMA Fields ==
    ASSUME NEW c
    PROVE  /\ c \in Creates => /\ c.op = "create" /\ c.user \in Users /\ c.name \in Names
                               /\ c.at \in {"slug", "wallet", "row", "stream", "streamId", "sync"}
                               /\ c.wallet \in Wallets \cup {Manual} /\ c.plan \in Plans
                               /\ c.pid \in 0..MaxPortfolios /\ c.stale \in BOOLEAN
           /\ c \in Renames => /\ c.op = "rename" /\ c.at \in {"slug", "row"} /\ c.user \in Users
                               /\ c.name \in Names /\ c.pid \in Pids /\ c.stale \in BOOLEAN
           /\ c \in Deletes => /\ c.op = "delete" /\ c.at \in {"stream", "row"} /\ c.pid \in Pids
                               /\ c.stream \in BOOLEAN
           /\ c \in Resyncs => c.op = "resync" /\ c.at \in {"sync", "arm"} /\ c.pid \in Pids
           /\ c \in Reads => /\ c.op \in {"history", "rebuild"} /\ c.at = "read" /\ c.pid \in Pids
                             /\ c.today \in Days
           /\ c \in Writes => /\ c.op \in {"history", "rebuild"} /\ c.at \in {"write", "today"}
                              /\ c.pid \in Pids /\ c.today \in Days /\ c.past \in Curves
                              /\ c.point \in Values
           /\ c \in Backfills => /\ c.op = "backfill" /\ c.at = "rows" /\ c.today \in Days
                                 /\ c.todo \in SUBSET Pids
           /\ c \in Marks => c.op = "reclassify" /\ c.at = "mark" /\ c.pid \in Pids /\ c.oldest \in Days
BY DEF Creates, Renames, Deletes, Resyncs, Reads, Writes, Backfills, Marks

LEMMA KindsAreRequests ==
    /\ Creates \subseteq Requests /\ Renames \subseteq Requests /\ Deletes \subseteq Requests
    /\ Resyncs \subseteq Requests /\ Reads \subseteq Requests /\ Writes \subseteq Requests
    /\ Backfills \subseteq Requests /\ Marks \subseteq Requests /\ Idle \in Requests
BY DEF Requests

\* What [c EXCEPT !.at = a] is.
LEMMA Moved ==
    ASSUME NEW c, NEW a, NEW n, n = [c EXCEPT !.at = a]
    PROVE  /\ c \in Creates /\ a \in {"slug", "wallet", "row", "stream", "streamId", "sync"} =>
                n \in Creates /\ n.at = a /\ n.user = c.user /\ n.name = c.name
                /\ n.wallet = c.wallet /\ n.pid = c.pid /\ n.stale = c.stale
           /\ c \in Renames /\ a = "row" =>
                n \in Renames /\ n.at = a /\ n.user = c.user /\ n.name = c.name /\ n.pid = c.pid
                /\ n.stale = c.stale
           /\ c \in Deletes /\ a = "row" =>
                n \in Deletes /\ n.at = a /\ n.pid = c.pid /\ n.stream = c.stream
           /\ c \in Resyncs /\ a = "arm" => n \in Resyncs /\ n.at = a /\ n.pid = c.pid
BY DEF Creates, Renames, Deletes, Resyncs

LEMMA Staled ==
    ASSUME NEW c, NEW n, n = [c EXCEPT !.stale = TRUE]
    PROVE  /\ c \in Creates =>
                n \in Creates /\ n.at = c.at /\ n.user = c.user /\ n.name = c.name
                /\ n.wallet = c.wallet /\ n.pid = c.pid /\ n.stale
           /\ c \in Renames =>
                n \in Renames /\ n.at = c.at /\ n.user = c.user /\ n.name = c.name /\ n.pid = c.pid
                /\ n.stale
BY DEF Creates, Renames

LEMMA TypeFacts ==
    ASSUME Types, NEW r \in Procs
    PROVE  /\ req[r] \in Requests
           /\ req[r].op = "create" => req[r] \in Creates
           /\ req[r].op = "rename" => req[r] \in Renames
           /\ req[r].op = "delete" => req[r] \in Deletes
           /\ req[r].op = "resync" => req[r] \in Resyncs
           /\ req[r].op \in {"history", "rebuild"} /\ req[r].at = "read" => req[r] \in Reads
           /\ req[r].op \in {"history", "rebuild"} /\ req[r].at \in {"write", "today"} => req[r] \in Writes
           /\ req[r].op = "backfill" => req[r] \in Backfills
           /\ req[r].op = "reclassify" => req[r] \in Marks
           /\ req[r].op = "idle" => req[r] = Idle
<1>1. req[r] \in Requests  BY DEF Types
<1> QED BY <1>1, RequestKinds

LEMMA IdleFacts == Idle \in Requests /\ Idle.op = "idle"
BY DEF Idle, Requests

-----------------------------------------------------------------------------
(* What the actions do to the requests. A step of request r leaves the others alone. *)

Step(r, n) == /\ n \in Requests /\ req'[r] = n /\ req' \in [Procs -> Requests]
              /\ \A q \in Procs : q # r => req'[q] = req[q]

LEMMA GotoStep ==
    ASSUME Types, NEW r \in Procs, NEW n \in Requests, Goto(r, n)
    PROVE  Step(r, n)
BY DEF Types, Goto, Step

LEMMA DoneStep ==
    ASSUME Types, NEW r \in Procs, Done(r)
    PROVE  Step(r, Idle)
BY IdleFacts, GotoStep DEF Done

\* To(r, at), for a request that creates.
LEMMA CreateTo ==
    ASSUME Types, NEW r \in Procs, req[r].op = "create",
           NEW a \in {"slug", "wallet", "row", "stream", "streamId", "sync"}, To(r, a)
    PROVE  \E n \in Creates : /\ Step(r, n) /\ n.at = a /\ n.user = req[r].user
                              /\ n.name = req[r].name /\ n.wallet = req[r].wallet
                              /\ n.pid = req[r].pid /\ n.stale = req[r].stale
<1>1. PICK n : n = [req[r] EXCEPT !.at = a]  OBVIOUS
<1>2. Goto(r, n)  BY <1>1 DEF To
<1>3. req[r] \in Creates  BY TypeFacts
<1>4. /\ n \in Creates /\ n.at = a /\ n.user = req[r].user /\ n.name = req[r].name
      /\ n.wallet = req[r].wallet /\ n.pid = req[r].pid /\ n.stale = req[r].stale
    BY <1>1, <1>3, Moved
<1>5. Step(r, n)  BY <1>2, <1>4, GotoStep, KindsAreRequests
<1> QED BY <1>4, <1>5

LEMMA RenameTo ==
    ASSUME Types, NEW r \in Procs, req[r].op = "rename", To(r, "row")
    PROVE  \E n \in Renames : /\ Step(r, n) /\ n.at = "row" /\ n.user = req[r].user
                              /\ n.name = req[r].name /\ n.pid = req[r].pid /\ n.stale = req[r].stale
<1>1. PICK n : n = [req[r] EXCEPT !.at = "row"]  OBVIOUS
<1>2. Goto(r, n)  BY <1>1 DEF To
<1>3. req[r] \in Renames  BY TypeFacts
<1>4. /\ n \in Renames /\ n.at = "row" /\ n.user = req[r].user /\ n.name = req[r].name
      /\ n.pid = req[r].pid /\ n.stale = req[r].stale
    BY <1>1, <1>3, Moved
<1>5. Step(r, n)  BY <1>2, <1>4, GotoStep, KindsAreRequests
<1> QED BY <1>4, <1>5

LEMMA DeleteTo ==
    ASSUME Types, NEW r \in Procs, req[r].op = "delete", To(r, "row")
    PROVE  \E n \in Deletes : /\ Step(r, n) /\ n.at = "row" /\ n.pid = req[r].pid
                              /\ n.stream = req[r].stream
<1>1. PICK n : n = [req[r] EXCEPT !.at = "row"]  OBVIOUS
<1>2. Goto(r, n)  BY <1>1 DEF To
<1>3. req[r] \in Deletes  BY TypeFacts
<1>4. n \in Deletes /\ n.at = "row" /\ n.pid = req[r].pid /\ n.stream = req[r].stream
    BY <1>1, <1>3, Moved
<1>5. Step(r, n)  BY <1>2, <1>4, GotoStep, KindsAreRequests
<1> QED BY <1>4, <1>5

LEMMA ResyncTo ==
    ASSUME Types, NEW r \in Procs, req[r].op = "resync", To(r, "arm")
    PROVE  \E n \in Resyncs : Step(r, n)
<1>1. PICK n : n = [req[r] EXCEPT !.at = "arm"]  OBVIOUS
<1>2. Goto(r, n)  BY <1>1 DEF To
<1>3. req[r] \in Resyncs  BY TypeFacts
<1>4. n \in Resyncs  BY <1>1, <1>3, Moved
<1>5. Step(r, n)  BY <1>2, <1>4, GotoStep, KindsAreRequests
<1> QED BY <1>4, <1>5

\* Wrote(r, n): r goes on as n, the user's other creates and renames are stale, the rest is as it was.
Wrotes(r, n) ==
    /\ req' \in [Procs -> Requests] /\ req'[r] = n
    /\ \A q \in Procs : q # r =>
         \/ req'[q] = req[q] /\ (req[q].op \in {"create", "rename"} => req[q].user # req[r].user)
         \/ /\ req[q] \in Creates /\ req'[q] \in Creates /\ req'[q].stale
            /\ req'[q].at = req[q].at /\ req'[q].pid = req[q].pid /\ req'[q].user = req[q].user
         \/ /\ req[q] \in Renames /\ req'[q] \in Renames /\ req'[q].stale
            /\ req'[q].at = req[q].at /\ req'[q].pid = req[q].pid /\ req'[q].user = req[q].user

LEMMA WroteStep ==
    ASSUME Types, NEW r \in Procs, NEW n \in Requests, Wrote(r, n)
    PROVE  Wrotes(r, n) /\ raced' = IF req[r].stale THEN raced \cup {req[r].user} ELSE raced
<1> DEFINE new(q) == IF q = r THEN n
                     ELSE IF req[q].op \in {"create", "rename"} /\ req[q].user = req[r].user
                          THEN [req[q] EXCEPT !.stale = TRUE] ELSE req[q]
<1>1. req' = [q \in Procs |-> new(q)]  BY DEF Wrote
<1>2. ASSUME NEW q \in Procs, q # r
      PROVE  /\ req'[q] \in Requests
             /\ \/ req'[q] = req[q] /\ (req[q].op \in {"create", "rename"} => req[q].user # req[r].user)
                \/ /\ req[q] \in Creates /\ req'[q] \in Creates /\ req'[q].stale
                   /\ req'[q].at = req[q].at /\ req'[q].pid = req[q].pid /\ req'[q].user = req[q].user
                \/ /\ req[q] \in Renames /\ req'[q] \in Renames /\ req'[q].stale
                   /\ req'[q].at = req[q].at /\ req'[q].pid = req[q].pid /\ req'[q].user = req[q].user
    <2>1. req[q] \in Requests  BY TypeFacts
    <2>2. CASE ~(req[q].op \in {"create", "rename"} /\ req[q].user = req[r].user)
        <3>1. req'[q] = req[q]  BY <1>1, <1>2, <2>2
        <3> QED BY <2>1, <2>2, <3>1
    <2>3. CASE req[q].op \in {"create", "rename"} /\ req[q].user = req[r].user
        <3>1. req'[q] = [req[q] EXCEPT !.stale = TRUE]  BY <1>1, <1>2, <2>3
        <3>2. req[q] \in Creates \/ req[q] \in Renames  BY <2>3, TypeFacts
        <3>3. CASE req[q] \in Creates
            BY <3>1, <3>3, Staled, KindsAreRequests
        <3>4. CASE req[q] \in Renames
            BY <3>1, <3>4, Staled, KindsAreRequests
        <3> QED BY <3>2, <3>3, <3>4
    <2> QED BY <2>2, <2>3
<1>3. req'[r] = n  BY <1>1
<1>4. req' \in [Procs -> Requests]
    <2>1. \A q \in Procs : req'[q] \in Requests  BY <1>2, <1>3
    <2> HIDE DEF new
    <2> QED BY <1>1, <2>1
<1> QED BY <1>2, <1>3, <1>4 DEF Wrotes, Wrote

-----------------------------------------------------------------------------
(* Least and greatest days *)

LEMMA MinExists ==
    ASSUME NEW S \in SUBSET Nat, S # {}
    PROVE  Min(S) \in S /\ \A y \in S : Min(S) <= y
<1>1. \E x \in S : \A y \in S : ~(<<y, x>> \in OpToRel(<, Nat))
    BY WFMin, NatLessThanWellFounded
<1>2. PICK x \in S : \A y \in S : ~(<<y, x>> \in OpToRel(<, Nat))  BY <1>1
<1>3. \A y \in S : x <= y
    <2> TAKE y \in S
    <2>1. x \in Nat /\ y \in Nat  OBVIOUS
    <2>2. y < x => <<y, x>> \in OpToRel(<, Nat)  BY <2>1 DEF OpToRel
    <2>3. ~(y < x)  BY <1>2, <2>2
    <2> QED BY <2>1, <2>3
<1> QED BY <1>3 DEF Min

LEMMA MaxExists ==
    ASSUME NEW n \in Nat, NEW S \in SUBSET (0..n), S # {}
    PROVE  Max(S) \in S /\ \A y \in S : y <= Max(S)
<1> DEFINE T == {n - x : x \in S}
<1>1. T \in SUBSET Nat /\ T # {}
    <2>1. \A x \in S : n - x \in Nat  OBVIOUS
    <2>2. PICK x \in S : TRUE  OBVIOUS
    <2>3. n - x \in T  OBVIOUS
    <2> QED BY <2>1, <2>3
<1>2. PICK m \in T : \A y \in T : m <= y
    <2> HIDE DEF T
    <2> QED BY <1>1, MinExists
<1>3. PICK x \in S : m = n - x  BY <1>2
<1>4. \A y \in S : x >= y
    <2> TAKE y \in S
    <2>1. n - y \in T /\ x \in Int /\ y \in Int  OBVIOUS
    <2>2. n - x <= n - y  BY <1>2, <1>3, <2>1
    <2> QED BY <2>1, <2>2
<1>5. \E z \in S : \A y \in S : z >= y  BY <1>4
<1>6. Max(S) \in S /\ \A y \in S : Max(S) >= y  BY <1>5 DEF Max
<1> QED BY <1>6

LEMMA runOldestIsADay ==
    ASSUME Types, NEW p \in Pids, rows[p] # NoRows
    PROVE  runOldest(p) \in Days
<1> DEFINE held == {d \in Days : rows[p][d] # NoRow}
           run == {d \in held : \A e \in d..Max(held) : e \in held}
<1>1. MaxDay \in Nat /\ Days = 1..MaxDay  BY SnapshotsAssumption DEF Days
<1>2. held # {}
    <2>1. rows[p] \in [Days -> Values]  BY DEF Types, SnapTypes, Curves
    <2> QED BY <2>1 DEF NoRows
<1>3. held \in SUBSET (0..MaxDay)  BY <1>1
<1>4. Max(held) \in held
    <2> HIDE DEF held
    <2> QED BY <1>1, <1>2, <1>3, MaxExists
<1>5. Max(held) \in run
    <2>1. Max(held) \in Int  BY <1>1, <1>4
    <2>2. \A e \in Max(held)..Max(held) : e = Max(held)
        <3> HIDE DEF held
        <3> QED BY <2>1
    <2> QED BY <1>4, <2>2
<1>6. run \in SUBSET Nat /\ run # {}
    <2>1. run \subseteq held  OBVIOUS
    <2>2. held \subseteq Nat  BY <1>1
    <2> HIDE DEF run, held
    <2> QED BY <1>5, <2>1, <2>2
<1>7. Min(run) \in run
    <2> HIDE DEF run
    <2> QED BY <1>6, MinExists
<1>8. runOldest(p) = Min(run)  BY DEF runOldest
<1> QED BY <1>7, <1>8

-----------------------------------------------------------------------------
(* Types: the portfolio's side *)

\* The requests of Portfolios.
LEMMA CreateCountDoes ==
    ASSUME Types, NEW r \in Procs, CreateCount(r)
    PROVE  /\ req[r] = Idle /\ nextId <= MaxPortfolios /\ UNCHANGED <<ops, portVars>>
           /\ \E n \in Creates : /\ Step(r, n) /\ n.at = "slug" /\ n.pid = 0
                                 /\ Cardinality(Of(n.user)) < PLAN_CAPS[plan[n.user]]
<1>1. PICK u \in accounts, asked \in Asked[ops] :
        /\ Cardinality(Of(u)) < PLAN_CAPS[plan[u]]
        /\ Goto(r, [op |-> "create", at |-> "slug", user |-> u, name |-> asked[1],
                    wallet |-> asked[2], plan |-> plan[u], pid |-> 0, stale |-> FALSE])
    BY DEF CreateCount
<1>2. u \in Users /\ plan[u] \in Plans /\ ops \in Mixes  BY DEF Types, PortTypes
<1>3. asked[1] \in Names /\ asked[2] \in Wallets \cup {Manual}
    BY <1>2, PortfoliosAssumption
<1>4. 0 \in 0..MaxPortfolios  BY PortfoliosAssumption
<1>5. PICK n : n = [op |-> "create", at |-> "slug", user |-> u, name |-> asked[1],
                    wallet |-> asked[2], plan |-> plan[u], pid |-> 0, stale |-> FALSE]
    OBVIOUS
<1>6. n \in Creates /\ n.at = "slug" /\ n.pid = 0 /\ n.user = u
    BY <1>2, <1>3, <1>4, <1>5 DEF Creates
<1>7. Step(r, n)  BY <1>1, <1>5, <1>6, GotoStep, KindsAreRequests
<1>8. req[r] = Idle /\ nextId <= MaxPortfolios /\ UNCHANGED <<ops, portVars>>  BY DEF CreateCount
<1> QED BY <1>1, <1>6, <1>7, <1>8

LEMMA CreateSlugDoes ==
    ASSUME Types, NEW r \in Procs, CreateSlug(r)
    PROVE  /\ req[r] \in Creates /\ req[r].at = "slug" /\ UNCHANGED <<ops, portVars>>
           /\ \/ Step(r, Idle)
              \/ /\ assertSlugAvailable(req[r].user, req[r].name, 0)
                 /\ \E n \in Creates : /\ Step(r, n) /\ n.at \in {"wallet", "row"}
                                       /\ n.at = "row" => n.wallet = Manual
                                       /\ n.user = req[r].user /\ n.name = req[r].name
                                       /\ n.pid = req[r].pid /\ n.stale = req[r].stale
<1>1. req[r].op = "create" /\ req[r].at = "slug" /\ UNCHANGED <<ops, portVars>>
    BY DEF CreateSlug, At
<1>2. req[r] \in Creates  BY <1>1, TypeFacts
<1>3. CASE assertSlugAvailable(req[r].user, req[r].name, 0)
    <2>1. PICK a \in {"wallet", "row"} : To(r, a) /\ (a = "row" => req[r].wallet = Manual)
        BY <1>3 DEF CreateSlug
    <2>2. PICK n \in Creates : /\ Step(r, n) /\ n.at = a /\ n.user = req[r].user
                               /\ n.name = req[r].name /\ n.wallet = req[r].wallet
                               /\ n.pid = req[r].pid /\ n.stale = req[r].stale
        BY <1>1, <2>1, CreateTo
    <2> QED BY <1>1, <1>2, <1>3, <2>1, <2>2
<1>4. CASE ~assertSlugAvailable(req[r].user, req[r].name, 0)
    BY <1>1, <1>2, <1>4, DoneStep DEF CreateSlug
<1> QED BY <1>3, <1>4

LEMMA CreateWalletDoes ==
    ASSUME Types, NEW r \in Procs, CreateWallet(r)
    PROVE  /\ req[r] \in Creates /\ req[r].at = "wallet" /\ UNCHANGED <<ops, portVars>>
           /\ \/ Step(r, Idle)
              \/ /\ \A p \in Of(req[r].user) : port[p].wallet # req[r].wallet
                 /\ \E n \in Creates : /\ Step(r, n) /\ n.at = "row" /\ n.wallet = req[r].wallet
                                       /\ n.user = req[r].user /\ n.name = req[r].name
                                       /\ n.pid = req[r].pid /\ n.stale = req[r].stale
<1>1. req[r].op = "create" /\ req[r].at = "wallet" /\ UNCHANGED <<ops, portVars>>
    BY DEF CreateWallet, At
<1>2. req[r] \in Creates  BY <1>1, TypeFacts
<1>3. CASE Done(r)
    BY <1>1, <1>2, <1>3, DoneStep
<1>4. CASE To(r, "row") /\ findConnectedPortfolioByWallet(req[r].user, req[r].wallet) = {}
    <2>1. \A p \in Of(req[r].user) : port[p].wallet # req[r].wallet
        BY <1>4 DEF findConnectedPortfolioByWallet
    <2>2. PICK n \in Creates : /\ Step(r, n) /\ n.at = "row" /\ n.user = req[r].user
                               /\ n.name = req[r].name /\ n.wallet = req[r].wallet
                               /\ n.pid = req[r].pid /\ n.stale = req[r].stale
        BY <1>1, <1>4, CreateTo
    <2> QED BY <1>1, <1>2, <2>1, <2>2
<1> QED BY <1>3, <1>4 DEF CreateWallet

\* The row is written and the request goes on, or the request ends.
LEMMA createPortfolioRowDoes ==
    ASSUME Types, NEW r \in Procs, createPortfolioRow(r)
    PROVE  /\ req[r] \in Creates /\ req[r].at = "row"
           /\ UNCHANGED <<ops, accounts, plan, streams, cooldown, wasPro, stray>>
           /\ \/ /\ Step(r, Idle) /\ UNCHANGED <<port, nextId, raced>>
              \/ /\ nextId \in Pids /\ nextId' = nextId + 1
                 /\ \E row \in Rows : /\ port' = [port EXCEPT ![nextId] = row]
                                      /\ row.user = req[r].user /\ row.name = req[r].name
                                      /\ row.wallet = req[r].wallet /\ ~row.stream
                 /\ raced' = IF req[r].stale THEN raced \cup {req[r].user} ELSE raced
                 /\ \E n \in Requests : /\ Wrotes(r, n)
                                        /\ \/ n = Idle
                                           \/ n \in Creates /\ n.at = "stream" /\ n.pid = nextId
<1>1. /\ req[r].op = "create" /\ req[r].at = "row"
      /\ UNCHANGED <<ops, accounts, plan, streams, cooldown, wasPro, stray>>
    BY DEF createPortfolioRow, At
<1>2. req[r] \in Creates  BY <1>1, TypeFacts
<1>3. CASE Done(r) /\ UNCHANGED <<port, nextId, raced>>
    BY <1>1, <1>2, <1>3, DoneStep
<1>4. CASE /\ nextId <= MaxPortfolios
           /\ port' = [port EXCEPT ![nextId] = [user |-> req[r].user, name |-> req[r].name,
                                                wallet |-> req[r].wallet, stream |-> FALSE]]
           /\ nextId' = nextId + 1
           /\ Wrote(r, IF req[r].wallet = Manual THEN Idle
                       ELSE [req[r] EXCEPT !.at = "stream", !.pid = nextId])
    <2>1. nextId \in Pids
        BY <1>4, PortfoliosAssumption DEF Types, PortTypes, Pids
    <2>2. PICK row : row = [user |-> req[r].user, name |-> req[r].name,
                            wallet |-> req[r].wallet, stream |-> FALSE]
        OBVIOUS
    <2>3. /\ row \in Rows /\ row.user = req[r].user /\ row.name = req[r].name
          /\ row.wallet = req[r].wallet /\ ~row.stream
        BY <1>2, <2>2, Fields DEF Rows
    <2>4. PICK n : n = IF req[r].wallet = Manual THEN Idle
                       ELSE [req[r] EXCEPT !.at = "stream", !.pid = nextId]
        OBVIOUS
    <2>5. n = Idle \/ (n \in Creates /\ n.at = "stream" /\ n.pid = nextId)
        <3>1. CASE req[r].wallet = Manual
            BY <2>4, <3>1
        <3>2. CASE req[r].wallet # Manual
            <4>1. n = [req[r] EXCEPT !.at = "stream", !.pid = nextId]  BY <2>4, <3>2
            <4>2. PICK i : i = nextId  OBVIOUS
            <4>3. i \in 0..MaxPortfolios  BY <2>1, <4>2, PortfoliosAssumption DEF Pids
            <4>4. n = [op |-> req[r].op, at |-> "stream", user |-> req[r].user, name |-> req[r].name,
                       wallet |-> req[r].wallet, plan |-> req[r].plan, pid |-> i, stale |-> req[r].stale]
                BY <1>2, <4>1, <4>2 DEF Creates
            <4>5. n \in Creates /\ n.at = "stream" /\ n.pid = i
                BY <1>2, <4>3, <4>4 DEF Creates
            <4> QED BY <4>2, <4>5
        <3> QED BY <3>1, <3>2
    <2>6. n \in Requests  BY <2>5, KindsAreRequests
    <2>7. Wrote(r, n)  BY <1>4, <2>4
    <2>8. Wrotes(r, n) /\ raced' = IF req[r].stale THEN raced \cup {req[r].user} ELSE raced
        BY <2>6, <2>7, WroteStep
    <2>9. port' = [port EXCEPT ![nextId] = row]  BY <1>4, <2>2
    <2>10. \E row1 \in Rows : /\ port' = [port EXCEPT ![nextId] = row1]
                              /\ row1.user = req[r].user /\ row1.name = req[r].name
                              /\ row1.wallet = req[r].wallet /\ ~row1.stream
        BY <2>3, <2>9
    <2>11. \E n1 \in Requests : /\ Wrotes(r, n1)
                                /\ \/ n1 = Idle
                                   \/ n1 \in Creates /\ n1.at = "stream" /\ n1.pid = nextId
        BY <2>5, <2>6, <2>8
    <2> QED BY <1>1, <1>2, <1>4, <2>1, <2>8, <2>10, <2>11
<1> QED BY <1>3, <1>4 DEF createPortfolioRow

LEMMA createStreamDoes ==
    ASSUME Types, NEW r \in Procs, createStream(r)
    PROVE  /\ req[r] \in Creates /\ req[r].at = "stream"
           /\ UNCHANGED <<ops, accounts, plan, port, nextId, cooldown, raced, wasPro>>
           /\ \E n \in Creates :
                /\ Step(r, n) /\ n.pid = req[r].pid
                /\ \/ n.at = "streamId" /\ streams' = streams \cup {req[r].pid} /\ UNCHANGED stray
                   \/ n.at = "sync" /\ UNCHANGED <<streams, stray>>
                   \/ /\ n.at = "sync" /\ streams' = streams \cup {req[r].pid}
                      /\ stray' = stray \cup {req[r].pid}
<1>1. /\ req[r].op = "create" /\ req[r].at = "stream"
      /\ UNCHANGED <<ops, accounts, plan, port, nextId, cooldown, raced, wasPro>>
    BY DEF createStream, At
<1>2. req[r] \in Creates  BY <1>1, TypeFacts
<1>3. PICK a \in {"streamId", "sync"} :
        /\ To(r, a)
        /\ \/ a = "streamId" /\ streams' = streams \cup {req[r].pid} /\ UNCHANGED stray
           \/ a = "sync" /\ UNCHANGED <<streams, stray>>
           \/ /\ a = "sync" /\ streams' = streams \cup {req[r].pid}
              /\ stray' = stray \cup {req[r].pid}
    BY DEF createStream
<1>4. PICK n \in Creates : Step(r, n) /\ n.at = a /\ n.pid = req[r].pid
    BY <1>1, <1>3, CreateTo
<1> QED BY <1>1, <1>2, <1>3, <1>4

LEMMA CreateStreamIdDoes ==
    ASSUME Types, NEW r \in Procs, CreateStreamId(r)
    PROVE  /\ req[r] \in Creates /\ req[r].at = "streamId"
           /\ UNCHANGED <<ops, accounts, plan, nextId, streams, cooldown, raced, wasPro>>
           /\ \E n \in Creates : Step(r, n) /\ n.at = "sync" /\ n.pid = req[r].pid
           /\ \/ /\ port[req[r].pid] # NoPortfolio /\ UNCHANGED stray
                 /\ port' = [port EXCEPT ![req[r].pid].stream = TRUE]
              \/ stray' = stray \cup {req[r].pid} /\ UNCHANGED port
<1>1. /\ req[r].op = "create" /\ req[r].at = "streamId" /\ To(r, "sync")
      /\ UNCHANGED <<ops, accounts, plan, nextId, streams, cooldown, raced, wasPro>>
      /\ \/ /\ port[req[r].pid] # NoPortfolio /\ UNCHANGED stray
            /\ port' = [port EXCEPT ![req[r].pid].stream = TRUE]
         \/ stray' = stray \cup {req[r].pid} /\ UNCHANGED port
    BY DEF CreateStreamId, At
<1>2. req[r] \in Creates  BY <1>1, TypeFacts
<1>3. PICK n \in Creates : Step(r, n) /\ n.at = "sync" /\ n.pid = req[r].pid
    BY <1>1, CreateTo
<1> QED BY <1>1, <1>2, <1>3

LEMMA RenameReadDoes ==
    ASSUME Types, NEW r \in Procs, RenameRead(r)
    PROVE  /\ req[r] = Idle /\ UNCHANGED <<ops, portVars>>
           /\ \E n \in Renames : /\ Step(r, n) /\ n.at = "slug" /\ ~n.stale
                                 /\ port[n.pid] # NoPortfolio /\ n.user = port[n.pid].user
<1>1. PICK p \in Pids, m \in Names :
        /\ port[p] # NoPortfolio
        /\ Goto(r, [op |-> "rename", at |-> "slug", user |-> port[p].user, name |-> m, pid |-> p,
                    stale |-> FALSE])
    BY DEF RenameRead
<1>2. port[p].user \in Users  BY <1>1 DEF Types, PortTypes, Rows
<1>3. PICK n : n = [op |-> "rename", at |-> "slug", user |-> port[p].user, name |-> m, pid |-> p,
                    stale |-> FALSE]
    OBVIOUS
<1>4. n \in Renames /\ n.at = "slug" /\ n.pid = p /\ n.user = port[p].user /\ ~n.stale
    BY <1>2, <1>3 DEF Renames
<1>5. Step(r, n)  BY <1>1, <1>3, <1>4, GotoStep, KindsAreRequests
<1>6. req[r] = Idle /\ UNCHANGED <<ops, portVars>>  BY DEF RenameRead
<1> QED BY <1>1, <1>4, <1>5, <1>6

LEMMA RenameSlugDoes ==
    ASSUME Types, NEW r \in Procs, RenameSlug(r)
    PROVE  /\ req[r] \in Renames /\ req[r].at = "slug" /\ UNCHANGED <<ops, portVars>>
           /\ \/ Step(r, Idle)
              \/ /\ assertSlugAvailable(req[r].user, req[r].name, req[r].pid)
                 /\ \E n \in Renames : /\ Step(r, n) /\ n.at = "row" /\ n.user = req[r].user
                                       /\ n.name = req[r].name /\ n.pid = req[r].pid
                                       /\ n.stale = req[r].stale
<1>1. req[r].op = "rename" /\ req[r].at = "slug" /\ UNCHANGED <<ops, portVars>>
    BY DEF RenameSlug, At
<1>2. req[r] \in Renames  BY <1>1, TypeFacts
<1>3. CASE Done(r)
    BY <1>1, <1>2, <1>3, DoneStep
<1>4. CASE To(r, "row") /\ assertSlugAvailable(req[r].user, req[r].name, req[r].pid)
    <2>1. PICK n \in Renames : /\ Step(r, n) /\ n.at = "row" /\ n.user = req[r].user
                               /\ n.name = req[r].name /\ n.pid = req[r].pid /\ n.stale = req[r].stale
        BY <1>1, <1>4, RenameTo
    <2> QED BY <1>1, <1>2, <1>4, <2>1
<1> QED BY <1>3, <1>4 DEF RenameSlug

LEMMA updatePortfolioNameDoes ==
    ASSUME Types, NEW r \in Procs, updatePortfolioName(r)
    PROVE  /\ req[r] \in Renames /\ req[r].at = "row"
           /\ UNCHANGED <<ops, accounts, plan, nextId, streams, cooldown, wasPro, stray>>
           /\ \/ Step(r, Idle) /\ UNCHANGED <<port, raced>>
              \/ /\ port[req[r].pid] # NoPortfolio /\ Wrotes(r, Idle)
                 /\ port' = [port EXCEPT ![req[r].pid].name = req[r].name]
                 /\ raced' = IF req[r].stale THEN raced \cup {req[r].user} ELSE raced
<1>1. /\ req[r].op = "rename" /\ req[r].at = "row"
      /\ UNCHANGED <<ops, accounts, plan, nextId, streams, cooldown, wasPro, stray>>
    BY DEF updatePortfolioName, At
<1>2. req[r] \in Renames  BY <1>1, TypeFacts
<1>3. CASE Done(r) /\ UNCHANGED <<port, raced>>
    BY <1>1, <1>2, <1>3, DoneStep
<1>4. CASE /\ port[req[r].pid] # NoPortfolio
           /\ port' = [port EXCEPT ![req[r].pid].name = req[r].name] /\ Wrote(r, Idle)
    BY <1>1, <1>2, <1>4, WroteStep, IdleFacts
<1> QED BY <1>3, <1>4 DEF updatePortfolioName

LEMMA DeleteReadDoes ==
    ASSUME Types, NEW r \in Procs, DeleteRead(r)
    PROVE  /\ req[r] = Idle /\ UNCHANGED <<ops, portVars>>
           /\ \E n \in Deletes : /\ Step(r, n) /\ port[n.pid] # NoPortfolio
                                 /\ n.stream = port[n.pid].stream
                                 /\ n.at = "stream" <=> n.stream
<1>1. PICK p \in Pids :
        /\ port[p] # NoPortfolio
        /\ Goto(r, [op |-> "delete", at |-> IF port[p].stream THEN "stream" ELSE "row",
                    pid |-> p, stream |-> port[p].stream])
    BY DEF DeleteRead
<1>2. port[p].stream \in BOOLEAN  BY <1>1 DEF Types, PortTypes, Rows
<1>3. PICK a \in {"stream", "row"} : a = IF port[p].stream THEN "stream" ELSE "row"  OBVIOUS
<1>4. PICK n : n = [op |-> "delete", at |-> a, pid |-> p, stream |-> port[p].stream]  OBVIOUS
<1>5. n \in Deletes /\ n.at = a /\ n.pid = p /\ n.stream = port[p].stream
    BY <1>2, <1>4 DEF Deletes
<1>6. Step(r, n)  BY <1>1, <1>3, <1>4, <1>5, GotoStep, KindsAreRequests
<1>7. req[r] = Idle /\ UNCHANGED <<ops, portVars>>  BY DEF DeleteRead
<1> QED BY <1>1, <1>2, <1>3, <1>5, <1>6, <1>7

LEMMA deleteStreamDoes ==
    ASSUME Types, NEW r \in Procs, deleteStream(r)
    PROVE  /\ req[r] \in Deletes /\ req[r].at = "stream"
           /\ UNCHANGED <<ops, accounts, plan, port, nextId, cooldown, raced, wasPro>>
           /\ \E n \in Deletes : /\ Step(r, n) /\ n.at = "row" /\ n.pid = req[r].pid
                                 /\ n.stream = req[r].stream
           /\ \/ streams' = streams \ {req[r].pid} /\ UNCHANGED stray
              \/ stray' = stray \cup {req[r].pid} /\ UNCHANGED streams
<1>1. /\ req[r].op = "delete" /\ req[r].at = "stream" /\ To(r, "row")
      /\ UNCHANGED <<ops, accounts, plan, port, nextId, cooldown, raced, wasPro>>
      /\ \/ streams' = streams \ {req[r].pid} /\ UNCHANGED stray
         \/ stray' = stray \cup {req[r].pid} /\ UNCHANGED streams
    BY DEF deleteStream, At
<1>2. req[r] \in Deletes  BY <1>1, TypeFacts
<1> QED BY <1>1, <1>2, DeleteTo

LEMMA deletePortfolioDoes ==
    ASSUME Types, NEW r \in Procs, deletePortfolio(r)
    PROVE  /\ req[r] \in Deletes /\ req[r].at = "row" /\ Step(r, Idle)
           /\ UNCHANGED <<ops, accounts, plan, nextId, streams, cooldown, raced, wasPro>>
           /\ \/ /\ port' = [port EXCEPT ![req[r].pid] = NoPortfolio]
                 /\ stray' = IF port[req[r].pid] # NoPortfolio /\ port[req[r].pid].stream /\ ~req[r].stream
                             THEN stray \cup {req[r].pid} ELSE stray
              \/ /\ UNCHANGED port
                 /\ stray' = IF req[r].stream THEN stray \cup {req[r].pid} ELSE stray
<1>1. req[r].op = "delete" /\ req[r].at = "row" /\ Done(r)  BY DEF deletePortfolio, At
<1>2. req[r] \in Deletes  BY <1>1, TypeFacts
<1>3. Step(r, Idle)  BY <1>1, DoneStep
<1> QED BY <1>1, <1>2, <1>3 DEF deletePortfolio

LEMMA ResyncsDo ==
    ASSUME Types, NEW r \in Procs, ResyncGate(r) \/ ResyncArm(r)
    PROVE  /\ req[r].op \in {"idle", "resync"}
           /\ UNCHANGED <<ops, accounts, plan, port, nextId, streams, raced, wasPro, stray>>
           /\ cooldown' \in SUBSET Pids
           /\ \E n \in {Idle} \cup Resyncs : Step(r, n)
<1>0. cooldown \in SUBSET Pids  BY DEF Types, PortTypes
<1>1. CASE ResyncGate(r)
    <2>1. PICK p \in Pids : Goto(r, [op |-> "resync", at |-> "sync", pid |-> p])
        BY <1>1 DEF ResyncGate
    <2>2. PICK n : n = [op |-> "resync", at |-> "sync", pid |-> p]  OBVIOUS
    <2>3. n \in Resyncs  BY <2>2 DEF Resyncs
    <2>4. Step(r, n)  BY <2>1, <2>2, <2>3, GotoStep, KindsAreRequests
    <2>5. req[r] = Idle /\ UNCHANGED portVars /\ UNCHANGED ops  BY <1>1 DEF ResyncGate
    <2> QED BY <1>0, <2>3, <2>4, <2>5, IdleFacts DEF portVars
<1>2. CASE ResyncArm(r)
    <2>1. /\ req[r].op = "resync" /\ Done(r)
          /\ UNCHANGED <<ops, accounts, plan, port, nextId, streams, raced, wasPro, stray>>
          /\ cooldown' \in {cooldown, cooldown \cup {req[r].pid}}
        BY <1>2 DEF ResyncArm, At
    <2>2. req[r].pid \in Pids  BY <2>1, TypeFacts, Fields
    <2>3. cooldown' \in SUBSET Pids  BY <1>0, <2>1, <2>2
    <2> QED BY <2>1, <2>3, DoneStep
<1> QED BY <1>1, <1>2

-----------------------------------------------------------------------------
(* What the snapshots' side does *)

\* One portfolio's curve becomes h: day by day it is as before, a real value, a flagged one where
\* no real one stood, or what stood there with the flag raised.
Written(p, h) ==
    /\ rows' = [rows EXCEPT ![p] = h]
    /\ \A d \in Days :
         \/ h[d] = rows[p][d]
         \/ h[d] # NoRow /\ ~h[d].approx /\ h[d].by \in {"job", "observed", "priced"}
         \/ ~Real(p, d) /\ h[d] # NoRow /\ Flagged(h[d])
         \/ /\ "reclassify" \in ops /\ rows[p][d] # NoRow
            /\ h[d] # NoRow /\ h[d].approx /\ h[d].by = rows[p][d].by

LEMMA RowFacts ==
    ASSUME Types, NEW p \in Pids
    PROVE  rows[p] \in Curves /\ \A d \in Days : rows[p][d] \in Values
BY DEF Types, SnapTypes, Curves

LEMMA UpsertWrites ==
    ASSUME Types, NEW p \in Pids, NEW d \in Days, NEW by \in {"job", "observed", "priced"},
           rows' = Upsert(p, d, by)
    PROVE  \E h \in Curves : Written(p, h) /\ h[d] # NoRow /\ ~h[d].approx
<1> DEFINE v == [approx |-> FALSE, by |-> by]
           h == [rows[p] EXCEPT ![d] = v]
<1>1. v \in Values /\ v # NoRow /\ ~v.approx /\ v.by = by
    BY DEF Values, NoRow, Sources
<1> HIDE DEF v
<1>2. rows[p] \in [Days -> Values] /\ rows \in [Pids -> Curves]  BY RowFacts DEF Curves, Types, SnapTypes
<1>3. h \in [Days -> Values] /\ h[d] = v /\ \A e \in Days : e # d => h[e] = rows[p][e]
    BY <1>1, <1>2
<1>4. rows' = [rows EXCEPT ![p] = h]
    BY <1>2 DEF Upsert, v
<1> HIDE DEF h
<1>5. PICK g \in Curves : g = h  BY <1>3 DEF Curves
<1>6. Written(p, g)  BY <1>1, <1>3, <1>4, <1>5 DEF Written
<1> QED BY <1>1, <1>3, <1>5, <1>6

LEMMA UpsertApproxWrites ==
    ASSUME Types, NEW p \in Pids, NEW s \in Curves, \A d \in Days : Flagged(s[d]),
           rows' = UpsertApprox(p, s)
    PROVE  \E h \in Curves : Written(p, h)
<1> DEFINE h == [d \in Days |-> IF s[d] # NoRow /\ ~Real(p, d) THEN s[d] ELSE rows[p][d]]
<1>1. rows \in [Pids -> Curves]  BY DEF Types, SnapTypes
<1>2. rows' = [rows EXCEPT ![p] = h]  BY <1>1 DEF UpsertApprox
<1>3. \A d \in Days : rows[p][d] \in Values /\ s[d] \in Values  BY RowFacts DEF Curves
<1>4. h \in Curves  BY <1>3 DEF Curves
<1>5. \A d \in Days : h[d] = rows[p][d] \/ (~Real(p, d) /\ h[d] = s[d] /\ s[d] # NoRow)  OBVIOUS
<1> HIDE DEF h
<1>6. PICK g \in Curves : g = h  BY <1>4
<1>7. Written(p, g)  BY <1>2, <1>5, <1>6 DEF Written
<1> QED BY <1>7

\* What a step of request r does on this side.
SnapDoes(r) ==
    /\ UNCHANGED <<ops, portVars, today, up, job>> /\ tokenDays' \subseteq Days
    /\ req[r].op \notin {"rename", "delete"} /\ (req[r].op = "create" => req[r].at = "sync")
    /\ \E n \in Requests : /\ Step(r, n) /\ n.op \notin {"create", "rename", "delete"}
                           /\ HonestRequest(n)
    /\ UNCHANGED rows \/ \E p \in Pids, h \in Curves : Written(p, h)

LEMMA IdleIsHonest == HonestRequest(Idle)
BY IdleFacts DEF HonestRequest

LEMMA HistoryStartDoes ==
    ASSUME Types, NEW r \in Procs, HistoryStart(r) \/ RebuildStart(r)
    PROVE  SnapDoes(r)
<1>0. UNCHANGED <<ops, portVars, snapVars>> /\ tokenDays \subseteq Days
    BY DEF HistoryStart, RebuildStart, Types, SnapTypes
<1>1. /\ req[r].op \notin {"rename", "delete"} /\ (req[r].op = "create" => req[r].at = "sync")
    BY IdleFacts DEF HistoryStart, RebuildStart, At
<1>2. CASE Done(r)
    BY <1>0, <1>1, <1>2, DoneStep, IdleFacts, IdleIsHonest DEF SnapDoes, snapVars
<1>3. CASE \E p \in Pids, o \in {"history", "rebuild"} :
             Goto(r, [op |-> o, at |-> "read", pid |-> p, today |-> today])
    <2>1. PICK p \in Pids, o \in {"history", "rebuild"} :
             Goto(r, [op |-> o, at |-> "read", pid |-> p, today |-> today])
        BY <1>3
    <2>2. PICK n : n = [op |-> o, at |-> "read", pid |-> p, today |-> today]  OBVIOUS
    <2>3. today \in Days  BY DEF Types, SnapTypes
    <2>4. n \in Reads /\ n.op = o /\ n.at = "read"  BY <2>2, <2>3 DEF Reads
    <2>5. Step(r, n) /\ n \in Requests  BY <2>1, <2>2, <2>4, GotoStep, KindsAreRequests
    <2>6. HonestRequest(n)  BY <2>4 DEF HonestRequest
    <2> QED BY <1>0, <1>1, <2>4, <2>5, <2>6 DEF SnapDoes, snapVars
<1>4. Done(r) \/ \E p \in Pids, o \in {"history", "rebuild"} :
             Goto(r, [op |-> o, at |-> "read", pid |-> p, today |-> today])
    <2>1. CASE HistoryStart(r)
        <3>1. \/ Goto(r, [op |-> "history", at |-> "read", pid |-> req[r].pid, today |-> today])
              \/ Done(r)
            BY <2>1 DEF HistoryStart
        <3>2. req[r].pid \in Pids  BY <2>1 DEF HistoryStart, At, Types, Placed
        <3> QED BY <3>1, <3>2
    <2>2. CASE RebuildStart(r)
        BY <2>2 DEF RebuildStart
    <2> QED BY <2>1, <2>2
<1> QED BY <1>2, <1>3, <1>4

\* The sampled tail ends before the day the sync began: the point of that day is no estimate.
LEMMA SeriesFacts ==
    ASSUME Types, NEW began \in Days, NEW priced, NEW tail \in sampleMoralisValueHistory(priced, began)
    PROVE  LET s == series(priced, tail)
           IN  /\ s \in Curves /\ \A d \in Days : Flagged(s[d])
               /\ s[began] # NoRow => s[began].by \in {"job", "observed", "priced"}
<1> DEFINE s == series(priced, tail)
<1>1. began \notin tail
    <2>1. \A d \in tail : d < began  BY DEF sampleMoralisValueHistory
    <2>2. began \in Int  BY SnapshotsAssumption DEF Days
    <2> QED BY <2>1, <2>2
<1>2. /\ [approx |-> FALSE, by |-> "observed"] \in Values
      /\ [approx |-> FALSE, by |-> "priced"] \in Values
      /\ [approx |-> TRUE, by |-> "estimate"] \in Values
    BY DEF Values, Sources
<1>3. ASSUME NEW d \in Days
      PROVE  \/ s[d] = [approx |-> FALSE, by |-> "observed"]
             \/ s[d] = [approx |-> FALSE, by |-> "priced"]
             \/ s[d] = [approx |-> TRUE, by |-> "estimate"] /\ d \in tail
             \/ s[d] = NoRow
    BY DEF series
<1>4. \A d \in Days : s[d] \in Values  BY <1>2, <1>3, NoRowFacts
<1>5. s \in Curves
    <2>1. s = [d \in Days |-> s[d]]  BY DEF series
    <2> HIDE DEF s
    <2> QED BY <1>4, <2>1 DEF Curves
<1>6. \A d \in Days : Flagged(s[d])  BY <1>3, NoRowFacts DEF Flagged
<1>7. s[began] # NoRow => s[began].by \in {"job", "observed", "priced"}  BY <1>1, <1>3
<1> QED BY <1>5, <1>6, <1>7

LEMMA buildConnectedValueHistoryDoes ==
    ASSUME Types, NEW r \in Procs, buildConnectedValueHistory(r)
    PROVE  SnapDoes(r)
<1>0. /\ UNCHANGED <<ops, portVars, snapVars>> /\ tokenDays \subseteq Days
      /\ req[r].op \in {"history", "rebuild"} /\ req[r].at = "read"
    BY DEF buildConnectedValueHistory, Types, SnapTypes
<1>1. req[r] \in Reads  BY <1>0, TypeFacts
<1>2. CASE Done(r)
    BY <1>0, <1>2, DoneStep, IdleFacts, IdleIsHonest DEF SnapDoes, snapVars
<1>3. CASE ~Done(r)
    <2>1. PICK priced \in fetchValueHistory : \E tail \in sampleMoralisValueHistory(priced, req[r].today) :
            LET s == series(priced, tail)
                past == [d \in Days |-> IF d < req[r].today THEN s[d] ELSE NoRow]
            IN  Goto(r, [op |-> req[r].op, at |-> "write", pid |-> req[r].pid, today |-> req[r].today,
                         past |-> past, point |-> s[req[r].today]])
        BY <1>3 DEF buildConnectedValueHistory
    <2>2. PICK tail \in sampleMoralisValueHistory(priced, req[r].today) :
            LET s == series(priced, tail)
                past == [d \in Days |-> IF d < req[r].today THEN s[d] ELSE NoRow]
            IN  Goto(r, [op |-> req[r].op, at |-> "write", pid |-> req[r].pid, today |-> req[r].today,
                         past |-> past, point |-> s[req[r].today]])
        BY <2>1
    <2> DEFINE s == series(priced, tail)
               past == [d \in Days |-> IF d < req[r].today THEN s[d] ELSE NoRow]
    <2>3. Goto(r, [op |-> req[r].op, at |-> "write", pid |-> req[r].pid, today |-> req[r].today,
                   past |-> past, point |-> s[req[r].today]])
        BY <2>2
    <2>4. req[r].today \in Days /\ req[r].pid \in Pids /\ req[r].op \in {"history", "rebuild"}
        BY <1>1, Fields
    <2>5. /\ s \in Curves /\ \A d \in Days : Flagged(s[d])
          /\ s[req[r].today] # NoRow => s[req[r].today].by \in {"job", "observed", "priced"}
        BY <2>4, SeriesFacts
    <2> HIDE DEF s
    <2>6. \A d \in Days : s[d] \in Values  BY <2>5 DEF Curves
    <2>7. past \in Curves /\ \A d \in Days : Flagged(past[d])
        <3>1. past \in Curves  BY <2>6, NoRowFacts DEF Curves
        <3>2. \A d \in Days : past[d] = s[d] \/ past[d] = NoRow  OBVIOUS
        <3> HIDE DEF past
        <3> QED BY <2>5, <3>1, <3>2 DEF Flagged
    <2> HIDE DEF past
    <2>8. PICK n : n = [op |-> req[r].op, at |-> "write", pid |-> req[r].pid, today |-> req[r].today,
                        past |-> past, point |-> s[req[r].today]]
        OBVIOUS
    <2>9. n \in Writes  BY <2>4, <2>6, <2>7, <2>8 DEF Writes
    <2>10. Step(r, n) /\ n \in Requests  BY <2>3, <2>8, <2>9, GotoStep, KindsAreRequests
    <2>11. n.op \in {"history", "rebuild"} /\ HonestRequest(n)
        BY <2>4, <2>5, <2>7, <2>8 DEF HonestRequest
    <2> QED BY <1>0, <2>10, <2>11 DEF SnapDoes, snapVars
<1> QED BY <1>2, <1>3

\* Some days of a curve are a curve, as honest as it is.
Only(h, S) == [d \in Days |-> IF d \in S THEN h[d] ELSE NoRow]
LEMMA OnlyIs ==
    ASSUME NEW h \in Curves, \A d \in Days : Flagged(h[d]), NEW S
    PROVE  Only(h, S) \in Curves /\ \A d \in Days : Flagged(Only(h, S)[d])
<1>1. \A d \in Days : h[d] \in Values  BY DEF Curves
<1>2. PICK g : g = Only(h, S)  OBVIOUS
<1>3. \A d \in Days : g[d] = h[d] \/ g[d] = NoRow  BY <1>2 DEF Only
<1>4. g \in Curves  BY <1>1, <1>2, NoRowFacts DEF Only, Curves
<1> QED BY <1>2, <1>3, <1>4, NoRowFacts DEF Flagged

LEMMA HistoryWriteDoes ==
    ASSUME Types, Honest, NEW r \in Procs, HistoryWrite(r)
    PROVE  SnapDoes(r)
<1>0. /\ UNCHANGED <<ops, portVars, today, up, tokenDays, job>> /\ tokenDays \subseteq Days
      /\ req[r].op \in {"history", "rebuild"} /\ req[r].at = "write"
    BY DEF HistoryWrite, Types, SnapTypes
<1>1. req[r] \in Writes  BY <1>0, TypeFacts
<1>2. CASE Done(r) /\ UNCHANGED rows
    BY <1>0, <1>2, DoneStep, IdleFacts, IdleIsHonest DEF SnapDoes
<1>3. ASSUME NEW S \in SUBSET Days, NEW T \in SUBSET Days, NEW a \in {"write", "today"},
             Goto(r, [req[r] EXCEPT !.at = a, !.past = Only(req[r].past, T)]),
             rows' = UpsertApprox(req[r].pid, Only(req[r].past, S))
      PROVE  SnapDoes(r)
    <2>1. PICK c : c = req[r]  OBVIOUS
    <2>2. c.past \in Curves /\ c.pid \in Pids  BY <1>1, <2>1, Fields
    <2>3. HonestRequest(c) /\ c.op \in {"history", "rebuild"} /\ c.at = "write"  BY <1>0, <2>1 DEF Honest
    <2>4. \A d \in Days : Flagged(c.past[d])  BY <2>3 DEF HonestRequest
    <2>5. PICK g \in Curves, h \in Curves :
                /\ g = Only(c.past, S) /\ \A d \in Days : Flagged(g[d])
                /\ h = Only(c.past, T) /\ \A d \in Days : Flagged(h[d])
        BY <2>2, <2>4, OnlyIs
    <2>6. PICK n : n = [c EXCEPT !.at = a, !.past = h]  OBVIOUS
    <2>7. n = [op |-> c.op, at |-> a, pid |-> c.pid, today |-> c.today, past |-> h, point |-> c.point]
        BY <1>1, <2>1, <2>6 DEF Writes
    <2>8. n \in Writes /\ n.op = c.op /\ n.past = h /\ n.point = c.point
        BY <1>1, <2>1, <2>7 DEF Writes
    <2>9. Step(r, n) /\ n \in Requests  BY <1>3, <2>1, <2>5, <2>6, <2>8, GotoStep, KindsAreRequests
    <2>10. HonestRequest(n)  BY <2>3, <2>5, <2>8 DEF HonestRequest
    <2>11. \E k \in Curves : Written(c.pid, k)  BY <1>3, <2>1, <2>2, <2>5, UpsertApproxWrites
    <2>12. n.op \notin {"create", "rename", "delete"}  BY <2>3, <2>8
    <2> QED BY <1>0, <2>1, <2>2, <2>9, <2>10, <2>11, <2>12 DEF SnapDoes
<1>4. CASE ~(Done(r) /\ UNCHANGED rows)
    <2> DEFINE past == req[r].past
               due == {d \in Days : past[d] # NoRow}
               chunk == {d \in due : Cardinality({e \in due : e < d}) < Chunk}
    <2>1. /\ Goto(r, [req[r] EXCEPT !.at = IF due = chunk THEN "today" ELSE "write",
                                    !.past = Only(past, due \ chunk)])
          /\ rows' = UpsertApprox(req[r].pid, Only(past, chunk))
        BY <1>4 DEF HistoryWrite, Only
    <2>2. chunk \in SUBSET Days /\ due \ chunk \in SUBSET Days  OBVIOUS
    <2> HIDE DEF due, chunk
    <2>3. PICK S \in SUBSET Days, T \in SUBSET Days, a \in {"write", "today"} :
                /\ S = chunk /\ T = due \ chunk /\ a = IF due = chunk THEN "today" ELSE "write"
        BY <2>2
    <2> QED BY <1>3, <2>1, <2>3
<1> QED BY <1>2, <1>4

LEMMA HistoryTodayDoes ==
    ASSUME Types, Honest, NEW r \in Procs, HistoryToday(r)
    PROVE  SnapDoes(r)
<1>0. /\ UNCHANGED <<ops, portVars, today, up, tokenDays, job>> /\ tokenDays \subseteq Days
      /\ req[r].op \in {"history", "rebuild"} /\ req[r].at = "today" /\ Done(r)
    BY DEF HistoryToday, Types, SnapTypes
<1>1. req[r].pid \in Pids /\ req[r].today \in Days  BY <1>0, TypeFacts, Fields
<1>2. UNCHANGED rows \/ \E p \in Pids, h \in Curves : Written(p, h)
    <2>1. CASE req[r].point # NoRow /\ rows' = Upsert(req[r].pid, req[r].today, req[r].point.by)
        <3>1. HonestRequest(req[r])  BY DEF Honest
        <3>2. req[r].point.by \in {"job", "observed", "priced"}  BY <1>0, <2>1, <3>1 DEF HonestRequest
        <3> QED BY <1>1, <2>1, <3>2, UpsertWrites
    <2> QED BY <2>1 DEF HistoryToday
<1> QED BY <1>0, <1>2, DoneStep, IdleFacts, IdleIsHonest DEF SnapDoes

LEMMA ResyncTopUpDoes ==
    ASSUME Types, NEW r \in Procs, ResyncTopUp(r)
    PROVE  SnapDoes(r)
<1>0. /\ UNCHANGED <<ops, portVars, today, up, tokenDays, job>> /\ tokenDays \subseteq Days
      /\ req[r].op = "resync" /\ today \in Days
    BY DEF ResyncTopUp, At, Types, SnapTypes
<1>1. req[r].pid \in Pids  BY <1>0, TypeFacts, Fields
<1>2. UNCHANGED rows \/ \E p \in Pids, h \in Curves : Written(p, h)
    BY <1>0, <1>1, UpsertWrites DEF ResyncTopUp
<1>3. CASE Done(r)
    BY <1>0, <1>2, <1>3, DoneStep, IdleFacts, IdleIsHonest DEF SnapDoes
<1>4. CASE To(r, "arm")
    <2>1. PICK n \in Resyncs : Step(r, n)  BY <1>0, <1>4, ResyncTo
    <2>2. n \in Requests /\ n.op = "resync"  BY <2>1, Fields, KindsAreRequests
    <2> QED BY <1>0, <1>2, <2>1, <2>2 DEF SnapDoes, HonestRequest
<1> QED BY <1>3, <1>4 DEF ResyncTopUp

LEMMA BackfillDoes ==
    ASSUME Types, NEW r \in Procs, BackfillTokens(r) \/ BackfillRows(r)
    PROVE  SnapDoes(r)
<1>0. today \in Days /\ tokenDays \subseteq Days  BY DEF Types, SnapTypes
<1>1. CASE BackfillTokens(r)
    <2>1. PICK n : n = [op |-> "backfill", at |-> "rows", today |-> today,
                        todo |-> {p \in Pids : port[p] # NoPortfolio}]
        OBVIOUS
    <2>2. n \in Backfills /\ n.op = "backfill"  BY <1>0, <2>1 DEF Backfills
    <2>3. Step(r, n) /\ n \in Requests
        BY <1>1, <2>1, <2>2, GotoStep, KindsAreRequests DEF BackfillTokens
    <2>4. 1..today \subseteq Days  BY <1>0, SnapshotsAssumption DEF Days
    <2>5. /\ UNCHANGED <<ops, portVars, today, up, rows, job>> /\ tokenDays' \subseteq Days
          /\ req[r] = Idle
        BY <1>0, <1>1, <2>4 DEF BackfillTokens
    <2> QED BY <2>2, <2>3, <2>5, IdleFacts DEF SnapDoes, HonestRequest
<1>2. CASE BackfillRows(r)
    <2>0. UNCHANGED <<ops, portVars, today, up, tokenDays, job>> /\ req[r].op = "backfill"
        BY <1>2 DEF BackfillRows, At
    <2>1. req[r] \in Backfills  BY <2>0, TypeFacts
    <2>2. CASE Done(r) /\ UNCHANGED rows
        BY <1>0, <2>0, <2>2, DoneStep, IdleFacts, IdleIsHonest DEF SnapDoes
    <2>3. CASE \E p \in req[r].todo : /\ Goto(r, [req[r] EXCEPT !.todo = @ \ {p}])
                                      /\ rows' = bulkUpsert(p, 1..req[r].today)
        <3>1. PICK p \in req[r].todo : /\ Goto(r, [req[r] EXCEPT !.todo = @ \ {p}])
                                       /\ rows' = bulkUpsert(p, 1..req[r].today)
            BY <2>3
        <3>2. PICK n : n = [req[r] EXCEPT !.todo = @ \ {p}]  OBVIOUS
        <3>3. n \in Backfills /\ n.op = "backfill"  BY <2>1, <3>2 DEF Backfills
        <3>4. Step(r, n) /\ n \in Requests  BY <3>1, <3>2, <3>3, GotoStep, KindsAreRequests
        <3>5. p \in Pids  BY <2>1, <3>1, Fields
        <3> DEFINE s == [d \in Days |-> IF d \in 1..req[r].today
                                        THEN [approx |-> TRUE, by |-> "estimate"] ELSE NoRow]
        <3>6. [approx |-> TRUE, by |-> "estimate"] \in Values /\ Flagged([approx |-> TRUE, by |-> "estimate"])
            BY DEF Values, Sources, Flagged
        <3>7. s \in Curves /\ \A d \in Days : Flagged(s[d])
            <4>1. \A d \in Days : s[d] = [approx |-> TRUE, by |-> "estimate"] \/ s[d] = NoRow
                OBVIOUS
            <4>2. s \in Curves  BY <3>6, NoRowFacts DEF Curves
            <4> HIDE DEF s
            <4> QED BY <3>6, <4>1, <4>2 DEF Flagged
        <3>8. rows' = UpsertApprox(p, s)  BY <3>1 DEF bulkUpsert
        <3> HIDE DEF s
        <3>9. \E h \in Curves : Written(p, h)  BY <3>5, <3>7, <3>8, UpsertApproxWrites
        <3> QED BY <1>0, <2>0, <3>3, <3>4, <3>5, <3>9 DEF SnapDoes, HonestRequest
    <2> QED BY <1>2, <2>2, <2>3 DEF BackfillRows
<1> QED BY <1>1, <1>2

LEMMA ReclassifyDoes ==
    ASSUME Types, Honest, NEW r \in Procs, ReclassifyRead(r) \/ ReclassifyMark(r)
    PROVE  SnapDoes(r)
<1>0. tokenDays \subseteq Days  BY DEF Types, SnapTypes
<1>1. CASE ReclassifyRead(r)
    <2>1. PICK p \in Pids : /\ rows[p] # NoRows
                            /\ Goto(r, [op |-> "reclassify", at |-> "mark", pid |-> p, oldest |-> runOldest(p)])
        BY <1>1 DEF ReclassifyRead
    <2>2. runOldest(p) \in Days  BY <2>1, runOldestIsADay
    <2>3. PICK n : n = [op |-> "reclassify", at |-> "mark", pid |-> p, oldest |-> runOldest(p)]
        OBVIOUS
    <2>4. n \in Marks /\ n.op = "reclassify"  BY <2>2, <2>3 DEF Marks
    <2>5. Step(r, n) /\ n \in Requests  BY <2>1, <2>3, <2>4, GotoStep, KindsAreRequests
    <2>6. UNCHANGED <<ops, portVars, snapVars>> /\ req[r] = Idle /\ "reclassify" \in ops
        BY <1>1 DEF ReclassifyRead
    <2> QED BY <1>0, <2>4, <2>5, <2>6, IdleFacts DEF SnapDoes, HonestRequest, snapVars
<1>2. CASE ReclassifyMark(r)
    <2>0. /\ UNCHANGED <<ops, portVars, today, up, tokenDays, job>> /\ Done(r)
          /\ req[r].op = "reclassify"
        BY <1>2 DEF ReclassifyMark, At
    <2>1. req[r] \in Marks  BY <2>0, TypeFacts
    <2>2. PICK p \in Pids : p = req[r].pid  BY <2>1, Fields
    <2>3. "reclassify" \in ops  BY <2>0 DEF Honest, HonestRequest
    <2> DEFINE h == [d \in Days |-> IF d < req[r].oldest /\ rows[p][d] # NoRow
                                    THEN [rows[p][d] EXCEPT !.approx = TRUE] ELSE rows[p][d]]
    <2>4. rows' = [rows EXCEPT ![p] = h]
        BY <1>2, <2>2 DEF ReclassifyMark, Types, SnapTypes
    <2>5. ASSUME NEW d \in Days
          PROVE  /\ h[d] \in Values
                 /\ \/ h[d] = rows[p][d]
                    \/ /\ rows[p][d] # NoRow
                       /\ h[d] # NoRow /\ h[d].approx /\ h[d].by = rows[p][d].by
        <3>1. rows[p][d] \in Values  BY RowFacts
        <3>2. CASE d < req[r].oldest /\ rows[p][d] # NoRow
            <4>1. h[d] = [rows[p][d] EXCEPT !.approx = TRUE]  BY <3>2
            <4> HIDE DEF h
            <4>2. h[d] \in Values /\ h[d].approx /\ h[d].by = rows[p][d].by
                BY <3>1, <4>1 DEF Values
            <4> QED BY <3>2, <4>2, NoRowFacts
        <3>3. CASE ~(d < req[r].oldest /\ rows[p][d] # NoRow)
            BY <3>1, <3>3
        <3> QED BY <3>2, <3>3
    <2>6. h \in Curves
        <3>1. h = [d \in Days |-> h[d]]  OBVIOUS
        <3> HIDE DEF h
        <3> QED BY <2>5, <3>1 DEF Curves
    <2> HIDE DEF h
    <2>7. PICK g \in Curves : g = h  BY <2>6
    <2>8. Written(p, g)  BY <2>3, <2>4, <2>5, <2>7 DEF Written
    <2> QED BY <1>0, <2>0, <2>8, DoneStep, IdleFacts, IdleIsHonest DEF SnapDoes
<1> QED BY <1>1, <1>2

LEMMA SideSteps ==
    ASSUME Types, Honest, History \/ Script
    PROVE  \E r \in Procs : SnapDoes(r)
BY HistoryStartDoes, buildConnectedValueHistoryDoes, HistoryWriteDoes, HistoryTodayDoes,
   ResyncTopUpDoes, BackfillDoes, ReclassifyDoes DEF History, Script

-----------------------------------------------------------------------------
(* What the job does *)

JobStep(j, n) == /\ job'[j] = n /\ job' \in [JobSlots -> {NoJob} \cup Runs]
                 /\ \A i \in JobSlots : i # j => job'[i] = job[i]

LEMMA JobGotoStep ==
    ASSUME Types, NEW j \in JobSlots, NEW n \in {NoJob} \cup Runs, JobGoto(j, n)
    PROVE  JobStep(j, n)
BY DEF Types, JobGoto, JobStep

LEMMA RunFacts ==
    ASSUME Types, NEW j \in JobSlots
    PROVE  /\ job[j] \in {NoJob} \cup Runs /\ (job[j].at = "idle" <=> job[j] = NoJob)
           /\ job[j].at # "idle" => job[j] \in Runs
           /\ Shaped(job[j])
<1>1. job[j] \in {NoJob} \cup Runs /\ Shaped(job[j])  BY DEF Types
<1>2. NoJob.at = "idle"  BY DEF NoJob
<1>3. \A k \in Runs : k.at # "idle"  BY DEF Runs
<1> QED BY <1>1, <1>2, <1>3

LEMMA OwnerFacts ==
    ASSUME NEW k \in Runs
    PROVE  /\ DOMAIN k.owner \subseteq Pids /\ \A p \in DOMAIN k.owner : k.owner[p] \in Users
           /\ k.at \in {"list", "loop", "write", "prune", "tokens"} /\ k.date \in Days
           /\ k.left \in SUBSET Pids /\ k.failed \in SUBSET Pids /\ k.cur \in 0..MaxPortfolios
           /\ k.memo \in [Users -> Plans \cup {NoPlan}] /\ k.owner \in Owners
<1>1. /\ k.owner \in Owners
      /\ k.at \in {"list", "loop", "write", "prune", "tokens"} /\ k.date \in Days
      /\ k.left \in SUBSET Pids /\ k.failed \in SUBSET Pids /\ k.cur \in 0..MaxPortfolios
      /\ k.memo \in [Users -> Plans \cup {NoPlan}]
    BY DEF Runs
<1>2. CASE k.owner = <<>>
    BY <1>1, <1>2
<1>3. CASE k.owner \in UNION {[S -> Users] : S \in SUBSET Pids}
    <2>1. PICK S \in SUBSET Pids : k.owner \in [S -> Users]  BY <1>3
    <2> QED BY <1>1, <2>1
<1> QED BY <1>1, <1>2, <1>3 DEF Owners

LEMMA JobListDoes ==
    ASSUME Types, NEW j \in JobSlots, JobList(j)
    PROVE  /\ UNCHANGED <<portfolioVars, today, up, rows, tokenDays>> /\ job[j] \in Runs
           /\ \E n \in Runs : /\ JobStep(j, n) /\ n.at = "loop" /\ Shaped(n)
                              /\ DOMAIN n.owner = n.left
                              /\ \A p \in n.left : port[p] # NoPortfolio
<1> DEFINE all == {p \in Pids : port[p] # NoPortfolio}
           own == [p \in all |-> port[p].user]
<1>1. /\ job[j].at = "list" /\ UNCHANGED <<portfolioVars, today, up, rows, tokenDays>>
      /\ JobGoto(j, [job[j] EXCEPT !.at = "loop", !.left = all, !.owner = own])
    BY DEF JobList
<1>2. job[j] \in Runs  BY <1>1, RunFacts
<1>3. own \in [all -> Users] /\ DOMAIN own = all /\ all \in SUBSET Pids
    <2>1. \A p \in all : port[p].user \in Users  BY DEF Types, PortTypes, Rows
    <2> QED BY <2>1
<1>4. \A p \in all : port[p] # NoPortfolio  OBVIOUS
<1> HIDE DEF all, own
<1>5. own \in Owners  BY <1>3 DEF Owners
<1>6. PICK c : c = job[j]  OBVIOUS
<1>7. PICK n : n = [c EXCEPT !.at = "loop", !.left = all, !.owner = own]  OBVIOUS
<1>8. n = [at |-> "loop", date |-> c.date, owner |-> own, left |-> all, failed |-> c.failed,
           cur |-> c.cur, memo |-> c.memo]
    BY <1>2, <1>6, <1>7 DEF Runs
<1>9. n \in Runs /\ n.at = "loop" /\ n.owner = own /\ n.left = all
    BY <1>2, <1>3, <1>5, <1>6, <1>8 DEF Runs
<1>10. JobStep(j, n)  BY <1>1, <1>6, <1>7, <1>9, JobGotoStep
<1>11. Shaped(n) /\ DOMAIN n.owner = n.left /\ \A p \in n.left : port[p] # NoPortfolio
    BY <1>3, <1>4, <1>9 DEF Shaped
<1> QED BY <1>1, <1>2, <1>9, <1>10, <1>11

\* A portfolio is taken up, and its owner's plan is known from then on.
LEMMA JobPlanDoes ==
    ASSUME Types, NEW j \in JobSlots, JobPlan(j)
    PROVE  /\ UNCHANGED <<portfolioVars, today, up, rows, tokenDays>>
           /\ job[j] \in Runs /\ job[j].at = "loop"
           /\ \E n \in Runs, p \in job[j].left :
                /\ JobStep(j, n) /\ n.owner = job[j].owner /\ n.date = job[j].date /\ Shaped(n)
                /\ n.left = job[j].left \ {p}
                /\ \/ /\ n.at = "loop" /\ n.failed = job[j].failed \cup {p} /\ n.memo = job[j].memo
                   \/ /\ n.failed = job[j].failed
                      /\ \A u \in Users : job[j].memo[u] # NoPlan => n.memo[u] = job[j].memo[u]
                      /\ \/ n.at = "loop" /\ n.memo[n.owner[p]] \notin {"pro", NoPlan}
                         \/ n.at = "write" /\ n.cur = p /\ n.memo[n.owner[p]] = "pro"
<1>1. job[j].at = "loop" /\ UNCHANGED <<portfolioVars, today, up, rows, tokenDays>>
    BY DEF JobPlan
<1>2. PICK c \in Runs : c = job[j]  BY <1>1, RunFacts
<1>3. PICK p \in c.left :
         LET u == c.owner[p]
             read == IF c.memo[u] = NoPlan THEN plan[u] ELSE c.memo[u]
             rest == [c EXCEPT !.left = @ \ {p}, !.memo[u] = read]
         IN \/ JobGoto(j, IF read = "pro" THEN [rest EXCEPT !.at = "write", !.cur = p] ELSE rest)
            \/ JobGoto(j, [c EXCEPT !.left = @ \ {p}, !.failed = @ \cup {p}])
    BY <1>2 DEF JobPlan
<1>4. c.left \subseteq DOMAIN c.owner /\ c.at = "loop"  BY <1>1, <1>2, RunFacts DEF Shaped
<1> DEFINE u == c.owner[p]
           read == IF c.memo[u] = NoPlan THEN plan[u] ELSE c.memo[u]
           rest == [c EXCEPT !.left = @ \ {p}, !.memo[u] = read]
<1>5. /\ u \in Users /\ c.left \in SUBSET Pids /\ c.failed \in SUBSET Pids /\ p \in Pids
      /\ c.memo \in [Users -> Plans \cup {NoPlan}] /\ c.owner \in Owners /\ c.date \in Days
      /\ c.cur \in 0..MaxPortfolios
    BY <1>4, OwnerFacts
<1>6. read \in Plans /\ (c.memo[u] # NoPlan => read = c.memo[u]) /\ NoPlan \notin Plans
    BY <1>5 DEF Types, PortTypes, Plans, NoPlan
<1>7. PICK memo \in [Users -> Plans \cup {NoPlan}] : memo = [c.memo EXCEPT ![u] = read]
    BY <1>5, <1>6
<1>8. memo[u] = read /\ \A v \in Users : c.memo[v] # NoPlan => memo[v] = c.memo[v]
    BY <1>5, <1>6, <1>7
<1>9. rest = [at |-> c.at, date |-> c.date, owner |-> c.owner, left |-> c.left \ {p},
              failed |-> c.failed, cur |-> c.cur, memo |-> memo]
    <2> HIDE DEF read, u
    <2>1. rest = [c EXCEPT !.left = c.left \ {p}, !.memo = memo]  BY <1>2, <1>7 DEF Runs
    <2> HIDE DEF rest
    <2> QED BY <1>2, <2>1 DEF Runs
<1>10. \/ JobGoto(j, [c EXCEPT !.left = @ \ {p}, !.failed = @ \cup {p}])
       \/ JobGoto(j, rest) /\ read # "pro"
       \/ JobGoto(j, [rest EXCEPT !.at = "write", !.cur = p]) /\ read = "pro"
    <2>1. \/ JobGoto(j, [c EXCEPT !.left = @ \ {p}, !.failed = @ \cup {p}])
          \/ JobGoto(j, IF read = "pro" THEN [rest EXCEPT !.at = "write", !.cur = p] ELSE rest)
        BY <1>3
    <2> HIDE DEF rest, read
    <2> QED BY <2>1
<1> HIDE DEF read, rest
<1>11. CASE JobGoto(j, [c EXCEPT !.left = @ \ {p}, !.failed = @ \cup {p}])
    <2>1. PICK n : n = [c EXCEPT !.left = @ \ {p}, !.failed = @ \cup {p}]  OBVIOUS
    <2>2. n = [at |-> c.at, date |-> c.date, owner |-> c.owner, left |-> c.left \ {p},
               failed |-> c.failed \cup {p}, cur |-> c.cur, memo |-> c.memo]
        BY <1>2, <2>1 DEF Runs
    <2>3. /\ n \in Runs /\ n.at = "loop" /\ n.date = c.date /\ n.owner = c.owner /\ n.memo = c.memo
          /\ n.left = c.left \ {p} /\ n.failed = c.failed \cup {p}
        BY <1>2, <1>4, <1>5, <2>2 DEF Runs
    <2>4. JobStep(j, n)  BY <1>11, <2>1, <2>3, JobGotoStep
    <2>5. Shaped(n)  BY <1>4, <2>3 DEF Shaped
    <2> QED BY <1>1, <1>2, <2>3, <2>4, <2>5
<1>12. CASE JobGoto(j, rest) /\ read # "pro"
    <2>1. PICK n : n = rest  OBVIOUS
    <2>2. /\ n \in Runs /\ n.at = "loop" /\ n.date = c.date /\ n.owner = c.owner /\ n.memo = memo
          /\ n.left = c.left \ {p} /\ n.failed = c.failed
        BY <1>2, <1>4, <1>5, <1>9, <2>1 DEF Runs
    <2>3. JobStep(j, n)  BY <1>12, <2>1, <2>2, JobGotoStep
    <2>4. Shaped(n)  BY <1>4, <2>2 DEF Shaped
    <2>5. n.memo[n.owner[p]] \notin {"pro", NoPlan}  BY <1>6, <1>8, <1>12, <2>2
    <2> QED BY <1>1, <1>2, <1>8, <2>2, <2>3, <2>4, <2>5
<1>13. CASE JobGoto(j, [rest EXCEPT !.at = "write", !.cur = p]) /\ read = "pro"
    <2>1. PICK i \in 0..MaxPortfolios : i = p  BY <1>5, PortfoliosAssumption DEF Pids
    <2>2. PICK n : n = [rest EXCEPT !.at = "write", !.cur = i]  OBVIOUS
    <2>3. n = [at |-> "write", date |-> c.date, owner |-> c.owner, left |-> c.left \ {p},
               failed |-> c.failed, cur |-> i, memo |-> memo]
        BY <1>9, <2>2
    <2>4. /\ n \in Runs /\ n.at = "write" /\ n.date = c.date /\ n.owner = c.owner /\ n.memo = memo
          /\ n.left = c.left \ {p} /\ n.failed = c.failed /\ n.cur = i
        BY <1>2, <1>5, <2>3 DEF Runs
    <2>5. JobStep(j, n)  BY <1>13, <2>1, <2>2, <2>4, JobGotoStep
    <2>6. Shaped(n)  BY <1>4, <2>1, <2>4 DEF Shaped
    <2>7. n.memo[n.owner[p]] = "pro" /\ n.cur = p  BY <1>8, <1>13, <2>1, <2>4
    <2> QED BY <1>1, <1>2, <1>8, <2>4, <2>5, <2>6, <2>7
<1> QED BY <1>11, <1>12, <1>13, <1>10

LEMMA JobWriteDoes ==
    ASSUME Types, NEW j \in JobSlots, JobWrite(j)
    PROVE  /\ UNCHANGED <<portfolioVars, today, up, tokenDays>>
           /\ job[j] \in Runs /\ job[j].at = "write" /\ job[j].cur \in Pids
           /\ \E n \in Runs :
                /\ JobStep(j, n) /\ n.at = "loop" /\ n.owner = job[j].owner /\ n.date = job[j].date
                /\ n.left = job[j].left /\ n.memo = job[j].memo /\ Shaped(n)
                /\ \/ n.failed = job[j].failed \cup {job[j].cur} /\ UNCHANGED rows
                   \/ /\ n.failed = job[j].failed
                      /\ rows' = Upsert(job[j].cur, job[j].date, "job")
<1>1. job[j].at = "write" /\ UNCHANGED <<portfolioVars, today, up, tokenDays>>
    BY DEF JobWrite
<1>2. PICK c \in Runs : c = job[j]  BY <1>1, RunFacts
<1>3. /\ c.at = "write" /\ c.left \subseteq DOMAIN c.owner /\ c.cur \in DOMAIN c.owner
      /\ c.cur \in Pids /\ c.failed \in SUBSET Pids
    BY <1>1, <1>2, RunFacts, OwnerFacts DEF Shaped
<1>4. CASE /\ rows' = Upsert(c.cur, c.date, "job")
           /\ JobGoto(j, [c EXCEPT !.at = "loop"])
    <2>1. PICK n : n = [c EXCEPT !.at = "loop"]  OBVIOUS
    <2>2. /\ n \in Runs /\ n.at = "loop" /\ n.owner = c.owner /\ n.date = c.date
          /\ n.left = c.left /\ n.memo = c.memo /\ n.failed = c.failed
        BY <1>2, <2>1 DEF Runs
    <2>3. JobStep(j, n)  BY <1>4, <2>1, <2>2, JobGotoStep
    <2>4. Shaped(n)  BY <1>3, <2>2 DEF Shaped
    <2> QED BY <1>1, <1>2, <1>3, <1>4, <2>2, <2>3, <2>4
<1>5. CASE /\ JobGoto(j, [c EXCEPT !.at = "loop", !.failed = @ \cup {c.cur}])
           /\ UNCHANGED rows
    <2>1. PICK n : n = [c EXCEPT !.at = "loop", !.failed = @ \cup {c.cur}]  OBVIOUS
    <2>2. PICK f \in SUBSET Pids : f = c.failed \cup {c.cur}  BY <1>3
    <2>3. n = [at |-> "loop", date |-> c.date, owner |-> c.owner, left |-> c.left,
               failed |-> f, cur |-> c.cur, memo |-> c.memo]
        BY <1>2, <2>1, <2>2 DEF Runs
    <2>4. /\ n \in Runs /\ n.at = "loop" /\ n.owner = c.owner /\ n.date = c.date
          /\ n.left = c.left /\ n.memo = c.memo /\ n.failed = f
        BY <1>2, <2>2, <2>3 DEF Runs
    <2>5. JobStep(j, n)  BY <1>5, <2>1, <2>4, JobGotoStep
    <2>6. Shaped(n)  BY <1>3, <2>4 DEF Shaped
    <2> QED BY <1>1, <1>2, <1>3, <1>5, <2>2, <2>4, <2>5, <2>6
<1> QED BY <1>2, <1>4, <1>5 DEF JobWrite, JobTo

LEMMA JobMoves ==
    ASSUME Types, NEW j \in JobSlots, job[j].at # "idle",
           NEW a \in {"prune", "tokens"}, JobTo(j, a), job[j].left = {}
    PROVE  \E n \in Runs :
              /\ JobStep(j, n) /\ n.at = a /\ n.owner = job[j].owner /\ n.date = job[j].date
              /\ n.left = {} /\ n.memo = job[j].memo /\ n.failed = job[j].failed /\ Shaped(n)
<1>1. PICK c \in Runs : c = job[j]  BY RunFacts
<1>2. PICK n : n = [c EXCEPT !.at = a]  OBVIOUS
<1>3. a \in {"list", "loop", "write", "prune", "tokens"}  OBVIOUS
<1>4. /\ n \in Runs /\ n.at = a /\ n.owner = c.owner /\ n.date = c.date
      /\ n.left = c.left /\ n.memo = c.memo /\ n.failed = c.failed
    BY <1>1, <1>2, <1>3 DEF Runs
<1>5. JobStep(j, n)  BY <1>1, <1>2, <1>4, JobGotoStep DEF JobTo
<1>6. Shaped(n)  BY <1>1, <1>4 DEF Shaped
<1> QED BY <1>1, <1>4, <1>5, <1>6

LEMMA JobLoopEndsDoes ==
    ASSUME Types, NEW j \in JobSlots, JobLoopEnds(j)
    PROVE  /\ UNCHANGED <<portfolioVars, today, up, rows, tokenDays>>
           /\ job[j] \in Runs /\ job[j].at = "loop" /\ job[j].left = {}
           /\ \E n \in Runs :
                /\ JobStep(j, n) /\ n.at = "prune" /\ n.owner = job[j].owner /\ n.date = job[j].date
                /\ n.left = {} /\ n.memo = job[j].memo /\ n.failed = job[j].failed /\ Shaped(n)
<1>1. /\ job[j].at = "loop" /\ job[j].left = {} /\ JobTo(j, "prune")
      /\ UNCHANGED <<portfolioVars, today, up, rows, tokenDays>>
    BY DEF JobLoopEnds
<1>2. job[j] \in Runs  BY <1>1, RunFacts
<1> QED BY <1>1, <1>2, JobMoves

\* What is pruned is older than the retention.
LEMMA JobPruneDoes ==
    ASSUME Types, NEW j \in JobSlots, JobPrune(j)
    PROVE  /\ UNCHANGED <<portfolioVars, today, up, tokenDays>>
           /\ job[j] \in Runs /\ job[j].at = "prune"
           /\ \E n \in Runs :
                /\ JobStep(j, n) /\ n.at = "tokens" /\ n.owner = job[j].owner /\ n.date = job[j].date
                /\ n.left = {} /\ n.memo = job[j].memo /\ n.failed = job[j].failed /\ Shaped(n)
           /\ rows' \in [Pids -> Curves]
           /\ \A p \in Pids, d \in Days : /\ rows'[p][d] = rows[p][d] \/ rows'[p][d] = NoRow
                                          /\ d >= today - Retention => rows'[p][d] = rows[p][d]
<1>1. /\ job[j].at = "prune" /\ JobTo(j, "tokens")
      /\ UNCHANGED <<portfolioVars, today, up, tokenDays>>
    BY DEF JobPrune
<1>2. job[j] \in Runs /\ job[j].left = {}  BY <1>1, RunFacts DEF Shaped
<1>3. PICK cutoff \in 0..Max({0, today - Retention}) :
         rows' = [p \in Pids |-> [d \in Days |-> IF d < cutoff THEN NoRow ELSE rows[p][d]]]
    BY DEF JobPrune
<1>4. today \in Int /\ Retention \in Nat /\ \A d \in Days : d \in Int /\ d >= 1
    BY SnapshotsAssumption DEF Types, SnapTypes, Days
<1>5. Max({0, today - Retention}) = IF today - Retention > 0 THEN today - Retention ELSE 0
    <2>1. \E x \in {0, today - Retention} : \A y \in {0, today - Retention} : x >= y  BY <1>4
    <2> DEFINE m == Max({0, today - Retention})
    <2>2. m \in {0, today - Retention} /\ \A y \in {0, today - Retention} : m >= y
        BY <2>1 DEF Max
    <2> HIDE DEF m
    <2> QED BY <1>4, <2>2 DEF m
<1>6. cutoff \in Int /\ (cutoff <= today - Retention \/ cutoff <= 0)
    <2> DEFINE m == Max({0, today - Retention})
    <2>1. cutoff \in 0..m /\ m = IF today - Retention > 0 THEN today - Retention ELSE 0  BY <1>5
    <2> HIDE DEF m
    <2> QED BY <1>4, <2>1
<1>7. \A p \in Pids, d \in Days : rows[p][d] \in Values  BY RowFacts
<1>8. rows' \in [Pids -> Curves]  BY <1>3, <1>7, NoRowFacts DEF Curves
<1>9. \A p \in Pids, d \in Days : rows'[p][d] = IF d < cutoff THEN NoRow ELSE rows[p][d]  BY <1>3
<1>10. \A d \in Days : d >= today - Retention => ~(d < cutoff)  BY <1>4, <1>6
<1>11. \A p \in Pids, d \in Days : /\ rows'[p][d] = rows[p][d] \/ rows'[p][d] = NoRow
                                   /\ d >= today - Retention => rows'[p][d] = rows[p][d]
    BY <1>9, <1>10
<1>12. \E n \in Runs :
         /\ JobStep(j, n) /\ n.at = "tokens" /\ n.owner = job[j].owner /\ n.date = job[j].date
         /\ n.left = {} /\ n.memo = job[j].memo /\ n.failed = job[j].failed /\ Shaped(n)
    BY <1>1, <1>2, JobMoves
<1> QED BY <1>1, <1>2, <1>8, <1>11, <1>12

LEMMA JobTokensDoes ==
    ASSUME Types, NEW j \in JobSlots, JobTokens(j)
    PROVE  /\ UNCHANGED <<portfolioVars, today, up, rows>> /\ tokenDays' \subseteq Days
           /\ JobStep(j, NoJob)
<1>1. /\ job[j].at = "tokens" /\ JobGoto(j, NoJob) /\ UNCHANGED <<portfolioVars, today, up, rows>>
      /\ tokenDays' \in {tokenDays, tokenDays \cup {job[j].date}}
    BY DEF JobTokens
<1>2. job[j].date \in Days  BY <1>1, RunFacts, OwnerFacts
<1>3. tokenDays' \subseteq Days  BY <1>1, <1>2 DEF Types, SnapTypes
<1> QED BY <1>1, <1>3, JobGotoStep

\* A run starts with nothing listed.
LEMMA StartedRun ==
    ASSUME Types, NEW d \in Days
    PROVE  \E n \in Runs : n = [Started EXCEPT !.date = d] /\ n.at = "list" /\ Shaped(n)
<1>1. PICK memo \in [Users -> Plans \cup {NoPlan}] : memo = [u \in Users |-> NoPlan]  OBVIOUS
<1>2. PICK i \in 0..MaxPortfolios : i = 0  BY PortfoliosAssumption
<1>3. PICK own \in Owners : own = <<>>  BY DEF Owners
<1>4. PICK none \in SUBSET Pids : none = {}  OBVIOUS
<1>5. PICK n : n = [at |-> "list", date |-> d, owner |-> own, left |-> none, failed |-> none,
                    cur |-> i, memo |-> memo]
    OBVIOUS
<1>6. n \in Runs /\ n.at = "list" /\ n.left = none  BY <1>5 DEF Runs
<1>7. n = [Started EXCEPT !.date = d]
    <2>1. Started = [at |-> "list", date |-> today, owner |-> own, left |-> none, failed |-> none,
                     cur |-> i, memo |-> memo]
        BY <1>1, <1>2, <1>3, <1>4, Zenon DEF Started
    <2> QED BY <1>5, <2>1
<1> QED BY <1>4, <1>6, <1>7 DEF Shaped

LEMMA MidnightDoes ==
    ASSUME Types, Midnight
    PROVE  /\ UNCHANGED <<portfolioVars, up, rows, tokenDays>> /\ today' \in Days /\ today' = today + 1
           /\ \/ UNCHANGED job
              \/ \E j \in JobSlots, n \in Runs : JobStep(j, n) /\ n.at = "list" /\ Shaped(n)
<1>1. /\ today < MaxDay /\ today' = today + 1 /\ UNCHANGED <<portfolioVars, up, rows, tokenDays>>
      /\ \/ UNCHANGED job
         \/ \E j \in JobSlots : JobGoto(j, [Started EXCEPT !.date = today + 1])
    BY DEF Midnight
<1>2. today + 1 \in Days  BY <1>1, SnapshotsAssumption DEF Types, SnapTypes, Days
<1>3. ASSUME NEW j \in JobSlots, JobGoto(j, [Started EXCEPT !.date = today + 1])
      PROVE  \E n \in Runs : JobStep(j, n) /\ n.at = "list" /\ Shaped(n)
    <2>1. PICK d \in Days : d = today + 1  BY <1>2
    <2>2. PICK n \in Runs : n = [Started EXCEPT !.date = d] /\ n.at = "list" /\ Shaped(n)
        BY StartedRun
    <2>3. JobStep(j, n)  BY <1>3, <2>1, <2>2, JobGotoStep
    <2> QED BY <2>2, <2>3
<1> QED BY <1>1, <1>2, <1>3

LEMMA BootDoes ==
    ASSUME Types, Boot
    PROVE  /\ UNCHANGED <<portfolioVars, today, rows, tokenDays>> /\ up' \in BOOLEAN
           /\ \/ UNCHANGED job
              \/ \E j \in JobSlots, n \in Runs : JobStep(j, n) /\ n.at = "list" /\ Shaped(n)
<1>1. /\ up' = TRUE /\ UNCHANGED <<portfolioVars, today, rows, tokenDays>>
      /\ UNCHANGED job \/ \E j \in JobSlots : JobGoto(j, Started)
    BY DEF Boot
<1>2. ASSUME NEW j \in JobSlots, JobGoto(j, Started)
      PROVE  \E n \in Runs : JobStep(j, n) /\ n.at = "list" /\ Shaped(n)
    <2>1. PICK d \in Days : d = today  BY DEF Types, SnapTypes
    <2>2. PICK n \in Runs : n = [Started EXCEPT !.date = d] /\ n.at = "list" /\ Shaped(n)
        BY StartedRun
    <2>3. n = Started  BY <2>1, <2>2 DEF Started
    <2>4. JobStep(j, n)  BY <1>2, <2>2, <2>3, JobGotoStep
    <2> QED BY <2>2, <2>4
<1> QED BY <1>1, <1>2

LEMMA CrashDoes ==
    ASSUME Types, Crash
    PROVE  /\ UNCHANGED <<ops, accounts, plan, port, nextId, streams, cooldown, raced, wasPro>>
           /\ UNCHANGED <<today, rows, tokenDays>> /\ up' \in BOOLEAN
           /\ job' \in [JobSlots -> {NoJob} \cup Runs] /\ \A j \in JobSlots : job'[j] = NoJob
           /\ req' \in [Procs -> Requests]
           /\ \A r \in Procs : \/ req'[r] = Idle
                               \/ req'[r] = req[r] /\ req[r].op \in Scripts
           /\ stray' = stray \cup {p \in Pids : \E r \in Procs :
                \/ At(r, "create", "streamId") /\ req[r].pid = p
                \/ At(r, "delete", "row") /\ req[r].pid = p /\ req[r].stream}
<1>1. /\ up' = FALSE /\ job' = [j \in JobSlots |-> NoJob] /\ RequestsDie
      /\ UNCHANGED <<today, rows, tokenDays>>
    BY DEF Crash
<1>2. req' = [r \in Procs |-> IF req[r].op \in Scripts THEN req[r] ELSE Idle]
    BY <1>1 DEF RequestsDie
<1>3. req' \in [Procs -> Requests]
    <2>1. \A r \in Procs : req[r] \in Requests  BY TypeFacts
    <2> QED BY <1>2, <2>1, IdleFacts
<1>4. \A r \in Procs : req'[r] = Idle \/ (req'[r] = req[r] /\ req[r].op \in Scripts)  BY <1>2
<1>5. job' \in [JobSlots -> {NoJob} \cup Runs] /\ \A j \in JobSlots : job'[j] = NoJob  BY <1>1
<1> QED BY <1>1, <1>3, <1>4, <1>5 DEF RequestsDie

-----------------------------------------------------------------------------
(* Types and Honest are kept *)

LEMMA StepKeeps ==
    ASSUME Types, Honest, ops' = ops, NEW r \in Procs, NEW n \in Requests, Step(r, n), Placed(n),
           HonestRequest(n)
    PROVE  /\ req' \in [Procs -> Requests] /\ \A q \in Procs : Placed(req'[q])
           /\ \A q \in Procs : HonestRequest(req[q])'
<1>1. req' \in [Procs -> Requests] /\ req'[r] = n /\ \A q \in Procs : q # r => req'[q] = req[q]
    BY DEF Step
<1>2. \A q \in Procs : Placed(req[q]) /\ HonestRequest(req[q])  BY DEF Types, Honest
<1>3. \A q \in Procs : Placed(req'[q])  BY <1>1, <1>2
<1>4. ASSUME NEW q \in Procs PROVE HonestRequest(req[q])'
    BY <1>1, <1>2 DEF HonestRequest
<1> QED BY <1>1, <1>3, <1>4

LEMMA WrotesKeeps ==
    ASSUME Types, Honest, ops' = ops, NEW r \in Procs, NEW n \in Requests, Wrotes(r, n), Placed(n),
           HonestRequest(n)
    PROVE  /\ req' \in [Procs -> Requests] /\ \A q \in Procs : Placed(req'[q])
           /\ \A q \in Procs : HonestRequest(req[q])'
<1>1. \A q \in Procs : Placed(req[q]) /\ HonestRequest(req[q])  BY DEF Types, Honest
<1>2. ASSUME NEW q \in Procs PROVE Placed(req'[q]) /\ HonestRequest(req[q])'
    <2>1. CASE q = r
        BY <2>1 DEF Wrotes, HonestRequest
    <2>2. CASE q # r /\ req'[q] = req[q]
        BY <1>1, <2>2 DEF HonestRequest
    <2>3. CASE /\ req[q] \in Creates /\ req'[q] \in Creates
               /\ req'[q].at = req[q].at /\ req'[q].pid = req[q].pid
        BY <1>1, <2>3, Fields DEF HonestRequest, Placed
    <2>4. CASE req'[q] \in Renames
        BY <2>4, Fields DEF HonestRequest, Placed
    <2> QED BY <2>1, <2>2, <2>3, <2>4 DEF Wrotes
<1> QED BY <1>2 DEF Wrotes

LEMMA PlainRequests ==
    /\ Placed(Idle) /\ HonestRequest(Idle)
    /\ \A n \in Renames : Placed(n) /\ HonestRequest(n)
    /\ \A n \in Deletes : Placed(n) /\ HonestRequest(n)
    /\ \A n \in Resyncs : Placed(n) /\ HonestRequest(n)
    /\ \A n \in Creates : HonestRequest(n)
BY Fields, IdleFacts DEF Placed, HonestRequest

\* What a request of Portfolios makes of port, by the kind of step.
LEMMA PortfolioRequests ==
    ASSUME Types, Honest, PortfolioStep
    PROVE  /\ PortTypes' /\ ops' = ops
           /\ req' \in [Procs -> Requests] /\ \A q \in Procs : Placed(req'[q])
           /\ \A q \in Procs : HonestRequest(req[q])'
<1> DEFINE Kept == /\ req' \in [Procs -> Requests] /\ \A q \in Procs : Placed(req'[q])
                   /\ \A q \in Procs : HonestRequest(req[q])'
<1>0. PortTypes  BY DEF Types
<1>1. ASSUME NEW r \in Procs, CreateCount(r)
      PROVE  PortTypes' /\ ops' = ops /\ Kept
    <2>1. PICK n \in Creates : Step(r, n) /\ n.at = "slug"  BY <1>1, CreateCountDoes
    <2>2. UNCHANGED <<ops, portVars>>  BY <1>1, CreateCountDoes
    <2>3. Placed(n)  BY <2>1 DEF Placed
    <2>4. Kept  BY <2>1, <2>2, <2>3, StepKeeps, PlainRequests, KindsAreRequests
    <2> QED BY <1>0, <2>2, <2>4 DEF PortTypes, portVars
<1>2. ASSUME NEW r \in Procs, CreateSlug(r)
      PROVE  PortTypes' /\ ops' = ops /\ Kept
    <2>1. PICK n \in Requests : Step(r, n) /\ (n = Idle \/ (n \in Creates /\ n.at \in {"wallet", "row"}))
        BY <1>2, CreateSlugDoes, KindsAreRequests
    <2>2. UNCHANGED <<ops, portVars>>  BY <1>2, CreateSlugDoes
    <2>3. Placed(n) /\ HonestRequest(n)  BY <2>1, PlainRequests DEF Placed
    <2>4. Kept  BY <2>1, <2>2, <2>3, StepKeeps
    <2> QED BY <1>0, <2>2, <2>4 DEF PortTypes, portVars
<1>3. ASSUME NEW r \in Procs, CreateWallet(r)
      PROVE  PortTypes' /\ ops' = ops /\ Kept
    <2>1. PICK n \in Requests : Step(r, n) /\ (n = Idle \/ (n \in Creates /\ n.at \in {"wallet", "row"}))
        BY <1>3, CreateWalletDoes, KindsAreRequests
    <2>2. UNCHANGED <<ops, portVars>>  BY <1>3, CreateWalletDoes
    <2>3. Placed(n) /\ HonestRequest(n)  BY <2>1, PlainRequests DEF Placed
    <2>4. Kept  BY <2>1, <2>2, <2>3, StepKeeps
    <2> QED BY <1>0, <2>2, <2>4 DEF PortTypes, portVars
<1>4. ASSUME NEW r \in Procs, createPortfolioRow(r)
      PROVE  PortTypes' /\ ops' = ops /\ Kept
    <2>0. UNCHANGED <<ops, accounts, plan, streams, cooldown, wasPro, stray>> /\ req[r] \in Creates
        BY <1>4, createPortfolioRowDoes
    <2>1. CASE Step(r, Idle) /\ UNCHANGED <<port, nextId, raced>>
        <3>1. Kept  BY <2>0, <2>1, StepKeeps, PlainRequests, IdleFacts
        <3> QED BY <1>0, <2>0, <2>1, <3>1 DEF PortTypes
    <2>2. CASE ~(Step(r, Idle) /\ UNCHANGED <<port, nextId, raced>>)
        <3>1. /\ nextId \in Pids /\ nextId' = nextId + 1
              /\ raced' = IF req[r].stale THEN raced \cup {req[r].user} ELSE raced
            BY <1>4, <2>2, createPortfolioRowDoes
        <3>2. PICK row \in Rows : port' = [port EXCEPT ![nextId] = row]
            BY <1>4, <2>2, createPortfolioRowDoes
        <3>3. PICK n \in Requests : /\ Wrotes(r, n)
                                    /\ n = Idle \/ (n \in Creates /\ n.at = "stream" /\ n.pid = nextId)
            BY <1>4, <2>2, createPortfolioRowDoes
        <3>4. Placed(n) /\ HonestRequest(n)  BY <3>1, <3>3, PlainRequests DEF Placed
        <3>5. Kept  BY <2>0, <3>3, <3>4, WrotesKeeps
        <3>6. port' \in [Pids -> Rows \cup {NoPortfolio}]  BY <1>0, <3>1, <3>2 DEF PortTypes
        <3>7. nextId' \in 1..(MaxPortfolios + 1)
            BY <3>1, PortfoliosAssumption DEF Pids
        <3>8. raced' \subseteq Users  BY <1>0, <2>0, <3>1, Fields DEF PortTypes
        <3> QED BY <1>0, <2>0, <3>5, <3>6, <3>7, <3>8 DEF PortTypes
    <2> QED BY <2>1, <2>2
<1>5. ASSUME NEW r \in Procs, createStream(r)
      PROVE  PortTypes' /\ ops' = ops /\ Kept
    <2>0. /\ UNCHANGED <<ops, accounts, plan, port, nextId, cooldown, raced, wasPro>>
          /\ req[r] \in Creates /\ req[r].at = "stream"
        BY <1>5, createStreamDoes
    <2>1. req[r].pid \in Pids  BY <2>0, Fields DEF Types, Placed
    <2>2. PICK n \in Creates : Step(r, n) /\ n.pid = req[r].pid
        BY <1>5, createStreamDoes
    <2>3. /\ streams' \in {streams, streams \cup {req[r].pid}}
          /\ stray' \in {stray, stray \cup {req[r].pid}}
        BY <1>5, createStreamDoes
    <2>4. Placed(n)  BY <2>1, <2>2 DEF Placed
    <2>5. Kept  BY <2>0, <2>2, <2>4, StepKeeps, PlainRequests, KindsAreRequests
    <2> QED BY <1>0, <2>0, <2>1, <2>3, <2>5 DEF PortTypes
<1>6. ASSUME NEW r \in Procs, CreateStreamId(r)
      PROVE  PortTypes' /\ ops' = ops /\ Kept
    <2>0. /\ UNCHANGED <<ops, accounts, plan, nextId, streams, cooldown, raced, wasPro>>
          /\ req[r] \in Creates /\ req[r].at = "streamId"
        BY <1>6, CreateStreamIdDoes
    <2>1. PICK i \in Pids : i = req[r].pid  BY <2>0, Fields DEF Types, Placed
    <2>2. PICK n \in Creates : Step(r, n) /\ n.pid = req[r].pid
        BY <1>6, CreateStreamIdDoes
    <2>3. Placed(n)  BY <2>1, <2>2 DEF Placed
    <2>4. Kept  BY <2>0, <2>2, <2>3, StepKeeps, PlainRequests, KindsAreRequests
    <2>5. CASE port[i] # NoPortfolio /\ stray' = stray /\ port' = [port EXCEPT ![i].stream = TRUE]
        <3>1. port[i] \in Rows  BY <1>0, <2>5 DEF PortTypes
        <3>2. [port[i] EXCEPT !.stream = TRUE] \in Rows  BY <3>1 DEF Rows
        <3>3. port' \in [Pids -> Rows \cup {NoPortfolio}]  BY <1>0, <2>5, <3>2 DEF PortTypes
        <3> QED BY <1>0, <2>0, <2>4, <2>5, <3>3 DEF PortTypes
    <2>6. CASE stray' = stray \cup {i} /\ UNCHANGED port
        BY <1>0, <2>0, <2>1, <2>4, <2>6 DEF PortTypes
    <2> QED BY <1>6, <2>1, <2>5, <2>6, CreateStreamIdDoes
<1>7. ASSUME NEW r \in Procs, RenameRead(r) \/ RenameSlug(r)
      PROVE  PortTypes' /\ ops' = ops /\ Kept
    <2>1. PICK n \in Requests : Step(r, n) /\ (n = Idle \/ n \in Renames)
        BY <1>7, RenameReadDoes, RenameSlugDoes, KindsAreRequests
    <2>2. UNCHANGED <<ops, portVars>>  BY <1>7, RenameReadDoes, RenameSlugDoes
    <2>3. Placed(n) /\ HonestRequest(n)  BY <2>1, PlainRequests
    <2>4. Kept  BY <2>1, <2>2, <2>3, StepKeeps
    <2> QED BY <1>0, <2>2, <2>4 DEF PortTypes, portVars
<1>8. ASSUME NEW r \in Procs, updatePortfolioName(r)
      PROVE  PortTypes' /\ ops' = ops /\ Kept
    <2>0. /\ UNCHANGED <<ops, accounts, plan, nextId, streams, cooldown, wasPro, stray>>
          /\ req[r] \in Renames
        BY <1>8, updatePortfolioNameDoes
    <2>1. CASE Step(r, Idle) /\ UNCHANGED <<port, raced>>
        <3>1. Kept  BY <2>0, <2>1, StepKeeps, PlainRequests, IdleFacts
        <3> QED BY <1>0, <2>0, <2>1, <3>1 DEF PortTypes
    <2>2. CASE ~(Step(r, Idle) /\ UNCHANGED <<port, raced>>)
        <3>1. /\ port[req[r].pid] # NoPortfolio /\ Wrotes(r, Idle)
              /\ port' = [port EXCEPT ![req[r].pid].name = req[r].name]
              /\ raced' = IF req[r].stale THEN raced \cup {req[r].user} ELSE raced
            BY <1>8, <2>2, updatePortfolioNameDoes
        <3>2. Kept  BY <2>0, <3>1, WrotesKeeps, PlainRequests, IdleFacts
        <3>3. PICK i \in Pids, m \in Names : i = req[r].pid /\ m = req[r].name  BY <2>0, Fields
        <3>4. port[i] \in Rows  BY <1>0, <3>1, <3>3 DEF PortTypes
        <3>5. [port[i] EXCEPT !.name = m] \in Rows  BY <3>4 DEF Rows
        <3>6. port' = [port EXCEPT ![i].name = m]  BY <3>1, <3>3
        <3>7. port' \in [Pids -> Rows \cup {NoPortfolio}]  BY <1>0, <3>5, <3>6 DEF PortTypes
        <3>8. raced' \subseteq Users  BY <1>0, <2>0, <3>1, Fields DEF PortTypes
        <3> QED BY <1>0, <2>0, <3>2, <3>7, <3>8 DEF PortTypes
    <2> QED BY <2>1, <2>2
<1>9. ASSUME NEW r \in Procs, DeleteRead(r)
      PROVE  PortTypes' /\ ops' = ops /\ Kept
    <2>1. PICK n \in Deletes : Step(r, n)  BY <1>9, DeleteReadDoes
    <2>2. UNCHANGED <<ops, portVars>>  BY <1>9, DeleteReadDoes
    <2>4. Kept  BY <2>1, <2>2, StepKeeps, PlainRequests, KindsAreRequests
    <2> QED BY <1>0, <2>2, <2>4 DEF PortTypes, portVars
<1>10. ASSUME NEW r \in Procs, deleteStream(r)
      PROVE  PortTypes' /\ ops' = ops /\ Kept
    <2>0. /\ UNCHANGED <<ops, accounts, plan, port, nextId, cooldown, raced, wasPro>>
          /\ req[r] \in Deletes
        BY <1>10, deleteStreamDoes
    <2>1. PICK n \in Deletes : Step(r, n)  BY <1>10, deleteStreamDoes
    <2>2. /\ req[r].pid \in Pids
          /\ streams' \in {streams, streams \ {req[r].pid}} /\ stray' \in {stray, stray \cup {req[r].pid}}
        BY <1>10, <2>0, deleteStreamDoes, Fields
    <2>3. Kept  BY <2>0, <2>1, StepKeeps, PlainRequests, KindsAreRequests
    <2> QED BY <1>0, <2>0, <2>2, <2>3 DEF PortTypes
<1>11. ASSUME NEW r \in Procs, deletePortfolio(r)
      PROVE  PortTypes' /\ ops' = ops /\ Kept
    <2>0. /\ UNCHANGED <<ops, accounts, plan, nextId, streams, cooldown, raced, wasPro>>
          /\ req[r] \in Deletes /\ Step(r, Idle)
        BY <1>11, deletePortfolioDoes
    <2>1. PICK i \in Pids : i = req[r].pid  BY <2>0, Fields
    <2>2. /\ port' \in {port, [port EXCEPT ![i] = NoPortfolio]}
          /\ stray' \in {stray, stray \cup {i}}
        BY <1>11, <2>1, deletePortfolioDoes
    <2>3. port' \in [Pids -> Rows \cup {NoPortfolio}]  BY <1>0, <2>2 DEF PortTypes
    <2>4. Kept  BY <2>0, StepKeeps, PlainRequests, IdleFacts
    <2> QED BY <1>0, <2>0, <2>1, <2>2, <2>3, <2>4 DEF PortTypes
<1>12. ASSUME NEW r \in Procs, ResyncGate(r) \/ ResyncArm(r)
      PROVE  PortTypes' /\ ops' = ops /\ Kept
    <2>0. /\ UNCHANGED <<ops, accounts, plan, port, nextId, streams, raced, wasPro, stray>>
          /\ cooldown' \in SUBSET Pids
        BY <1>12, ResyncsDo
    <2>1. PICK n \in Requests : Step(r, n) /\ (n = Idle \/ n \in Resyncs)
        BY <1>12, ResyncsDo, KindsAreRequests
    <2>2. Kept  BY <2>0, <2>1, StepKeeps, PlainRequests
    <2> QED BY <1>0, <2>0, <2>2 DEF PortTypes
<1>13. ASSUME NEW u \in Users, deleteMe(u)
      PROVE  PortTypes' /\ ops' = ops /\ Kept
    <2>1. /\ accounts' = accounts \ {u} /\ plan' = [plan EXCEPT ![u] = "free"]
          /\ port' = [p \in Pids |-> IF p \in Of(u) THEN NoPortfolio ELSE port[p]]
          /\ stray' = stray \cup {p \in Of(u) : port[p].stream}
          /\ UNCHANGED <<ops, req, nextId, streams, cooldown, raced, wasPro>>
        BY <1>13 DEF deleteMe
    <2>2. Kept  BY <2>1 DEF Types, Honest, HonestRequest
    <2>3. plan' \in [Users -> Plans] /\ stray' \subseteq Pids
        BY <1>0, <2>1 DEF PortTypes, Plans, Of
    <2>4. port' \in [Pids -> Rows \cup {NoPortfolio}]  BY <1>0, <2>1 DEF PortTypes
    <2> QED BY <1>0, <2>1, <2>2, <2>3, <2>4 DEF PortTypes
<1>14. ASSUME NEW u \in Users, PlanChanges(u)
      PROVE  PortTypes' /\ ops' = ops /\ Kept
    <2>1. /\ plan' = [plan EXCEPT ![u] = IF @ = "free" THEN "pro" ELSE "free"]
          /\ wasPro' = wasPro \cup {u}
          /\ UNCHANGED <<ops, req, accounts, port, nextId, streams, cooldown, raced, stray>>
        BY <1>14 DEF PlanChanges
    <2>2. Kept  BY <2>1 DEF Types, Honest, HonestRequest
    <2>3. plan' \in [Users -> Plans]  BY <1>0, <2>1 DEF PortTypes, Plans
    <2> QED BY <1>0, <2>1, <2>2, <2>3 DEF PortTypes
<1>15. ASSUME NEW p \in Pids, CooldownEnds(p)
      PROVE  PortTypes' /\ ops' = ops /\ Kept
    <2>1. /\ cooldown' = cooldown \ {p}
          /\ UNCHANGED <<ops, req, accounts, plan, port, nextId, streams, raced, wasPro, stray>>
        BY <1>15 DEF CooldownEnds
    <2>2. Kept  BY <2>1 DEF Types, Honest, HonestRequest
    <2> QED BY <1>0, <2>1, <2>2 DEF PortTypes
<1> HIDE DEF Kept
<1>16. PortTypes' /\ ops' = ops /\ Kept
    BY <1>1, <1>2, <1>3, <1>4, <1>5, <1>6, <1>7, <1>8, <1>9, <1>10, <1>11, <1>12, <1>13, <1>14, <1>15
    DEF PortfolioStep
<1> QED BY <1>16 DEF Kept

\* A written curve keeps the table's type and its honesty.
LEMMA WrittenKeeps ==
    ASSUME Types, Honest, UNCHANGED rows \/ \E p \in Pids, h \in Curves : Written(p, h)
    PROVE  rows' \in [Pids -> Curves] /\ \A p \in Pids, d \in Days : Flagged(rows'[p][d])
<1>1. rows \in [Pids -> Curves] /\ \A p \in Pids, d \in Days : Flagged(rows[p][d])
    BY DEF Types, SnapTypes, Honest
<1>2. CASE UNCHANGED rows
    BY <1>1, <1>2
<1>3. CASE \E p \in Pids, h \in Curves : Written(p, h)
    <2>1. PICK p \in Pids, h \in Curves : Written(p, h)  BY <1>3
    <2>2. rows' = [rows EXCEPT ![p] = h]  BY <2>1 DEF Written
    <2>3. \A d \in Days : Flagged(h[d])
        <3> TAKE d \in Days
        <3>1. \/ h[d] = rows[p][d]
              \/ h[d].by \in {"job", "observed", "priced"}
              \/ Flagged(h[d])
              \/ h[d].approx
            BY <2>1 DEF Written
        <3> QED BY <1>1, <3>1 DEF Flagged
    <2>4. rows' \in [Pids -> Curves]  BY <1>1, <2>2
    <2>5. \A q \in Pids : rows'[q] = IF q = p THEN h ELSE rows[q]  BY <1>1, <2>2
    <2> QED BY <1>1, <2>3, <2>4, <2>5
<1> QED BY <1>2, <1>3

LEMMA JobKeeps ==
    ASSUME Types, NEW j \in JobSlots, NEW n \in {NoJob} \cup Runs, JobStep(j, n), Shaped(n)
    PROVE  job' \in [JobSlots -> {NoJob} \cup Runs] /\ \A i \in JobSlots : Shaped(job'[i])
BY DEF Types, JobStep

LEMMA Next_Types ==
    ASSUME Types, Honest, [Next]_vars
    PROVE  Types' /\ Honest'
<1>0. /\ PortTypes /\ SnapTypes /\ req \in [Procs -> Requests] /\ (\A r \in Procs : Placed(req[r]))
      /\ job \in [JobSlots -> {NoJob} \cup Runs] /\ (\A j \in JobSlots : Shaped(job[j]))
      /\ (\A p \in Pids, d \in Days : Flagged(rows[p][d])) /\ \A r \in Procs : HonestRequest(req[r])
    BY DEF Types, Honest
<1>1. NoJob \in {NoJob} \cup Runs /\ Shaped(NoJob)  BY DEF NoJob, Shaped
<1>2. ASSUME UNCHANGED portfolioVars, SnapTypes',
             job' \in [JobSlots -> {NoJob} \cup Runs], \A j \in JobSlots : Shaped(job'[j]),
             \A p \in Pids, d \in Days : Flagged(rows'[p][d])
      PROVE  Types' /\ Honest'
    <2>1. UNCHANGED <<ops, req, accounts, plan, port, nextId, streams, cooldown, raced, wasPro, stray>>
        BY <1>2 DEF portfolioVars, portVars
    <2>2. PortTypes'  BY <1>0, <2>1 DEF PortTypes
    <2>3. \A r \in Procs : HonestRequest(req[r])'  BY <1>0, <2>1 DEF HonestRequest
    <2>4. \A r \in Procs : Placed(req'[r])  BY <1>0, <2>1
    <2>5. Types'  BY <1>0, <1>2, <2>1, <2>2, <2>4 DEF Types
    <2>6. Honest'  BY <1>2, <2>3 DEF Honest
    <2> QED BY <2>5, <2>6
<1>3. CASE UNCHANGED vars
    <2>1. UNCHANGED portfolioVars /\ UNCHANGED <<today, up, rows, tokenDays, job>>
        BY <1>3 DEF vars, snapVars
    <2>2. SnapTypes'  BY <1>0, <2>1 DEF SnapTypes
    <2>3. /\ job' \in [JobSlots -> {NoJob} \cup Runs] /\ (\A j \in JobSlots : Shaped(job'[j]))
          /\ \A p \in Pids, d \in Days : Flagged(rows'[p][d])
        BY <1>0, <2>1
    <2> QED BY <1>2, <2>1, <2>2, <2>3
<1>4. CASE Portfolio
    <2>1. /\ PortfolioStep /\ UNCHANGED <<today, up, tokenDays, job>>
          /\ rows' = [p \in Pids |-> IF port'[p] = NoPortfolio THEN NoRows ELSE rows[p]]
        BY <1>4 DEF Portfolio
    <2>2. /\ PortTypes' /\ ops' = ops
          /\ req' \in [Procs -> Requests] /\ \A q \in Procs : Placed(req'[q])
          /\ \A q \in Procs : HonestRequest(req[q])'
        BY <2>1, PortfolioRequests
    <2>3. rows' \in [Pids -> Curves]  BY <1>0, <2>1, NoRowFacts DEF SnapTypes
    <2>4. \A p \in Pids, d \in Days : Flagged(rows'[p][d])
        <3>1. \A p \in Pids : rows'[p] = NoRows \/ rows'[p] = rows[p]  BY <2>1
        <3> QED BY <1>0, <3>1, NoRowFacts DEF Flagged
    <2>5. SnapTypes'  BY <1>0, <2>1, <2>3 DEF SnapTypes
    <2>6. Types'  BY <1>0, <2>1, <2>2, <2>5 DEF Types
    <2> QED BY <2>2, <2>4, <2>6 DEF Honest
<1>5. CASE Job
    <2>1. PICK j \in JobSlots : \/ JobList(j) \/ JobPlan(j) \/ JobWrite(j) \/ JobLoopEnds(j)
                                \/ JobPrune(j) \/ JobTokens(j)
        BY <1>5 DEF Job
    <2>2. CASE JobList(j) \/ JobPlan(j) \/ JobLoopEnds(j)
        <3>1. UNCHANGED <<portfolioVars, today, up, rows, tokenDays>>
            BY <2>2, JobListDoes, JobPlanDoes, JobLoopEndsDoes
        <3>2. PICK n \in Runs : JobStep(j, n) /\ Shaped(n)
            BY <2>2, JobListDoes, JobPlanDoes, JobLoopEndsDoes
        <3>3. SnapTypes'  BY <1>0, <3>1 DEF SnapTypes
        <3>4. \A p \in Pids, d \in Days : Flagged(rows'[p][d])  BY <1>0, <3>1
        <3> QED BY <1>2, <3>1, <3>2, <3>3, <3>4, JobKeeps
    <2>3. CASE JobWrite(j)
        <3>1. UNCHANGED <<portfolioVars, today, up, tokenDays>> /\ job[j] \in Runs /\ job[j].cur \in Pids
            BY <2>3, JobWriteDoes
        <3>2. PICK n \in Runs : /\ JobStep(j, n) /\ Shaped(n)
                                /\ UNCHANGED rows \/ rows' = Upsert(job[j].cur, job[j].date, "job")
            BY <2>3, JobWriteDoes
        <3>3. job[j].date \in Days  BY <3>1, OwnerFacts
        <3>4. UNCHANGED rows \/ \E p \in Pids, h \in Curves : Written(p, h)
            BY <3>1, <3>2, <3>3, UpsertWrites
        <3>5. rows' \in [Pids -> Curves] /\ \A p \in Pids, d \in Days : Flagged(rows'[p][d])
            BY <3>4, WrittenKeeps
        <3>6. SnapTypes'  BY <1>0, <3>1, <3>5 DEF SnapTypes
        <3> QED BY <1>2, <3>1, <3>2, <3>5, <3>6, JobKeeps
    <2>4. CASE JobPrune(j)
        <3>1. /\ UNCHANGED <<portfolioVars, today, up, tokenDays>> /\ rows' \in [Pids -> Curves]
              /\ \A p \in Pids, d \in Days : rows'[p][d] = rows[p][d] \/ rows'[p][d] = NoRow
            BY <2>4, JobPruneDoes
        <3>2. PICK n \in Runs : JobStep(j, n) /\ Shaped(n)  BY <2>4, JobPruneDoes
        <3>3. SnapTypes'  BY <1>0, <3>1 DEF SnapTypes
        <3>4. \A p \in Pids, d \in Days : Flagged(rows'[p][d])
            <4> TAKE p \in Pids, d \in Days
            <4>1. CASE rows'[p][d] = rows[p][d]  BY <1>0, <4>1
            <4>2. CASE rows'[p][d] = NoRow  BY <4>2 DEF Flagged
            <4> QED BY <3>1, <4>1, <4>2
        <3> QED BY <1>2, <3>1, <3>2, <3>3, <3>4, JobKeeps
    <2>5. CASE JobTokens(j)
        <3>1. /\ UNCHANGED <<portfolioVars, today, up, rows>> /\ tokenDays' \subseteq Days
              /\ JobStep(j, NoJob)
            BY <2>5, JobTokensDoes
        <3>2. SnapTypes'  BY <1>0, <3>1 DEF SnapTypes
        <3>3. \A p \in Pids, d \in Days : Flagged(rows'[p][d])  BY <1>0, <3>1
        <3>4. job' \in [JobSlots -> {NoJob} \cup Runs] /\ \A i \in JobSlots : Shaped(job'[i])
            BY <1>1, <3>1, JobKeeps
        <3> QED BY <1>2, <3>1, <3>2, <3>3, <3>4
    <2> QED BY <2>1, <2>2, <2>3, <2>4, <2>5
<1>6. CASE Midnight \/ Boot
    <2>1. UNCHANGED <<portfolioVars, rows, tokenDays>> /\ today' \in Days /\ up' \in BOOLEAN
        BY <1>0, <1>6, MidnightDoes, BootDoes DEF SnapTypes
    <2>2. UNCHANGED job \/ \E j \in JobSlots, n \in Runs : JobStep(j, n) /\ Shaped(n)
        BY <1>6, MidnightDoes, BootDoes
    <2>3. job' \in [JobSlots -> {NoJob} \cup Runs] /\ \A i \in JobSlots : Shaped(job'[i])
        BY <1>0, <2>2, JobKeeps
    <2>4. SnapTypes'  BY <1>0, <2>1 DEF SnapTypes
    <2>5. \A p \in Pids, d \in Days : Flagged(rows'[p][d])  BY <1>0, <2>1
    <2> QED BY <1>2, <2>1, <2>3, <2>4, <2>5
<1>7. CASE Crash
    <2>1. /\ UNCHANGED <<ops, accounts, plan, port, nextId, streams, cooldown, raced, wasPro>>
          /\ UNCHANGED <<today, rows, tokenDays>> /\ up' \in BOOLEAN
          /\ job' \in [JobSlots -> {NoJob} \cup Runs] /\ \A j \in JobSlots : job'[j] = NoJob
          /\ req' \in [Procs -> Requests]
          /\ \A r \in Procs : req'[r] = Idle \/ req'[r] = req[r]
        BY <1>7, CrashDoes
    <2>2. stray' \subseteq Pids  BY <1>0, <1>7, CrashDoes DEF PortTypes
    <2>3. PortTypes' /\ SnapTypes'  BY <1>0, <2>1, <2>2 DEF PortTypes, SnapTypes
    <2>4. \A r \in Procs : Placed(req'[r])  BY <1>0, <2>1, PlainRequests
    <2>5. ASSUME NEW r \in Procs PROVE HonestRequest(req[r])'
        BY <1>0, <2>1, PlainRequests DEF HonestRequest
    <2>6. Types'  BY <1>1, <2>1, <2>3, <2>4 DEF Types
    <2>7. \A p \in Pids, d \in Days : Flagged(rows'[p][d])  BY <1>0, <2>1
    <2> QED BY <2>5, <2>6, <2>7 DEF Honest
<1>8. CASE History \/ Script
    <2>1. PICK r \in Procs : SnapDoes(r)  BY <1>8, SideSteps
    <2>2. UNCHANGED <<ops, portVars, today, up, job>> /\ tokenDays' \subseteq Days  BY <2>1 DEF SnapDoes
    <2>3. PICK n \in Requests : /\ Step(r, n) /\ n.op \notin {"create", "rename", "delete"}
                                /\ HonestRequest(n)
        BY <2>1 DEF SnapDoes
    <2>4. Placed(n)  BY <2>3 DEF Placed
    <2>5. /\ req' \in [Procs -> Requests] /\ \A q \in Procs : Placed(req'[q])
          /\ \A q \in Procs : HonestRequest(req[q])'
        BY <2>2, <2>3, <2>4, StepKeeps
    <2>6. rows' \in [Pids -> Curves] /\ \A p \in Pids, d \in Days : Flagged(rows'[p][d])
        BY <2>1, WrittenKeeps DEF SnapDoes
    <2>7. PortTypes' /\ SnapTypes'
        BY <1>0, <2>2, <2>6 DEF PortTypes, SnapTypes, portVars
    <2>8. Types'  BY <1>0, <2>2, <2>5, <2>7 DEF Types
    <2> QED BY <2>5, <2>6, <2>8 DEF Honest
<1> QED BY <1>3, <1>4, <1>5, <1>6, <1>7, <1>8 DEF Next

LEMMA Init_Types ==
    ASSUME Init
    PROVE  Types /\ Honest
<1>0. /\ \A r \in Procs : req[r] = Idle
      /\ \A p \in Pids : rows[p] = NoRows
      /\ \A j \in JobSlots : job[j] = NoJob
    BY DEF Init, PortfoliosInit
<1>1. PortTypes
    <2>1. port \in [Pids -> Rows \cup {NoPortfolio}]  BY DEF Init, PortfoliosInit
    <2>2. nextId \in 1..(MaxPortfolios + 1)  BY PortfoliosAssumption DEF Init, PortfoliosInit
    <2> QED BY <2>1, <2>2 DEF Init, PortfoliosInit, PortTypes
<1>2. SnapTypes
    <2>1. rows \in [Pids -> Curves]  BY NoRowFacts DEF Init
    <2> QED BY <2>1, SnapshotsAssumption DEF Init, SnapTypes
<1>3. req \in [Procs -> Requests] /\ \A r \in Procs : Placed(req[r])
    BY <1>0, IdleFacts, PlainRequests DEF Init, PortfoliosInit
<1>4. job \in [JobSlots -> {NoJob} \cup Runs] /\ \A j \in JobSlots : Shaped(job[j])
    BY <1>0 DEF Init, NoJob, Shaped
<1>5. Honest
    BY <1>0, NoRowFacts, PlainRequests DEF Honest, Flagged
<1> QED BY <1>1, <1>2, <1>3, <1>4, <1>5 DEF Types

-----------------------------------------------------------------------------
(* Honest is enough for the baseline and for what is kept of real rows *)

LEMMA BaselineStep ==
    ASSUME Types, Honest
    PROVE  BaselineIsReal
<1> SUFFICES ASSUME NEW p \in Pids, NEW n \in 0..MaxDay, findSnapshotNearDaysAgo(p, n) # 0
             PROVE  rows[p][findSnapshotNearDaysAgo(p, n)].by \in {"job", "observed", "priced"}
    BY DEF BaselineIsReal
<1> DEFINE cutoff == today - n
           S == {0} \cup {d \in Days : d <= cutoff /\ Real(p, d)}
           m == findSnapshotAtOrBefore(p, cutoff)
<1>1. MaxDay \in Nat /\ Days = 1..MaxDay  BY SnapshotsAssumption DEF Days
<1>2. S \in SUBSET (0..MaxDay) /\ S # {}  BY <1>1
<1>3. m = Max(S)  BY DEF findSnapshotAtOrBefore
<1>4. m \in S
    <2> HIDE DEF S, m
    <2> QED BY <1>1, <1>2, <1>3, MaxExists
<1>5. m \in 0..MaxDay  BY <1>2, <1>4
<1>6. findSnapshotNearDaysAgo(p, n) = 0 \/ findSnapshotNearDaysAgo(p, n) = Max({0, m})
    BY DEF findSnapshotNearDaysAgo
<1>7. Max({0, m}) = m
    <2> HIDE DEF m
    <2>1. {0, m} \in SUBSET (0..MaxDay) /\ {0, m} # {}  BY <1>1, <1>5
    <2>2. Max({0, m}) \in {0, m} /\ \A y \in {0, m} : y <= Max({0, m})
        BY <1>1, <2>1, MaxExists
    <2> QED BY <1>5, <2>2
<1>8. findSnapshotNearDaysAgo(p, n) = m /\ m # 0  BY <1>6, <1>7
<1>9. m \in Days /\ Real(p, m)  BY <1>4, <1>8
<1>10. Flagged(rows[p][m])  BY <1>9 DEF Honest
<1> QED BY <1>8, <1>9, <1>10 DEF Real, Flagged

\* No step makes an estimate of a real row.
LEMMA KeptStep ==
    ASSUME Types, Honest, [Next]_vars, NEW p \in Pids, NEW d \in Days, Real(p, d), rows'[p][d] # NoRow
    PROVE  rows'[p][d].by # "estimate" /\ (rows'[p][d].approx => rows'[p][d].by = rows[p][d].by)
<1>0. /\ rows \in [Pids -> Curves] /\ rows[p][d] # NoRow /\ ~rows[p][d].approx
      /\ rows[p][d].by \in {"job", "observed", "priced"}
    BY DEF Types, SnapTypes, Honest, Flagged, Real
<1>1. CASE rows'[p][d] = rows[p][d]
    BY <1>0, <1>1
<1>2. ASSUME NEW q \in Pids, NEW h \in Curves, Written(q, h)
      PROVE  rows'[p][d].by # "estimate" /\ (rows'[p][d].approx => rows'[p][d].by = rows[p][d].by)
    <2>1. rows'[p] = IF p = q THEN h ELSE rows[p]  BY <1>0, <1>2 DEF Written
    <2>2. CASE p # q
        BY <1>1, <2>1, <2>2
    <2>3. CASE p = q
        <3>1. \/ h[d] = rows[p][d]
              \/ h[d] # NoRow /\ ~h[d].approx /\ h[d].by \in {"job", "observed", "priced"}
              \/ ~Real(p, d) /\ h[d] # NoRow /\ Flagged(h[d])
              \/ /\ "reclassify" \in ops /\ rows[p][d] # NoRow
                 /\ h[d] # NoRow /\ h[d].approx /\ h[d].by = rows[p][d].by
            BY <1>2, <2>3 DEF Written
        <3> QED BY <1>0, <2>1, <2>3, <3>1
    <2> QED BY <2>2, <2>3
<1>3. CASE UNCHANGED vars
    BY <1>1, <1>3 DEF vars, snapVars
<1>4. CASE Portfolio
    <2>1. rows'[p] = NoRows \/ rows'[p] = rows[p]  BY <1>4 DEF Portfolio
    <2> QED BY <1>1, <2>1, NoRowFacts
<1>5. CASE Job
    <2>1. PICK j \in JobSlots : \/ JobList(j) \/ JobPlan(j) \/ JobWrite(j) \/ JobLoopEnds(j)
                                \/ JobPrune(j) \/ JobTokens(j)
        BY <1>5 DEF Job
    <2>2. CASE JobList(j) \/ JobPlan(j) \/ JobLoopEnds(j) \/ JobTokens(j)
        <3>1. UNCHANGED rows  BY <2>2, JobListDoes, JobPlanDoes, JobLoopEndsDoes, JobTokensDoes
        <3> QED BY <1>1, <3>1
    <2>3. CASE JobWrite(j)
        <3>1. job[j] \in Runs /\ job[j].cur \in Pids
            BY <2>3, JobWriteDoes
        <3>2. UNCHANGED rows \/ rows' = Upsert(job[j].cur, job[j].date, "job")
            BY <2>3, JobWriteDoes
        <3>3. job[j].date \in Days  BY <3>1, OwnerFacts
        <3> QED BY <1>1, <1>2, <3>1, <3>2, <3>3, UpsertWrites
    <2>4. CASE JobPrune(j)
        BY <1>1, <2>4, JobPruneDoes
    <2> QED BY <2>1, <2>2, <2>3, <2>4
<1>6. CASE Midnight \/ Boot \/ Crash
    <2>1. UNCHANGED rows  BY <1>6, MidnightDoes, BootDoes, CrashDoes
    <2> QED BY <1>1, <2>1
<1>7. CASE History \/ Script
    <2>1. PICK r \in Procs : SnapDoes(r)  BY <1>7, SideSteps
    <2> QED BY <1>1, <1>2, <2>1 DEF SnapDoes
<1> QED BY <1>3, <1>4, <1>5, <1>6, <1>7 DEF Next

-----------------------------------------------------------------------------
(* What a step is to the portfolios *)

LEMMA StepKinds ==
    ASSUME Types, Honest, [Next]_vars
    PROVE  \/ PortfolioStep
           \/ Crash
           \/ \E r \in Procs : SnapDoes(r)
           \/ UNCHANGED portfolioVars
<1>1. CASE UNCHANGED vars
    BY <1>1 DEF vars
<1>2. CASE Portfolio
    BY <1>2 DEF Portfolio
<1>3. CASE Job
    BY <1>3, JobListDoes, JobPlanDoes, JobWriteDoes, JobLoopEndsDoes, JobPruneDoes, JobTokensDoes
    DEF Job
<1>4. CASE Midnight \/ Boot
    BY <1>4, MidnightDoes, BootDoes
<1>5. CASE Crash
    BY <1>5
<1>6. CASE History \/ Script
    BY <1>6, SideSteps
<1> QED BY <1>1, <1>2, <1>3, <1>4, <1>5, <1>6 DEF Next

-----------------------------------------------------------------------------
(* FreshIds is kept *)

\* It is when the ids asked about are old ones and no row appears out of turn.
LEMMA FreshStep ==
    ASSUME Types, FreshIds, nextId' \in Int, nextId' >= nextId,
           \A p \in Pids : p >= nextId' => port'[p] = NoPortfolio,
           \A q \in Procs : req'[q].op \in {"create", "rename", "delete"} =>
             \/ req[q].op \in {"create", "rename", "delete"} /\ req'[q].pid = req[q].pid
             \/ req'[q].pid < nextId'
    PROVE  FreshIds'
<1>1. nextId \in Int  BY PortfoliosAssumption DEF Types, PortTypes
<1>2. ASSUME NEW q \in Procs, req[q].op \in {"create", "rename", "delete"}
      PROVE  req[q].pid \in Int /\ req[q].pid < nextId
    <2>1. req[q].pid \in 0..MaxPortfolios \/ req[q].pid \in Pids  BY <1>2, TypeFacts, Fields
    <2> QED BY <1>2, <2>1, PortfoliosAssumption DEF Pids, FreshIds
<1>3. ASSUME NEW q \in Procs, req'[q].op \in {"create", "rename", "delete"}
      PROVE  req'[q].pid < nextId'
    BY <1>1, <1>2, <1>3
<1> QED BY <1>3 DEF FreshIds

LEMMA FreshGoes ==
    ASSUME Types, FreshIds, nextId' = nextId, \A p \in Pids : port[p] = NoPortfolio => port'[p] = NoPortfolio,
           NEW r \in Procs, NEW n \in Requests, Step(r, n) \/ Wrotes(r, n),
           n.op \in {"create", "rename", "delete"} =>
             \/ req[r].op \in {"create", "rename", "delete"} /\ n.pid = req[r].pid
             \/ n.pid < nextId
    PROVE  FreshIds'
<1>1. nextId \in Int  BY PortfoliosAssumption DEF Types, PortTypes
<1>2. \A p \in Pids : p >= nextId => port'[p] = NoPortfolio  BY DEF FreshIds
<1>3. ASSUME NEW q \in Procs, req'[q].op \in {"create", "rename", "delete"}
      PROVE  \/ req[q].op \in {"create", "rename", "delete"} /\ req'[q].pid = req[q].pid
             \/ req'[q].pid < nextId'
    <2>1. CASE q = r
        BY <1>3, <2>1 DEF Step, Wrotes
    <2>2. CASE q # r
        BY <1>3, <2>2, Fields DEF Step, Wrotes
    <2> QED BY <2>1, <2>2
<1> QED BY <1>1, <1>2, <1>3, FreshStep

\* Rows that exist have been given their id.
LEMMA OldIds ==
    ASSUME Types, FreshIds, NEW p \in Pids, port[p] # NoPortfolio
    PROVE  p < nextId
<1>1. nextId \in Int /\ p \in Int  BY PortfoliosAssumption DEF Types, PortTypes, Pids
<1> QED BY <1>1 DEF FreshIds

\* The row that appears is the next one, the others stay or go.
LEMMA RowsAppearInTurn ==
    ASSUME Types, PortfolioStep
    PROVE  \/ nextId' = nextId /\ \A p \in Pids : port[p] = NoPortfolio => port'[p] = NoPortfolio
           \/ /\ nextId \in Pids /\ nextId' = nextId + 1
              /\ \A p \in Pids : p # nextId => port'[p] = port[p]
              /\ \E r \in Procs, n \in Requests : /\ Wrotes(r, n)
                                                  /\ n = Idle \/ (n \in Creates /\ n.pid = nextId)
<1>0. port \in [Pids -> Rows \cup {NoPortfolio}]  BY DEF Types, PortTypes
<1>1. ASSUME NEW r \in Procs, createPortfolioRow(r)
      PROVE  \/ UNCHANGED <<nextId, port>>
             \/ /\ nextId \in Pids /\ nextId' = nextId + 1
                /\ \A p \in Pids : p # nextId => port'[p] = port[p]
                /\ \E n \in Requests : Wrotes(r, n) /\ (n = Idle \/ (n \in Creates /\ n.pid = nextId))
    BY <1>0, <1>1, createPortfolioRowDoes
<1>2. ASSUME NEW r \in Procs, CreateStreamId(r)
      PROVE  nextId' = nextId /\ \A p \in Pids : port[p] = NoPortfolio => port'[p] = NoPortfolio
    BY <1>0, <1>2, CreateStreamIdDoes
<1>3. ASSUME NEW r \in Procs, updatePortfolioName(r)
      PROVE  nextId' = nextId /\ \A p \in Pids : port[p] = NoPortfolio => port'[p] = NoPortfolio
    BY <1>0, <1>3, updatePortfolioNameDoes
<1>4. ASSUME NEW r \in Procs, deletePortfolio(r)
      PROVE  nextId' = nextId /\ \A p \in Pids : port[p] = NoPortfolio => port'[p] = NoPortfolio
    BY <1>0, <1>4, deletePortfolioDoes
<1>5. ASSUME NEW u \in Users, deleteMe(u)
      PROVE  nextId' = nextId /\ \A p \in Pids : port[p] = NoPortfolio => port'[p] = NoPortfolio
    BY <1>0, <1>5 DEF deleteMe
<1>6. ASSUME NEW r \in Procs,
             \/ CreateCount(r) \/ CreateSlug(r) \/ CreateWallet(r) \/ createStream(r) \/ RenameRead(r)
             \/ RenameSlug(r) \/ DeleteRead(r) \/ deleteStream(r) \/ ResyncGate(r) \/ ResyncArm(r)
      PROVE  UNCHANGED <<nextId, port>>
    BY <1>6, CreateCountDoes, CreateSlugDoes, CreateWalletDoes, createStreamDoes, RenameReadDoes,
       RenameSlugDoes, DeleteReadDoes, deleteStreamDoes, ResyncsDo DEF portVars
<1>7. ASSUME NEW u \in Users, PlanChanges(u)
      PROVE  UNCHANGED <<nextId, port>>
    BY <1>7 DEF PlanChanges
<1>8. ASSUME NEW p \in Pids, CooldownEnds(p)
      PROVE  UNCHANGED <<nextId, port>>
    BY <1>8 DEF CooldownEnds
<1> QED BY <1>1, <1>2, <1>3, <1>4, <1>5, <1>6, <1>7, <1>8 DEF PortfolioStep

LEMMA Next_Fresh ==
    ASSUME Types, Honest, FreshIds, [Next]_vars
    PROVE  FreshIds'
<1>0. PICK i \in Int : i = nextId  BY PortfoliosAssumption DEF Types, PortTypes
<1>1. CASE UNCHANGED portfolioVars
    <2>1. UNCHANGED <<req, port, nextId>>  BY <1>1 DEF portfolioVars, portVars
    <2> QED BY <2>1 DEF FreshIds
<1>2. CASE Crash
    <2>1. UNCHANGED <<port, nextId>> /\ \A q \in Procs : req'[q] = Idle \/ req'[q] = req[q]
        BY <1>2, CrashDoes
    <2> QED BY <2>1, IdleFacts DEF FreshIds
<1>3. CASE \E r \in Procs : SnapDoes(r)
    <2>1. PICK r \in Procs : SnapDoes(r)  BY <1>3
    <2>2. UNCHANGED <<port, nextId>>  BY <2>1 DEF SnapDoes, portVars
    <2>3. PICK n \in Requests : Step(r, n) /\ n.op \notin {"create", "rename", "delete"}
        BY <2>1 DEF SnapDoes
    <2> QED BY <2>2, <2>3, FreshGoes
<1>4. CASE PortfolioStep
    <2>0. \A p \in Pids : port[p] # NoPortfolio => p < nextId  BY OldIds
    <2>1. CASE nextId' = nextId /\ \A p \in Pids : port[p] = NoPortfolio => port'[p] = NoPortfolio
        <3>1. ASSUME NEW r \in Procs, CreateCount(r)
              PROVE  FreshIds'
            <4>1. PICK n \in Creates : Step(r, n) /\ n.pid = 0  BY <3>1, CreateCountDoes
            <4>2. n.pid < nextId  BY <4>1, PortfoliosAssumption DEF Types, PortTypes
            <4> QED BY <2>1, <4>1, <4>2, FreshGoes, KindsAreRequests
        <3>2. ASSUME NEW r \in Procs, \/ CreateSlug(r) \/ CreateWallet(r) \/ createStream(r)
                                      \/ CreateStreamId(r)
              PROVE  FreshIds'
            <4>1. req[r] \in Creates
                BY <3>2, CreateSlugDoes, CreateWalletDoes, createStreamDoes, CreateStreamIdDoes
            <4>2. PICK n \in Requests : Step(r, n) /\ (n = Idle \/ n.pid = req[r].pid)
                BY <3>2, CreateSlugDoes, CreateWalletDoes, createStreamDoes, CreateStreamIdDoes,
                   KindsAreRequests, IdleFacts
            <4> QED BY <2>1, <4>1, <4>2, FreshGoes, Fields, IdleFacts
        <3>3. ASSUME NEW r \in Procs, createPortfolioRow(r)
              PROVE  FreshIds'
            <4>1. Step(r, Idle)  BY <1>0, <2>1, <3>3, createPortfolioRowDoes
            <4> QED BY <2>1, <4>1, FreshGoes, IdleFacts
        <3>4. ASSUME NEW r \in Procs, RenameRead(r)
              PROVE  FreshIds'
            <4>1. PICK n \in Renames : Step(r, n) /\ port[n.pid] # NoPortfolio  BY <3>4, RenameReadDoes
            <4>2. n.pid < nextId  BY <2>0, <4>1, Fields
            <4> QED BY <2>1, <4>1, <4>2, FreshGoes, KindsAreRequests
        <3>5. ASSUME NEW r \in Procs, RenameSlug(r)
              PROVE  FreshIds'
            <4>1. req[r] \in Renames  BY <3>5, RenameSlugDoes
            <4>2. PICK n \in Requests : Step(r, n) /\ (n = Idle \/ n.pid = req[r].pid)
                BY <3>5, RenameSlugDoes, KindsAreRequests, IdleFacts
            <4> QED BY <2>1, <4>1, <4>2, FreshGoes, Fields, IdleFacts
        <3>6. ASSUME NEW r \in Procs, updatePortfolioName(r)
              PROVE  FreshIds'
            <4>1. Step(r, Idle) \/ Wrotes(r, Idle)  BY <3>6, updatePortfolioNameDoes
            <4> QED BY <2>1, <4>1, FreshGoes, IdleFacts
        <3>7. ASSUME NEW r \in Procs, DeleteRead(r)
              PROVE  FreshIds'
            <4>1. PICK n \in Deletes : Step(r, n) /\ port[n.pid] # NoPortfolio  BY <3>7, DeleteReadDoes
            <4>2. n.pid < nextId  BY <2>0, <4>1, Fields
            <4> QED BY <2>1, <4>1, <4>2, FreshGoes, KindsAreRequests
        <3>8. ASSUME NEW r \in Procs, deleteStream(r)
              PROVE  FreshIds'
            <4>1. req[r] \in Deletes  BY <3>8, deleteStreamDoes
            <4>2. PICK n \in Deletes : Step(r, n) /\ n.pid = req[r].pid  BY <3>8, deleteStreamDoes
            <4> QED BY <2>1, <4>1, <4>2, FreshGoes, Fields, KindsAreRequests
        <3>9. ASSUME NEW r \in Procs, deletePortfolio(r)
              PROVE  FreshIds'
            <4>1. Step(r, Idle)  BY <3>9, deletePortfolioDoes
            <4> QED BY <2>1, <4>1, FreshGoes, IdleFacts
        <3>10. ASSUME NEW r \in Procs, ResyncGate(r) \/ ResyncArm(r)
              PROVE  FreshIds'
            <4>1. PICK n \in Requests : Step(r, n) /\ n.op \in {"idle", "resync"}
                BY <3>10, ResyncsDo, Fields, IdleFacts, KindsAreRequests
            <4> QED BY <2>1, <4>1, FreshGoes
        <3>11. ASSUME UNCHANGED req
              PROVE  FreshIds'
            BY <1>0, <2>1, <3>11, FreshStep DEF FreshIds
        <3>12. \A u \in Users : deleteMe(u) \/ PlanChanges(u) => UNCHANGED req
            BY DEF deleteMe, PlanChanges
        <3>13. \A p \in Pids : CooldownEnds(p) => UNCHANGED req  BY DEF CooldownEnds
        <3> QED BY <1>4, <3>1, <3>2, <3>3, <3>4, <3>5, <3>6, <3>7, <3>8, <3>9, <3>10, <3>11, <3>12, <3>13
            DEF PortfolioStep
    <2>2. CASE ~(nextId' = nextId /\ \A p \in Pids : port[p] = NoPortfolio => port'[p] = NoPortfolio)
        <3>1. /\ nextId \in Pids /\ nextId' = nextId + 1
              /\ \A p \in Pids : p # nextId => port'[p] = port[p]
              /\ \E r \in Procs, n \in Requests : /\ Wrotes(r, n)
                                                  /\ n = Idle \/ (n \in Creates /\ n.pid = nextId)
            BY <1>4, <2>2, RowsAppearInTurn, Zenon
        <3>2. PICK r \in Procs, n \in Requests : /\ Wrotes(r, n)
                                                 /\ n = Idle \/ (n \in Creates /\ n.pid = nextId)
            BY <3>1
        <3>3. \A p \in Pids : p >= nextId' => port'[p] = NoPortfolio
            <4>1. \A p \in Pids : p \in Int /\ (p >= nextId' => p # nextId /\ p >= nextId)
                BY <1>0, <3>1 DEF Pids
            <4> QED BY <3>1, <4>1 DEF FreshIds
        <3>4. ASSUME NEW q \in Procs, req'[q].op \in {"create", "rename", "delete"}
              PROVE  \/ req[q].op \in {"create", "rename", "delete"} /\ req'[q].pid = req[q].pid
                     \/ req'[q].pid < nextId'
            <4>1. CASE q = r
                BY <1>0, <3>1, <3>2, <3>4, <4>1, IdleFacts DEF Wrotes
            <4>2. CASE q # r
                BY <3>2, <3>4, <4>2, Fields DEF Wrotes
            <4> QED BY <4>1, <4>2
        <3>5. nextId' \in Int /\ nextId' >= nextId  BY <1>0, <3>1
        <3> QED BY <3>3, <3>4, <3>5, FreshStep
    <2> QED BY <2>1, <2>2
<1> QED BY <1>1, <1>2, <1>3, <1>4, StepKinds

-----------------------------------------------------------------------------
(* Streams is kept *)

\* A request that has no part in streams; a step that leaves a request's part as it is.
Aside(c) == c.op # "delete" /\ ~(c.op = "create" /\ c.at \in {"stream", "streamId"})
SamePart(q) ==
    \/ Aside(req[q]) /\ Aside(req'[q])
    \/ /\ req'[q].op = req[q].op /\ req'[q].at = req[q].at /\ req'[q].pid = req[q].pid
       /\ req[q].op = "delete" => req'[q].stream = req[q].stream

LEMMA AsideFacts ==
    /\ Aside(Idle)
    /\ \A c \in Creates : c.at \notin {"stream", "streamId"} => Aside(c)
    /\ \A c \in Renames : Aside(c)
    /\ \A c \in Resyncs : Aside(c)
BY Fields, IdleFacts DEF Aside

LEMMA SamePartStep ==
    ASSUME Types, NEW r \in Procs, NEW n \in Requests, Step(r, n) \/ Wrotes(r, n)
    PROVE  \A q \in Procs : q # r => SamePart(q)
<1> TAKE q \in Procs
<1> HAVE q # r
<1>1. CASE req'[q] = req[q]
    BY <1>1 DEF SamePart
<1>2. CASE /\ req[q] \in Creates /\ req'[q] \in Creates
           /\ req'[q].at = req[q].at /\ req'[q].pid = req[q].pid
    BY <1>2, Fields DEF SamePart
<1>3. CASE req[q] \in Renames /\ req'[q] \in Renames
    BY <1>3, AsideFacts DEF SamePart
<1> QED BY <1>1, <1>2, <1>3 DEF Step, Wrotes

LEMMA PartFacts ==
    ASSUME NEW q \in Procs, SamePart(q)
    PROVE  /\ (At(q, "create", "streamId")' <=> At(q, "create", "streamId"))
           /\ (At(q, "delete", "row")' <=> At(q, "delete", "row"))
           /\ (At(q, "delete", "stream")' <=> At(q, "delete", "stream"))
           /\ (Making(q)' <=> Making(q)) /\ (Unmaking(q)' <=> Unmaking(q))
           /\ (Making(q) => req'[q].pid = req[q].pid /\ req'[q].at = req[q].at)
           /\ (req[q].op = "delete" => req'[q].pid = req[q].pid /\ req'[q].stream = req[q].stream)
BY DEF SamePart, Aside, At, Making, Unmaking

LEMMA PartKinds ==
    ASSUME NEW q \in Procs
    PROVE  /\ At(q, "create", "streamId") => Making(q)
           /\ At(q, "delete", "row") \/ At(q, "delete", "stream") \/ Unmaking(q) => req[q].op = "delete"
BY DEF At, Making, Unmaking

\* Nobody's part in streams changes, and no row or stream does.
LEMMA StreamsFrame ==
    ASSUME Streams, UNCHANGED <<streams, stray>>, \A p \in Pids : Named(p)' <=> Named(p),
           streams \subseteq Pids, \A q \in Procs : SamePart(q)
    PROVE  Streams'
<1>1. ASSUME NEW q \in Procs
      PROVE  /\ (At(q, "create", "streamId")' <=> At(q, "create", "streamId"))
             /\ (At(q, "delete", "row")' <=> At(q, "delete", "row"))
             /\ (At(q, "delete", "stream")' <=> At(q, "delete", "stream"))
             /\ (Making(q)' <=> Making(q)) /\ (Unmaking(q)' <=> Unmaking(q))
             /\ (Making(q) => req'[q].pid = req[q].pid /\ req'[q].at = req[q].at)
             /\ (req[q].op = "delete" => req'[q].pid = req[q].pid /\ req'[q].stream = req[q].stream)
    BY PartFacts
<1>2. \A q \in Procs : /\ At(q, "create", "streamId") => Making(q)
                       /\ At(q, "delete", "row") \/ At(q, "delete", "stream") \/ Unmaking(q) => req[q].op = "delete"
    BY PartKinds
<1>3. \A p \in streams' : Named(p)' \/ p \in stray'
                          \/ \E r \in Procs : At(r, "create", "streamId")' /\ req'[r].pid = p
    BY <1>1, <1>2 DEF Streams, Alone
<1>4. \A p \in Pids : Named(p)' =>
         p \in streams' \/ p \in stray'
         \/ \E r \in Procs : At(r, "delete", "row")' /\ req'[r].stream /\ req'[r].pid = p
    BY <1>1, <1>2 DEF Streams, Alone
<1>5. \A r \in Procs : Making(r)' =>
         /\ req'[r].pid \in Pids /\ ~Named(req[r].pid)'
         /\ req'[r].at = "streamId" => req'[r].pid \in streams'
         /\ \A q \in Procs : /\ Unmaking(q)' => req'[q].pid # req'[r].pid
                             /\ Making(q)' /\ q # r => req'[q].pid # req'[r].pid
    <2> TAKE r \in Procs
    <2> HAVE Making(r)'
    <2>1. Making(r) /\ req'[r].pid = req[r].pid /\ req'[r].at = req[r].at  BY <1>1
    <2>2. /\ req[r].pid \in Pids /\ ~Named(req[r].pid)
          /\ req[r].at = "streamId" => req[r].pid \in streams
          /\ \A q \in Procs : /\ Unmaking(q) => req[q].pid # req[r].pid
                              /\ Making(q) /\ q # r => req[q].pid # req[r].pid
        BY <2>1 DEF Streams, Alone
    <2>3. ~Named(req[r].pid)'  BY <2>1, <2>2 DEF Named
    <2>4. ASSUME NEW q \in Procs
          PROVE  /\ Unmaking(q)' => req'[q].pid # req'[r].pid
                 /\ Making(q)' /\ q # r => req'[q].pid # req'[r].pid
        BY <1>1, <1>2, <2>1, <2>2
    <2> QED BY <2>1, <2>2, <2>3, <2>4
<1>6. \A r \in Procs : At(r, "delete", "stream")' => req'[r].stream
    BY <1>1, <1>2 DEF Streams, Alone
<1>7. \A r \in Procs : At(r, "delete", "row")' /\ req'[r].stream =>
         req'[r].pid \notin streams' \/ req'[r].pid \in stray'
    BY <1>1, <1>2 DEF Streams, Alone
<1> QED BY <1>3, <1>4, <1>5, <1>6, <1>7 DEF Streams, Alone

\* The parts a request can have, before and after a step of it.
LEMMA NewPart ==
    ASSUME NEW r \in Procs, NEW n, req'[r] = n
    PROVE  /\ (At(r, "create", "streamId")' <=> n.op = "create" /\ n.at = "streamId")
           /\ (At(r, "delete", "row")' <=> n.op = "delete" /\ n.at = "row")
           /\ (At(r, "delete", "stream")' <=> n.op = "delete" /\ n.at = "stream")
           /\ (Making(r)' <=> n.op = "create" /\ n.at \in {"stream", "streamId"})
           /\ (Unmaking(r)' <=> n.op = "delete" /\ n.stream)
BY DEF At, Making, Unmaking

LEMMA StreamsOnCreateRow ==
    ASSUME Types, FreshIds, Streams, NEW r \in Procs, createPortfolioRow(r)
    PROVE  Streams'
<1>0. /\ req[r] \in Creates /\ req[r].at = "row" /\ UNCHANGED <<streams, stray>>
      /\ port \in [Pids -> Rows \cup {NoPortfolio}] /\ streams \subseteq Pids
    BY createPortfolioRowDoes DEF Types, PortTypes
<1>1. Aside(req[r])  BY <1>0, AsideFacts
<1>2. CASE Step(r, Idle) /\ UNCHANGED port
    <2>1. \A q \in Procs : q # r => SamePart(q)  BY <1>2, SamePartStep, IdleFacts
    <2>2. SamePart(r)  BY <1>1, <1>2, AsideFacts DEF SamePart, Step
    <2> QED BY <1>0, <1>2, <2>1, <2>2, StreamsFrame DEF Named
<1>3. CASE ~(Step(r, Idle) /\ UNCHANGED port)
    <2>1. PICK i \in Pids : i = nextId  BY <1>3, createPortfolioRowDoes
    <2>2. PICK row \in Rows : port' = [port EXCEPT ![i] = row] /\ ~row.stream
        BY <1>3, <2>1, createPortfolioRowDoes
    <2>3. PICK n \in Requests : /\ Wrotes(r, n)
                                /\ n = Idle \/ (n \in Creates /\ n.at = "stream" /\ n.pid = i)
        BY <1>3, <2>1, createPortfolioRowDoes
    <2>4. \A q \in Procs : q # r => SamePart(q)  BY <2>3, SamePartStep
    <2>5. port[i] = NoPortfolio
        <3>1. i >= nextId  BY <2>1 DEF Pids
        <3> QED BY <3>1 DEF FreshIds
    <2>6. \A p \in Pids : Named(p)' <=> Named(p)
        <3> TAKE p \in Pids
        <3>1. CASE p = i
            BY <1>0, <2>2, <2>5, <3>1 DEF Named
        <3>2. CASE p # i
            BY <1>0, <2>2, <3>2 DEF Named
        <3> QED BY <3>1, <3>2
    <2>7. req'[r] = n  BY <2>3 DEF Wrotes
    <2>8. CASE n = Idle
        <3>1. SamePart(r)  BY <1>1, <2>7, <2>8, AsideFacts DEF SamePart
        <3> QED BY <1>0, <2>4, <2>6, <3>1, StreamsFrame
    <2>9. CASE n \in Creates /\ n.at = "stream" /\ n.pid = i
        <3>1. /\ n.op = "create" /\ ~At(r, "create", "streamId") /\ ~At(r, "delete", "row")
              /\ ~Making(r) /\ ~Unmaking(r)
            BY <1>0, <2>9, Fields DEF At, Making, Unmaking
        <3>2. /\ ~At(r, "create", "streamId")' /\ ~At(r, "delete", "row")' /\ ~At(r, "delete", "stream")'
              /\ Making(r)' /\ ~Unmaking(r)'
            BY <2>7, <2>9, <3>1, NewPart
        <3>3. \A q \in Procs : Making(q) \/ Unmaking(q) => req[q].pid # i
            <4>1. \A q \in Procs : Making(q) \/ Unmaking(q) => req[q].pid < nextId
                BY DEF FreshIds, Making, Unmaking
            <4>2. i \in Int  BY DEF Pids
            <4> QED BY <2>1, <4>1, <4>2
        <3>4. \A p \in streams' : Named(p)' \/ p \in stray'
                                  \/ \E q \in Procs : At(q, "create", "streamId")' /\ req'[q].pid = p
            BY <1>0, <2>4, <2>6, <3>1, PartFacts, PartKinds DEF Streams, Alone
        <3>5. \A p \in Pids : Named(p)' =>
                 p \in streams' \/ p \in stray'
                 \/ \E q \in Procs : At(q, "delete", "row")' /\ req'[q].stream /\ req'[q].pid = p
            BY <1>0, <2>4, <2>6, <3>1, PartFacts, PartKinds DEF Streams, Alone
        <3>6. ~Named(i)'  BY <1>0, <2>2 DEF Named
        <3>7. ASSUME NEW s \in Procs, Making(s)'
              PROVE  /\ req'[s].pid \in Pids /\ ~Named(req[s].pid)'
                     /\ req'[s].at = "streamId" => req'[s].pid \in streams'
                     /\ \A q \in Procs : /\ Unmaking(q)' => req'[q].pid # req'[s].pid
                                         /\ Making(q)' /\ q # s => req'[q].pid # req'[s].pid
            <4>1. CASE s = r
                <5>1. req'[s].pid = i /\ req'[s].at = "stream"  BY <2>7, <2>9, <4>1
                <5>2. ~Named(req[s].pid)'  BY <3>6, <5>1 DEF Named
                <5>3. \A q \in Procs : /\ Unmaking(q)' => req'[q].pid # i
                                       /\ Making(q)' /\ q # s => req'[q].pid # i
                    BY <2>4, <3>2, <3>3, <4>1, PartFacts, PartKinds
                <5> QED BY <5>1, <5>2, <5>3
            <4>2. CASE s # r
                <5>1. Making(s) /\ req'[s].pid = req[s].pid /\ req'[s].at = req[s].at
                    BY <2>4, <3>7, <4>2, PartFacts
                <5>2. /\ req[s].pid \in Pids /\ ~Named(req[s].pid)
                      /\ req[s].at = "streamId" => req[s].pid \in streams
                      /\ \A q \in Procs : /\ Unmaking(q) => req[q].pid # req[s].pid
                                          /\ Making(q) /\ q # s => req[q].pid # req[s].pid
                    BY <5>1 DEF Streams, Alone
                <5>3. ~Named(req[s].pid)'  BY <2>6, <5>1, <5>2 DEF Named
                <5>4. \A q \in Procs : /\ Unmaking(q)' => req'[q].pid # req'[s].pid
                                       /\ Making(q)' /\ q # s => req'[q].pid # req'[s].pid
                    BY <2>4, <2>7, <2>9, <3>2, <3>3, <5>1, <5>2, PartFacts, PartKinds
                <5> QED BY <1>0, <5>1, <5>2, <5>3, <5>4
            <4> QED BY <4>1, <4>2
        <3>8. \A q \in Procs : At(q, "delete", "stream")' => req'[q].stream
            BY <2>4, <3>2, PartFacts, PartKinds DEF Streams, Alone
        <3>9. \A q \in Procs : At(q, "delete", "row")' /\ req'[q].stream =>
                 req'[q].pid \notin streams' \/ req'[q].pid \in stray'
            BY <1>0, <2>4, <3>2, PartFacts, PartKinds DEF Streams, Alone
        <3> QED BY <3>4, <3>5, <3>7, <3>8, <3>9 DEF Streams, Alone
    <2> QED BY <2>3, <2>8, <2>9
<1> QED BY <1>2, <1>3, createPortfolioRowDoes

\* Makers stay apart when none is added.
LEMMA MakersApart ==
    ASSUME Streams,
           \A q \in Procs : Making(q)' => Making(q) /\ req'[q].pid = req[q].pid,
           \A q \in Procs : Unmaking(q)' => Unmaking(q) /\ req'[q].pid = req[q].pid,
           \A q \in Procs : Making(q)' => /\ ~Named(req[q].pid)'
                                          /\ req'[q].at = "streamId" => req'[q].pid \in streams'
    PROVE  \A q \in Procs : Making(q)' => Alone(q)'
<1> SUFFICES ASSUME NEW s \in Procs, Making(s)'
             PROVE  Alone(s)'
    OBVIOUS
<1>1. Making(s) /\ req'[s].pid = req[s].pid  OBVIOUS
<1>2. Alone(s)  BY <1>1 DEF Streams, Alone
<1>3. \A q \in Procs : /\ Unmaking(q)' => req'[q].pid # req'[s].pid
                       /\ Making(q)' /\ q # s => req'[q].pid # req'[s].pid
    BY <1>1, <1>2 DEF Alone
<1> QED BY <1>1, <1>2, <1>3 DEF Alone

LEMMA StreamsOnCreateStream ==
    ASSUME Types, Streams, NEW r \in Procs, createStream(r)
    PROVE  Streams'
<1>0. /\ req[r] \in Creates /\ req[r].at = "stream" /\ UNCHANGED port /\ streams \subseteq Pids
    BY createStreamDoes DEF Types, PortTypes
<1>1. /\ Making(r) /\ ~Unmaking(r) /\ ~At(r, "create", "streamId") /\ ~At(r, "delete", "row")
      /\ ~At(r, "delete", "stream")
    BY <1>0, Fields DEF Making, Unmaking, At
<1>2. PICK i \in Pids : i = req[r].pid  BY <1>1 DEF Streams, Alone
<1>3. PICK n \in Creates :
        /\ Step(r, n) /\ n.pid = i
        /\ \/ n.at = "streamId" /\ streams' = streams \cup {i} /\ UNCHANGED stray
           \/ n.at = "sync" /\ UNCHANGED <<streams, stray>>
           \/ n.at = "sync" /\ streams' = streams \cup {i} /\ stray' = stray \cup {i}
    BY <1>2, createStreamDoes
<1>4. \A q \in Procs : q # r => SamePart(q)  BY <1>3, SamePartStep, KindsAreRequests
<1>5. /\ req'[r] = n /\ n.op = "create" /\ (At(r, "create", "streamId")' <=> n.at = "streamId")
      /\ ~At(r, "delete", "row")' /\ ~At(r, "delete", "stream")' /\ ~Unmaking(r)'
    BY <1>3, NewPart, Fields DEF Step
<1>6. \A p \in Pids : Named(p)' <=> Named(p)  BY <1>0 DEF Named
<1>7. \A p \in streams' : Named(p)' \/ p \in stray'
                          \/ \E q \in Procs : At(q, "create", "streamId")' /\ req'[q].pid = p
    <2> TAKE p \in streams'
    <2>1. CASE p = i
        <3>1. CASE n.at = "streamId"
            BY <1>3, <1>5, <2>1, <3>1
        <3>2. CASE n.at = "sync" /\ i \in stray'
            BY <2>1, <3>2
        <3>3. CASE n.at = "sync" /\ UNCHANGED <<streams, stray>>
            BY <1>0, <1>1, <1>4, <1>6, <3>3, PartFacts, PartKinds DEF Streams, Alone
        <3> QED BY <1>3, <3>1, <3>2, <3>3
    <2>2. CASE p # i
        <3>1. p \in streams /\ stray \subseteq stray'  BY <1>3, <2>2
        <3> QED BY <1>0, <1>1, <1>4, <1>6, <3>1, PartFacts, PartKinds DEF Streams, Alone
    <2> QED BY <2>1, <2>2
<1>8. \A p \in Pids : Named(p)' =>
         p \in streams' \/ p \in stray'
         \/ \E q \in Procs : At(q, "delete", "row")' /\ req'[q].stream /\ req'[q].pid = p
    <2>1. streams \subseteq streams' /\ stray \subseteq stray'  BY <1>3
    <2> QED BY <1>1, <1>4, <1>6, <2>1, PartFacts, PartKinds DEF Streams, Alone
<1>9. \A q \in Procs : Making(q)' => Alone(q)'
    <2>1. \A q \in Procs : Making(q)' => Making(q) /\ req'[q].pid = req[q].pid
        BY <1>1, <1>2, <1>3, <1>4, <1>5, PartFacts
    <2>2. \A q \in Procs : Unmaking(q)' => Unmaking(q) /\ req'[q].pid = req[q].pid
        BY <1>4, <1>5, PartFacts, PartKinds
    <2>3. ASSUME NEW q \in Procs, Making(q)'
          PROVE  /\ ~Named(req[q].pid)'
                 /\ req'[q].at = "streamId" => req'[q].pid \in streams'
        <3>1. Alone(q)  BY <2>1, <2>3 DEF Streams, Alone
        <3>2. ~Named(req[q].pid)'  BY <1>0, <2>1, <2>3, <3>1 DEF Named, Alone
        <3>3. CASE q = r
            BY <1>3, <1>5, <3>2, <3>3
        <3>4. CASE q # r
            <4>1. req'[q].at = req[q].at  BY <1>4, <2>1, <2>3, <3>4, PartFacts
            <4> QED BY <1>3, <2>1, <2>3, <3>1, <3>2, <4>1 DEF Alone
        <3> QED BY <3>3, <3>4
    <2> QED BY <2>1, <2>2, <2>3, MakersApart
<1>10. \A q \in Procs : At(q, "delete", "stream")' => req'[q].stream
    BY <1>4, <1>5, PartFacts, PartKinds DEF Streams, Alone
<1>11. ASSUME NEW q \in Procs, At(q, "delete", "row")', req'[q].stream
       PROVE  req'[q].pid \notin streams' \/ req'[q].pid \in stray'
    <2>1. q # r  BY <1>5, <1>11
    <2>2. At(q, "delete", "row") /\ req[q].stream /\ req'[q].pid = req[q].pid
        BY <1>4, <1>11, <2>1, PartFacts, PartKinds
    <2>3. Unmaking(q)  BY <2>2 DEF Unmaking, At
    <2>4. req[q].pid # i  BY <1>1, <1>2, <2>3 DEF Streams, Alone
    <2> QED BY <1>3, <2>2, <2>4 DEF Streams, Alone
<1> QED BY <1>7, <1>8, <1>9, <1>10, <1>11 DEF Streams, Alone

LEMMA StreamsOnStreamId ==
    ASSUME Types, Streams, NEW r \in Procs, CreateStreamId(r)
    PROVE  Streams'
<1>0. /\ req[r] \in Creates /\ req[r].at = "streamId" /\ UNCHANGED streams
      /\ streams \subseteq Pids /\ port \in [Pids -> Rows \cup {NoPortfolio}]
    BY CreateStreamIdDoes DEF Types, PortTypes
<1>1. Making(r) /\ ~At(r, "delete", "row")
    BY <1>0, Fields DEF Making, At
<1>2. PICK i \in Pids : i = req[r].pid /\ i \in streams  BY <1>0, <1>1 DEF Streams, Alone
<1>3. PICK n \in Creates : Step(r, n) /\ n.at = "sync"  BY CreateStreamIdDoes
<1>4. \A q \in Procs : q # r => SamePart(q)  BY <1>3, SamePartStep, KindsAreRequests
<1>5. /\ ~At(r, "delete", "row")' /\ ~At(r, "delete", "stream")' /\ ~Unmaking(r)' /\ ~Making(r)'
    BY <1>3, NewPart, Fields DEF Step
<1>6. /\ \A p \in Pids : p # i => (Named(p)' <=> Named(p))
      /\ Named(i)' \/ i \in stray'
      /\ stray \subseteq stray'
    <2>1. CASE stray' = stray \cup {i} /\ UNCHANGED port
        BY <2>1 DEF Named
    <2>2. CASE port[i] # NoPortfolio /\ UNCHANGED stray /\ port' = [port EXCEPT ![i].stream = TRUE]
        <3>1. port[i] \in Rows  BY <1>0, <2>2
        <3>2. PICK w : w = [port[i] EXCEPT !.stream = TRUE]  OBVIOUS
        <3>3. w \in Rows /\ w.stream  BY <3>1, <3>2 DEF Rows
        <3>4. port' = [port EXCEPT ![i] = w]  BY <2>2, <3>2
        <3>5. port'[i] = w /\ \A p \in Pids : p # i => port'[p] = port[p]  BY <1>0, <3>4
        <3>6. Named(i)'  BY <3>3, <3>5, NoPortfolioIsNoRow DEF Named
        <3>7. \A p \in Pids : p # i => (Named(p)' <=> Named(p))  BY <3>5 DEF Named
        <3> QED BY <2>2, <3>6, <3>7
    <2> QED BY <1>2, <2>1, <2>2, CreateStreamIdDoes
<1>7. \A p \in streams' : Named(p)' \/ p \in stray'
                          \/ \E q \in Procs : At(q, "create", "streamId")' /\ req'[q].pid = p
    <2> TAKE p \in streams'
    <2>1. CASE p = i
        BY <1>6, <2>1
    <2>2. CASE p # i
        BY <1>0, <1>2, <1>4, <1>6, <2>2, PartFacts, PartKinds DEF Streams, Alone
    <2> QED BY <2>1, <2>2
<1>8. \A p \in Pids : Named(p)' =>
         p \in streams' \/ p \in stray'
         \/ \E q \in Procs : At(q, "delete", "row")' /\ req'[q].stream /\ req'[q].pid = p
    BY <1>0, <1>1, <1>2, <1>4, <1>6, PartFacts, PartKinds DEF Streams, Alone
<1>9. \A q \in Procs : Making(q)' => Alone(q)'
    <2>1. \A q \in Procs : Making(q)' => Making(q) /\ req'[q].pid = req[q].pid /\ q # r
        BY <1>4, <1>5, PartFacts
    <2>2. \A q \in Procs : Unmaking(q)' => Unmaking(q) /\ req'[q].pid = req[q].pid
        BY <1>4, <1>5, PartFacts, PartKinds
    <2>3. ASSUME NEW q \in Procs, Making(q)'
          PROVE  /\ ~Named(req[q].pid)'
                 /\ req'[q].at = "streamId" => req'[q].pid \in streams'
        <3>1. Alone(q)  BY <2>1, <2>3 DEF Streams, Alone
        <3>2. req[q].pid # i  BY <1>1, <1>2, <2>1, <2>3, <3>1 DEF Alone
        <3>3. ~Named(req[q].pid)'  BY <1>6, <2>1, <2>3, <3>1, <3>2 DEF Named, Alone
        <3>4. req'[q].at = req[q].at  BY <1>4, <2>1, <2>3, PartFacts
        <3> QED BY <1>0, <2>1, <2>3, <3>1, <3>3, <3>4 DEF Alone
    <2> QED BY <2>1, <2>2, <2>3, MakersApart
<1>10. \A q \in Procs : At(q, "delete", "stream")' => req'[q].stream
    BY <1>4, <1>5, PartFacts, PartKinds DEF Streams, Alone
<1>11. \A q \in Procs : At(q, "delete", "row")' /\ req'[q].stream =>
         req'[q].pid \notin streams' \/ req'[q].pid \in stray'
    BY <1>0, <1>4, <1>5, <1>6, PartFacts, PartKinds DEF Streams, Alone
<1> QED BY <1>7, <1>8, <1>9, <1>10, <1>11 DEF Streams, Alone

LEMMA StreamsOnDeleteRead ==
    ASSUME Types, Streams, NEW r \in Procs, DeleteRead(r)
    PROVE  Streams'
<1>0. req[r] = Idle /\ UNCHANGED <<port, streams, stray>> /\ streams \subseteq Pids
    BY DeleteReadDoes DEF portVars, Types, PortTypes
<1>1. /\ ~Making(r) /\ ~Unmaking(r) /\ ~At(r, "create", "streamId") /\ ~At(r, "delete", "row")
    BY <1>0, IdleFacts DEF Making, Unmaking, At
<1>2. PICK n \in Deletes : /\ Step(r, n) /\ port[n.pid] # NoPortfolio
                           /\ n.stream = port[n.pid].stream
                           /\ n.at = "stream" <=> n.stream
    BY DeleteReadDoes
<1>3. \A q \in Procs : q # r => SamePart(q)  BY <1>2, SamePartStep, KindsAreRequests
<1>4. /\ req'[r] = n /\ n.op = "delete" /\ (At(r, "delete", "row")' <=> n.at = "row")
      /\ (At(r, "delete", "stream")' <=> n.at = "stream") /\ (Unmaking(r)' <=> n.stream)
      /\ ~Making(r)' /\ ~At(r, "create", "streamId")'
    BY <1>2, NewPart, Fields DEF Step
<1>5. \A p \in Pids : Named(p)' <=> Named(p)  BY <1>0 DEF Named
<1>6. n.stream => Named(n.pid)  BY <1>2 DEF Named
<1>7. \A p \in streams' : Named(p)' \/ p \in stray'
                          \/ \E q \in Procs : At(q, "create", "streamId")' /\ req'[q].pid = p
    BY <1>0, <1>1, <1>3, <1>5, PartFacts, PartKinds DEF Streams, Alone
<1>8. \A p \in Pids : Named(p)' =>
         p \in streams' \/ p \in stray'
         \/ \E q \in Procs : At(q, "delete", "row")' /\ req'[q].stream /\ req'[q].pid = p
    BY <1>0, <1>1, <1>3, <1>5, PartFacts, PartKinds DEF Streams, Alone
<1>9. ASSUME NEW s \in Procs, Making(s)' PROVE Alone(s)'
    <2>1. Making(s) /\ req'[s].pid = req[s].pid /\ req'[s].at = req[s].at /\ s # r
        BY <1>3, <1>4, <1>9, PartFacts
    <2>2. Alone(s)  BY <2>1 DEF Streams, Alone
    <2>3. n.stream => n.pid # req[s].pid  BY <1>6, <2>2 DEF Alone
    <2>4. \A q \in Procs : /\ Unmaking(q)' => req'[q].pid # req'[s].pid
                           /\ Making(q)' /\ q # s => req'[q].pid # req'[s].pid
        BY <1>3, <1>4, <2>1, <2>2, <2>3, PartFacts, PartKinds DEF Alone
    <2>5. ~Named(req[s].pid)'  BY <1>0, <2>1, <2>2 DEF Named, Alone
    <2> QED BY <1>0, <2>1, <2>2, <2>4, <2>5 DEF Alone
<1>10. \A q \in Procs : At(q, "delete", "stream")' => req'[q].stream
    BY <1>2, <1>3, <1>4, PartFacts, PartKinds DEF Streams, Alone
<1>11. \A q \in Procs : At(q, "delete", "row")' /\ req'[q].stream =>
         req'[q].pid \notin streams' \/ req'[q].pid \in stray'
    BY <1>0, <1>2, <1>3, <1>4, PartFacts, PartKinds DEF Streams, Alone
<1> QED BY <1>7, <1>8, <1>9, <1>10, <1>11 DEF Streams, Alone

LEMMA StreamsOnDeleteStream ==
    ASSUME Types, Streams, NEW r \in Procs, deleteStream(r)
    PROVE  Streams'
<1>0. req[r] \in Deletes /\ req[r].at = "stream" /\ UNCHANGED port /\ streams \subseteq Pids
    BY deleteStreamDoes DEF Types, PortTypes
<1>1. /\ At(r, "delete", "stream") /\ req[r].stream /\ Unmaking(r) /\ ~Making(r)
      /\ ~At(r, "create", "streamId") /\ ~At(r, "delete", "row")
    BY <1>0, Fields DEF At, Unmaking, Making, Streams, Alone
<1>2. PICK i \in Pids : i = req[r].pid  BY <1>0, Fields
<1>3. PICK n \in Deletes : Step(r, n) /\ n.at = "row" /\ n.pid = i /\ n.stream = req[r].stream
    BY <1>2, deleteStreamDoes
<1>4. \A q \in Procs : q # r => SamePart(q)  BY <1>3, SamePartStep, KindsAreRequests
<1>5. /\ req'[r] = n /\ n.op = "delete" /\ At(r, "delete", "row")' /\ ~At(r, "delete", "stream")'
      /\ Unmaking(r)' /\ ~Making(r)' /\ ~At(r, "create", "streamId")'
    BY <1>1, <1>3, NewPart, Fields DEF Step
<1>6. /\ streams' \subseteq streams /\ stray \subseteq stray'
      /\ \A p \in streams : p # i => p \in streams'
      /\ i \notin streams' \/ i \in stray'
    BY <1>2, deleteStreamDoes
<1>7. \A p \in streams' : Named(p)' \/ p \in stray'
                          \/ \E q \in Procs : At(q, "create", "streamId")' /\ req'[q].pid = p
    <2> TAKE p \in streams'
    <2>1. Named(p) \/ p \in stray \/ \E q \in Procs : At(q, "create", "streamId") /\ req[q].pid = p
        BY <1>6 DEF Streams, Alone
    <2> QED BY <1>0, <1>1, <1>4, <1>6, <2>1, PartFacts, PartKinds DEF Named
<1>8. \A p \in Pids : Named(p)' =>
         p \in streams' \/ p \in stray'
         \/ \E q \in Procs : At(q, "delete", "row")' /\ req'[q].stream /\ req'[q].pid = p
    <2> TAKE p \in Pids
    <2> HAVE Named(p)'
    <2>1. CASE p = i
        BY <1>1, <1>3, <1>5, <2>1
    <2>2. CASE p # i
        <3>1. Named(p)  BY <1>0 DEF Named
        <3>2. p \in streams \/ p \in stray \/ \E q \in Procs : At(q, "delete", "row") /\ req[q].stream /\ req[q].pid = p
            BY <3>1 DEF Streams, Alone
        <3> QED BY <1>1, <1>4, <1>6, <2>2, <3>2, PartFacts, PartKinds
    <2> QED BY <2>1, <2>2
<1>9. \A q \in Procs : Making(q)' => Alone(q)'
    <2>1. \A q \in Procs : Making(q)' => Making(q) /\ req'[q].pid = req[q].pid /\ q # r
        BY <1>4, <1>5, PartFacts
    <2>2. \A q \in Procs : Unmaking(q)' => Unmaking(q) /\ req'[q].pid = req[q].pid
        BY <1>1, <1>2, <1>3, <1>4, <1>5, PartFacts, PartKinds
    <2>3. ASSUME NEW q \in Procs, Making(q)'
          PROVE  /\ ~Named(req[q].pid)'
                 /\ req'[q].at = "streamId" => req'[q].pid \in streams'
        <3>1. Alone(q)  BY <2>1, <2>3 DEF Streams, Alone
        <3>2. req[q].pid # i  BY <1>1, <1>2, <3>1 DEF Alone
        <3>3. ~Named(req[q].pid)'  BY <1>0, <2>1, <2>3, <3>1 DEF Named, Alone
        <3>4. req'[q].at = req[q].at  BY <1>4, <2>1, <2>3, PartFacts
        <3> QED BY <1>6, <2>1, <2>3, <3>1, <3>2, <3>3, <3>4 DEF Alone
    <2> QED BY <2>1, <2>2, <2>3, MakersApart
<1>10. \A q \in Procs : At(q, "delete", "stream")' => req'[q].stream
    BY <1>4, <1>5, PartFacts, PartKinds DEF Streams, Alone
<1>11. ASSUME NEW q \in Procs, At(q, "delete", "row")', req'[q].stream
       PROVE  req'[q].pid \notin streams' \/ req'[q].pid \in stray'
    <2>1. CASE q = r
        BY <1>3, <1>5, <1>6, <2>1
    <2>2. CASE q # r
        <3>1. At(q, "delete", "row") /\ req[q].stream /\ req'[q].pid = req[q].pid
            BY <1>4, <1>11, <2>2, PartFacts, PartKinds
        <3> QED BY <1>6, <3>1 DEF Streams, Alone
    <2> QED BY <2>1, <2>2
<1> QED BY <1>7, <1>8, <1>9, <1>10, <1>11 DEF Streams, Alone

LEMMA StreamsOnDeletePortfolio ==
    ASSUME Types, Streams, NEW r \in Procs, deletePortfolio(r)
    PROVE  Streams'
<1>0. /\ req[r] \in Deletes /\ req[r].at = "row" /\ Step(r, Idle) /\ UNCHANGED streams
      /\ streams \subseteq Pids /\ port \in [Pids -> Rows \cup {NoPortfolio}]
    BY deletePortfolioDoes DEF Types, PortTypes
<1>1. /\ At(r, "delete", "row") /\ ~At(r, "create", "streamId")
    BY <1>0, Fields DEF At
<1>2. PICK i \in Pids : i = req[r].pid  BY <1>0, Fields
<1>3. \A q \in Procs : q # r => SamePart(q)  BY <1>0, SamePartStep, IdleFacts
<1>4. /\ ~At(r, "delete", "row")' /\ ~At(r, "delete", "stream")'
      /\ ~Unmaking(r)' /\ ~Making(r)' /\ ~At(r, "create", "streamId")'
    BY <1>0, NewPart, IdleFacts DEF Step
<1>5. /\ stray \subseteq stray'
      /\ \A p \in Pids : p # i => (Named(p)' <=> Named(p))
      /\ Named(i)' => Named(i)
      /\ \/ ~Named(i)' /\ (Named(i) /\ ~req[r].stream => i \in stray')
         \/ (Named(i)' <=> Named(i)) /\ (req[r].stream => i \in stray')
    <2>1. CASE /\ port' = [port EXCEPT ![i] = NoPortfolio]
               /\ stray' = IF port[i] # NoPortfolio /\ port[i].stream /\ ~req[r].stream
                           THEN stray \cup {i} ELSE stray
        <3>1. port'[i] = NoPortfolio /\ \A p \in Pids : p # i => port'[p] = port[p]  BY <1>0, <2>1
        <3> QED BY <2>1, <3>1 DEF Named
    <2>2. CASE UNCHANGED port /\ stray' = IF req[r].stream THEN stray \cup {i} ELSE stray
        BY <2>2 DEF Named
    <2> QED BY <1>2, <2>1, <2>2, deletePortfolioDoes
<1>6. \A p \in streams' : Named(p)' \/ p \in stray'
                          \/ \E q \in Procs : At(q, "create", "streamId")' /\ req'[q].pid = p
    <2> TAKE p \in streams'
    <2>1. Named(p) \/ p \in stray \/ \E q \in Procs : At(q, "create", "streamId") /\ req[q].pid = p
        BY <1>0 DEF Streams, Alone
    <2>2. p = i /\ req[r].stream => p \in stray
        BY <1>0, <1>1, <1>2 DEF Streams, Alone
    <2> QED BY <1>0, <1>1, <1>3, <1>5, <2>1, <2>2, PartFacts, PartKinds
<1>7. \A p \in Pids : Named(p)' =>
         p \in streams' \/ p \in stray'
         \/ \E q \in Procs : At(q, "delete", "row")' /\ req'[q].stream /\ req'[q].pid = p
    <2> TAKE p \in Pids
    <2> HAVE Named(p)'
    <2>1. Named(p)  BY <1>5
    <2>2. p \in streams \/ p \in stray \/ \E q \in Procs : At(q, "delete", "row") /\ req[q].stream /\ req[q].pid = p
        BY <2>1 DEF Streams, Alone
    <2>3. p = i /\ req[r].stream => p \in stray'  BY <1>5
    <2> QED BY <1>0, <1>2, <1>3, <1>5, <2>2, <2>3, PartFacts, PartKinds
<1>8. \A q \in Procs : Making(q)' => Alone(q)'
    <2>1. \A q \in Procs : Making(q)' => Making(q) /\ req'[q].pid = req[q].pid /\ q # r
        BY <1>3, <1>4, PartFacts
    <2>2. \A q \in Procs : Unmaking(q)' => Unmaking(q) /\ req'[q].pid = req[q].pid
        BY <1>3, <1>4, PartFacts, PartKinds
    <2>3. ASSUME NEW q \in Procs, Making(q)'
          PROVE  /\ ~Named(req[q].pid)'
                 /\ req'[q].at = "streamId" => req'[q].pid \in streams'
        <3>1. Alone(q)  BY <2>1, <2>3 DEF Streams, Alone
        <3>2. ~Named(req[q].pid)'  BY <1>5, <2>1, <2>3, <3>1 DEF Named, Alone
        <3>3. req'[q].at = req[q].at  BY <1>3, <2>1, <2>3, PartFacts
        <3> QED BY <1>0, <2>1, <2>3, <3>1, <3>2, <3>3 DEF Alone
    <2> QED BY <2>1, <2>2, <2>3, MakersApart
<1>9. \A q \in Procs : At(q, "delete", "stream")' => req'[q].stream
    BY <1>3, <1>4, PartFacts, PartKinds DEF Streams, Alone
<1>10. \A q \in Procs : At(q, "delete", "row")' /\ req'[q].stream =>
         req'[q].pid \notin streams' \/ req'[q].pid \in stray'
    BY <1>0, <1>3, <1>4, <1>5, PartFacts, PartKinds DEF Streams, Alone
<1> QED BY <1>6, <1>7, <1>8, <1>9, <1>10 DEF Streams, Alone

LEMMA StreamsOnDeleteMe ==
    ASSUME Types, Streams, NEW u \in Users, deleteMe(u)
    PROVE  Streams'
<1>0. /\ UNCHANGED <<req, streams>> /\ streams \subseteq Pids
      /\ port' = [p \in Pids |-> IF p \in Of(u) THEN NoPortfolio ELSE port[p]]
      /\ stray' = stray \cup {p \in Of(u) : port[p].stream}
    BY DEF deleteMe, Types, PortTypes
<1>1. \A q \in Procs : SamePart(q)  BY <1>0 DEF SamePart
<1>2. /\ stray \subseteq stray'
      /\ \A p \in Pids : /\ Named(p)' => Named(p)
                         /\ Named(p) => Named(p)' \/ p \in stray'
    <2>1. \A p \in Pids : /\ p \in Of(u) => port'[p] = NoPortfolio
                          /\ p \notin Of(u) => port'[p] = port[p]
        BY <1>0
    <2>2. \A p \in Pids : Named(p) /\ p \in Of(u) => p \in stray'  BY <1>0 DEF Named
    <2> QED BY <1>0, <2>1, <2>2 DEF Named
<1>3. \A p \in streams' : Named(p)' \/ p \in stray'
                          \/ \E q \in Procs : At(q, "create", "streamId")' /\ req'[q].pid = p
    BY <1>0, <1>1, <1>2, PartFacts, PartKinds DEF Streams, Alone
<1>4. \A p \in Pids : Named(p)' =>
         p \in streams' \/ p \in stray'
         \/ \E q \in Procs : At(q, "delete", "row")' /\ req'[q].stream /\ req'[q].pid = p
    BY <1>0, <1>1, <1>2, PartFacts, PartKinds DEF Streams, Alone
<1>5. \A q \in Procs : Making(q)' => Alone(q)'
    <2>1. \A q \in Procs : Making(q)' => Making(q) /\ req'[q].pid = req[q].pid
        BY <1>1, PartFacts
    <2>2. \A q \in Procs : Unmaking(q)' => Unmaking(q) /\ req'[q].pid = req[q].pid
        BY <1>1, PartFacts, PartKinds
    <2>3. ASSUME NEW q \in Procs, Making(q)'
          PROVE  /\ ~Named(req[q].pid)'
                 /\ req'[q].at = "streamId" => req'[q].pid \in streams'
        <3>1. Alone(q)  BY <2>1, <2>3 DEF Streams, Alone
        <3>2. ~Named(req[q].pid)'  BY <1>2, <2>1, <2>3, <3>1 DEF Named, Alone
        <3> QED BY <1>0, <3>1, <3>2 DEF Alone
    <2> QED BY <2>1, <2>2, <2>3, MakersApart
<1>6. \A q \in Procs : At(q, "delete", "stream")' => req'[q].stream
    BY <1>1, PartFacts, PartKinds DEF Streams, Alone
<1>7. \A q \in Procs : At(q, "delete", "row")' /\ req'[q].stream =>
         req'[q].pid \notin streams' \/ req'[q].pid \in stray'
    BY <1>0, <1>1, <1>2, PartFacts, PartKinds DEF Streams, Alone
<1> QED BY <1>3, <1>4, <1>5, <1>6, <1>7 DEF Streams, Alone

LEMMA StreamsOnCrash ==
    ASSUME Types, Streams, Crash
    PROVE  Streams'
<1>0. /\ UNCHANGED <<port, streams>> /\ streams \subseteq Pids
      /\ \A r \in Procs : req'[r] = Idle \/ (req'[r] = req[r] /\ req[r].op \in Scripts)
      /\ stray' = stray \cup {p \in Pids : \E r \in Procs :
                \/ At(r, "create", "streamId") /\ req[r].pid = p
                \/ At(r, "delete", "row") /\ req[r].pid = p /\ req[r].stream}
    BY CrashDoes DEF Types, PortTypes
<1>1. \A q \in Procs : Aside(req'[q])  BY <1>0, AsideFacts DEF Aside, Scripts
<1>2. \A q \in Procs : /\ ~At(q, "create", "streamId")' /\ ~At(q, "delete", "row")'
                       /\ ~At(q, "delete", "stream")' /\ ~Making(q)' /\ ~Unmaking(q)'
    BY <1>1 DEF Aside, At, Making, Unmaking
<1>3. \A p \in Pids : Named(p)' <=> Named(p)  BY <1>0 DEF Named
<1>4. \A p \in streams' : Named(p)' \/ p \in stray'
    <2> TAKE p \in streams'
    <2>1. Named(p) \/ p \in stray \/ \E q \in Procs : At(q, "create", "streamId") /\ req[q].pid = p
        BY <1>0 DEF Streams, Alone
    <2> QED BY <1>0, <1>3, <2>1
<1>5. \A p \in Pids : Named(p)' => p \in streams' \/ p \in stray'
    <2> TAKE p \in Pids
    <2> HAVE Named(p)'
    <2>1. p \in streams \/ p \in stray \/ \E q \in Procs : At(q, "delete", "row") /\ req[q].stream /\ req[q].pid = p
        BY <1>3 DEF Streams, Alone
    <2> QED BY <1>0, <2>1
<1> QED BY <1>2, <1>4, <1>5 DEF Streams, Alone

\* Steps that only look: one request goes from one side part to another.
LEMMA StreamsAside ==
    ASSUME Types, Streams, UNCHANGED <<streams, stray>>, NEW r \in Procs, NEW n \in Requests,
           Step(r, n) \/ Wrotes(r, n), Aside(req[r]), Aside(n),
           \A p \in Pids : Named(p)' <=> Named(p)
    PROVE  Streams'
<1>1. \A q \in Procs : q # r => SamePart(q)  BY SamePartStep
<1>2. SamePart(r)  BY DEF SamePart, Step, Wrotes
<1>3. streams \subseteq Pids  BY DEF Types, PortTypes
<1> QED BY <1>1, <1>2, <1>3, StreamsFrame

LEMMA Next_Streams ==
    ASSUME Types, Honest, FreshIds, Streams, [Next]_vars
    PROVE  Streams'
<1>1. CASE UNCHANGED portfolioVars
    <2>1. UNCHANGED <<req, port, streams, stray>>  BY <1>1 DEF portfolioVars, portVars
    <2>2. \A q \in Procs : SamePart(q)  BY <2>1 DEF SamePart
    <2> QED BY <2>1, <2>2, StreamsFrame DEF Named, Types, PortTypes
<1>2. CASE Crash
    BY <1>2, StreamsOnCrash
<1>3. CASE \E r \in Procs : SnapDoes(r)
    <2>1. PICK r \in Procs : SnapDoes(r)  BY <1>3
    <2>2. UNCHANGED <<port, streams, stray>>  BY <2>1 DEF SnapDoes, portVars
    <2>3. PICK n \in Requests : Step(r, n) /\ n.op \notin {"create", "rename", "delete"}
        BY <2>1 DEF SnapDoes
    <2>4. Aside(n) /\ Aside(req[r])  BY <2>1, <2>3 DEF SnapDoes, Aside
    <2> QED BY <2>2, <2>3, <2>4, StreamsAside DEF Named
<1>4. CASE PortfolioStep
    <2>1. ASSUME NEW r \in Procs, CreateCount(r) \/ CreateSlug(r) \/ CreateWallet(r)
          PROVE  Streams'
        <3>1. UNCHANGED <<port, streams, stray>>
            BY <2>1, CreateCountDoes, CreateSlugDoes, CreateWalletDoes DEF portVars
        <3>2. Aside(req[r])
            BY <2>1, CreateCountDoes, CreateSlugDoes, CreateWalletDoes, AsideFacts
        <3>3. PICK n \in Requests : Step(r, n) /\ Aside(n)
            BY <2>1, CreateCountDoes, CreateSlugDoes, CreateWalletDoes, AsideFacts, KindsAreRequests, IdleFacts
        <3> QED BY <3>1, <3>2, <3>3, StreamsAside DEF Named
    <2>2. ASSUME NEW r \in Procs, RenameRead(r) \/ RenameSlug(r)
          PROVE  Streams'
        <3>1. UNCHANGED <<port, streams, stray>>
            BY <2>2, RenameReadDoes, RenameSlugDoes DEF portVars
        <3>2. Aside(req[r])
            BY <2>2, RenameReadDoes, RenameSlugDoes, AsideFacts
        <3>3. PICK n \in Requests : Step(r, n) /\ Aside(n)
            BY <2>2, RenameReadDoes, RenameSlugDoes, AsideFacts, KindsAreRequests, IdleFacts
        <3> QED BY <3>1, <3>2, <3>3, StreamsAside DEF Named
    <2>3. ASSUME NEW r \in Procs, updatePortfolioName(r)
          PROVE  Streams'
        <3>1. /\ req[r] \in Renames /\ UNCHANGED <<streams, stray>> /\ (Step(r, Idle) \/ Wrotes(r, Idle))
            BY <2>3, updatePortfolioNameDoes
        <3>2. PICK i \in Pids : i = req[r].pid  BY <3>1, Fields
        <3>3. UNCHANGED port \/ (port[i] # NoPortfolio /\ port' = [port EXCEPT ![i].name = req[r].name])
            BY <2>3, <3>2, updatePortfolioNameDoes
        <3>4. \A p \in Pids : Named(p)' <=> Named(p)
            <4>1. CASE UNCHANGED port
                BY <4>1 DEF Named
            <4>2. CASE port[i] # NoPortfolio /\ port' = [port EXCEPT ![i].name = req[r].name]
                <5>1. port[i] \in Rows /\ port \in [Pids -> Rows \cup {NoPortfolio}]
                    BY <4>2 DEF Types, PortTypes
                <5>2. PICK w : w = [port[i] EXCEPT !.name = req[r].name]  OBVIOUS
                <5>3. w.stream = port[i].stream /\ w \in Rows  BY <3>1, <5>1, <5>2, Fields DEF Rows
                <5>4. port' = [port EXCEPT ![i] = w]  BY <4>2, <5>2
                <5>5. port'[i] = w /\ \A p \in Pids : p # i => port'[p] = port[p]  BY <5>1, <5>4
                <5> QED BY <4>2, <5>3, <5>5, NoPortfolioIsNoRow DEF Named
            <4> QED BY <3>3, <4>1, <4>2
        <3> QED BY <3>1, <3>4, StreamsAside, AsideFacts, IdleFacts
    <2>4. ASSUME NEW r \in Procs, ResyncGate(r) \/ ResyncArm(r)
          PROVE  Streams'
        <3>1. UNCHANGED <<port, streams, stray>> /\ req[r].op \in {"idle", "resync"}
            BY <2>4, ResyncsDo
        <3>2. PICK n \in Requests : Step(r, n) /\ Aside(n)
            BY <2>4, ResyncsDo, AsideFacts, KindsAreRequests, IdleFacts
        <3>3. Aside(req[r])  BY <3>1 DEF Aside
        <3> QED BY <3>1, <3>2, <3>3, StreamsAside DEF Named
    <2>5. ASSUME UNCHANGED <<req, port, streams, stray>>
          PROVE  Streams'
        <3>1. \A q \in Procs : SamePart(q)  BY <2>5 DEF SamePart
        <3> QED BY <2>5, <3>1, StreamsFrame DEF Named, Types, PortTypes
    <2>6. \A u \in Users : PlanChanges(u) => UNCHANGED <<req, port, streams, stray>>
        BY DEF PlanChanges
    <2>7. \A p \in Pids : CooldownEnds(p) => UNCHANGED <<req, port, streams, stray>>
        BY DEF CooldownEnds
    <2> QED BY <1>4, <2>1, <2>2, <2>3, <2>4, <2>5, <2>6, <2>7, StreamsOnCreateRow, StreamsOnCreateStream,
               StreamsOnStreamId, StreamsOnDeleteRead, StreamsOnDeleteStream, StreamsOnDeletePortfolio,
               StreamsOnDeleteMe
        DEF PortfolioStep
<1> QED BY <1>1, <1>2, <1>3, <1>4, StepKinds

-----------------------------------------------------------------------------
(* Checked is kept *)

LEMMA PidSets ==
    ASSUME NEW S \in SUBSET Pids
    PROVE  IsFiniteSet(S) /\ Cardinality(S) \in Nat
<1>1. 1 \in Int /\ MaxPortfolios \in Int  BY PortfoliosAssumption
<1>2. IsFiniteSet(1..MaxPortfolios)  BY <1>1, FS_Interval
<1>3. IsFiniteSet(S)  BY <1>2, FS_Subset DEF Pids
<1> QED BY <1>3, FS_CardinalityType

LEMMA OfFacts ==
    ASSUME NEW u
    PROVE  /\ Of(u) \in SUBSET Pids /\ Cardinality(Of(u)) \in Nat
           /\ Of(u)' \in SUBSET Pids /\ Cardinality(Of(u))' \in Nat
<1>1. Of(u) \in SUBSET Pids /\ Of(u)' \in SUBSET Pids  BY DEF Of
<1> QED BY <1>1, PidSets

\* The cap that counts only grows.
LEMMA CapFacts ==
    ASSUME NEW u
    PROVE  /\ Cap(u) \in Nat /\ Cap(u)' \in Nat
           /\ wasPro \subseteq wasPro' => Cap(u) <= Cap(u)'
<1>1. PLAN_CAPS["free"] \in Nat /\ PLAN_CAPS["pro"] \in Nat /\ PLAN_CAPS["free"] <= PLAN_CAPS["pro"]
    BY PortfoliosAssumption DEF Plans
<1>2. Cap(u) \in {PLAN_CAPS["free"], PLAN_CAPS["pro"]} /\ Cap(u)' \in {PLAN_CAPS["free"], PLAN_CAPS["pro"]}
    BY DEF Cap
<1>3. wasPro \subseteq wasPro' => Cap(u)' = Cap(u) \/ (Cap(u) = PLAN_CAPS["free"] /\ Cap(u)' = PLAN_CAPS["pro"])
    BY DEF Cap
<1> QED BY <1>1, <1>2, <1>3

\* The portfolios of u after a step are among those before it, with their names and wallets.
Less(u) == /\ Of(u)' \subseteq Of(u)
           /\ \A p \in Of(u)' : port'[p].name = port[p].name /\ port'[p].wallet = port[p].wallet

LEMMA LessKeeps ==
    ASSUME NEW u, Less(u), wasPro \subseteq wasPro'
    PROVE  /\ Apart(u) => Apart(u)'
           /\ Cardinality(Of(u)) < Cap(u) => (Cardinality(Of(u)) < Cap(u))'
           /\ \A s : (\A p \in Of(u) : Slug[port[p].name] # s) => \A p \in Of(u)' : Slug[port'[p].name] # s
           /\ \A s, i : (\A p \in Of(u) \ {i} : Slug[port[p].name] # s)
                          => \A p \in Of(u)' \ {i} : Slug[port'[p].name] # s
           /\ \A w : (\A p \in Of(u) : port[p].wallet # w) => \A p \in Of(u)' : port'[p].wallet # w
<1>1. Of(u)' \subseteq Of(u) /\ \A p \in Of(u)' : port'[p].name = port[p].name /\ port'[p].wallet = port[p].wallet
    BY DEF Less
<1>2. Cardinality(Of(u))' <= Cardinality(Of(u))
    <2>1. PICK S \in SUBSET Pids, T \in SUBSET Pids : S = Of(u) /\ T = Of(u)'  BY OfFacts
    <2>2. Cardinality(T) <= Cardinality(S)  BY <1>1, <2>1, PidSets, FS_Subset
    <2> QED BY <2>1, <2>2
<1>3. Cap(u) <= Cap(u)' /\ Cap(u) \in Nat /\ Cap(u)' \in Nat  BY CapFacts
<1>4. Cardinality(Of(u)) \in Nat /\ Cardinality(Of(u))' \in Nat  BY OfFacts
<1>5. Cardinality(Of(u)) < Cap(u) => (Cardinality(Of(u)) < Cap(u))'  BY <1>2, <1>3, <1>4
<1>6. Cardinality(Of(u)) <= Cap(u) => (Cardinality(Of(u)) <= Cap(u))'  BY <1>2, <1>3, <1>4
<1>7. Apart(u) => Apart(u)'  BY <1>1, <1>6 DEF Apart
<1> QED BY <1>1, <1>5, <1>7

\* What a request has checked goes on holding when its user's portfolios get less.
LEMMA RequestKeeps ==
    ASSUME NEW q \in Procs, NEW c, c = req'[q], Less(c.user), wasPro \subseteq wasPro'
    PROVE  /\ CheckedCreate(c) => CheckedCreate(req[q])'
           /\ CheckedRename(c) => CheckedRename(req[q])'
<1>1. CheckedCreate(c) => CheckedCreate(c)'
    BY LessKeeps DEF CheckedCreate
<1>2. CheckedRename(c) => CheckedRename(c)'
    <2>1. PICK s, i : s = Slug[c.name] /\ i = c.pid  OBVIOUS
    <2>2. (\A p \in Of(c.user) \ {i} : Slug[port[p].name] # s)
            => \A p \in Of(c.user)' \ {i} : Slug[port'[p].name] # s
        BY LessKeeps
    <2> QED BY <2>1, <2>2 DEF CheckedRename
<1>3. CheckedCreate(c)' => CheckedCreate(req[q])'
    BY DEF CheckedCreate, Of, Cap
<1>4. CheckedRename(c)' => CheckedRename(req[q])'
    BY DEF CheckedRename, Of
<1> QED BY <1>1, <1>2, <1>3, <1>4

\* Rows go, or stay under the user, the name and the wallet they had.
Fewer == \A p \in Pids : \/ port'[p] = NoPortfolio
                         \/ /\ port[p] # NoPortfolio /\ port'[p].user = port[p].user
                            /\ port'[p].name = port[p].name /\ port'[p].wallet = port[p].wallet

LEMMA FewerIsLess ==
    ASSUME Fewer, NEW u
    PROVE  Less(u)
BY DEF Fewer, Less, Of

\* A step that takes rows away at most, and whose new request has checked what it says.
LEMMA CheckedFrame ==
    ASSUME Checked, Fewer, wasPro \subseteq wasPro', raced \subseteq raced',
           \A u \in Users : plan'[u] = "pro" => u \in wasPro',
           \A q \in Procs : req'[q] # req[q] =>
             /\ req'[q].op = "create" /\ ~req'[q].stale => CheckedCreate(req'[q])
             /\ req'[q].op = "rename" =>
                  /\ req'[q].pid \in Pids
                  /\ port[req'[q].pid] # NoPortfolio => port[req'[q].pid].user = req'[q].user
                  /\ ~req'[q].stale => CheckedRename(req'[q]),
           \A q \in Procs : req[q].op = "rename" => req[q].pid \in Pids
    PROVE  Checked'
<1>1. \A u \in Users \ raced' : Apart(u)'
    BY FewerIsLess, LessKeeps DEF Checked
<1>2. ASSUME NEW q \in Procs, req'[q].op = "create", ~req'[q].stale
      PROVE  CheckedCreate(req[q])'
    <2>1. PICK c : c = req'[q]  OBVIOUS
    <2>2. CheckedCreate(c)
        <3>1. CASE req'[q] = req[q]
            BY <1>2, <2>1, <3>1 DEF Checked
        <3>2. CASE req'[q] # req[q]
            BY <1>2, <2>1, <3>2
        <3> QED BY <3>1, <3>2
    <2>3. Less(c.user)  BY FewerIsLess
    <2> QED BY <2>1, <2>2, <2>3, RequestKeeps
<1>3. ASSUME NEW q \in Procs, req'[q].op = "rename"
      PROVE  /\ port'[req'[q].pid] # NoPortfolio => port'[req'[q].pid].user = req'[q].user
             /\ ~req'[q].stale => CheckedRename(req[q])'
    <2>1. PICK c : c = req'[q]  OBVIOUS
    <2>2. /\ c.pid \in Pids
          /\ port[c.pid] # NoPortfolio => port[c.pid].user = c.user
          /\ ~c.stale => CheckedRename(c)
        <3>1. CASE req'[q] = req[q]
            BY <1>3, <2>1, <3>1 DEF Checked
        <3>2. CASE req'[q] # req[q]
            BY <1>3, <2>1, <3>2
        <3> QED BY <3>1, <3>2
    <2>3. Less(c.user)  BY FewerIsLess
    <2>4. ~c.stale => CheckedRename(req[q])'  BY <2>1, <2>2, <2>3, RequestKeeps
    <2>5. port'[c.pid] # NoPortfolio => port'[c.pid].user = c.user  BY <2>2 DEF Fewer
    <2> QED BY <2>1, <2>4, <2>5
<1> QED BY <1>1, <1>2, <1>3 DEF Checked

\* The same, for a step of one request.
LEMMA CheckedStep ==
    ASSUME Types, Checked, UNCHANGED <<plan, wasPro, raced>>, Fewer, NEW r \in Procs, NEW n \in Requests, Step(r, n),
           n.op = "create" /\ ~n.stale => CheckedCreate(n),
           n.op = "rename" =>
             /\ n.pid \in Pids
             /\ port[n.pid] # NoPortfolio => port[n.pid].user = n.user
             /\ ~n.stale => CheckedRename(n)
    PROVE  Checked'
<1>1. \A q \in Procs : req[q].op = "rename" => req[q].pid \in Pids  BY TypeFacts, Fields
<1>2. \A q \in Procs : req'[q] # req[q] => q = r /\ req'[q] = n  BY DEF Step
<1>3. \A u \in Users : plan'[u] = "pro" => u \in wasPro'  BY DEF Checked
<1>4. \A q \in Procs : req'[q] # req[q] =>
             /\ req'[q].op = "create" /\ ~req'[q].stale => CheckedCreate(req'[q])
             /\ req'[q].op = "rename" =>
                  /\ req'[q].pid \in Pids
                  /\ port[req'[q].pid] # NoPortfolio => port[req'[q].pid].user = req'[q].user
                  /\ ~req'[q].stale => CheckedRename(req'[q])
    <2> TAKE q \in Procs
    <2> HAVE req'[q] # req[q]
    <2>1. PICK c : c = req'[q]  OBVIOUS
    <2>2. c = n  BY <1>2, <2>1
    <2> QED BY <2>1, <2>2
<1> QED BY <1>1, <1>3, <1>4, CheckedFrame

LEMMA SameRowsAreFewer ==
    ASSUME UNCHANGED port
    PROVE  Fewer
BY DEF Fewer

\* A row is written for a user: its own checks make it fit in, and every other request of the
\* user is stale from then on.
LEMMA CheckedWrite ==
    ASSUME Types, Checked, UNCHANGED <<plan, wasPro>>, NEW r \in Procs, NEW n \in Requests, Wrotes(r, n),
           req[r].op \in {"create", "rename"}, NEW v \in Users, v = req[r].user,
           n.op = "idle" \/ (n.op = "create" /\ n.at = "stream"),
           raced' = IF req[r].stale THEN raced \cup {v} ELSE raced,
           \A u \in Users : u # v => Less(u),
           ~req[r].stale /\ Apart(v) => Apart(v)',
           \A q \in Procs : (q # r /\ req[q].op = "rename" /\ port'[req[q].pid] # NoPortfolio) =>
             port[req[q].pid] # NoPortfolio /\ port'[req[q].pid].user = port[req[q].pid].user
    PROVE  Checked'
<1>1. ASSUME NEW u \in Users \ raced' PROVE Apart(u)'
    <2>1. u \notin raced /\ Apart(u)  BY <1>1 DEF Checked
    <2>2. CASE u = v
        BY <1>1, <2>1, <2>2
    <2>3. CASE u # v
        BY <2>1, <2>3, LessKeeps
    <2> QED BY <2>2, <2>3
<1>2. \A u \in Users : plan'[u] = "pro" => u \in wasPro'  BY DEF Checked
<1>3. ASSUME NEW q \in Procs, req'[q].op = "create", ~req'[q].stale
      PROVE  CheckedCreate(req[q])'
    <2>1. PICK c : c = req'[q]  OBVIOUS
    <2>2. CASE q = r
        <3>1. c.at = "stream"  BY <1>3, <2>1, <2>2 DEF Wrotes
        <3> QED BY <2>1, <3>1 DEF CheckedCreate
    <2>3. CASE q # r
        <3>1. req'[q] = req[q] /\ req[q].user # v
            BY <1>3, <2>3, Fields DEF Wrotes
        <3>2. CheckedCreate(c)  BY <1>3, <2>1, <3>1 DEF Checked
        <3>3. c.user \in Users /\ c.user # v  BY <1>3, <2>1, <3>1, TypeFacts, Fields
        <3>4. Less(c.user)  BY <3>3
        <3> QED BY <2>1, <3>2, <3>4, RequestKeeps
    <2> QED BY <2>2, <2>3
<1>4. ASSUME NEW q \in Procs, req'[q].op = "rename"
      PROVE  /\ port'[req'[q].pid] # NoPortfolio => port'[req'[q].pid].user = req'[q].user
             /\ ~req'[q].stale => CheckedRename(req[q])'
    <2>1. q # r  BY <1>4 DEF Wrotes
    <2>2. /\ req[q].op = "rename" /\ req'[q].pid = req[q].pid /\ req'[q].user = req[q].user
          /\ \/ req'[q].stale
             \/ req'[q] = req[q] /\ req[q].user # v
        BY <1>4, <2>1, Fields DEF Wrotes
    <2>3. port'[req[q].pid] # NoPortfolio => port'[req[q].pid].user = req[q].user
        BY <2>1, <2>2 DEF Checked
    <2>4. ASSUME ~req'[q].stale PROVE CheckedRename(req[q])'
        <3>1. PICK c : c = req'[q]  OBVIOUS
        <3>2. CheckedRename(c)  BY <2>2, <2>4, <3>1 DEF Checked
        <3>3. c.user \in Users /\ c.user # v  BY <2>2, <2>4, <3>1, TypeFacts, Fields
        <3>4. Less(c.user)  BY <3>3
        <3> QED BY <3>1, <3>2, <3>4, RequestKeeps
    <2> QED BY <2>2, <2>3, <2>4
<1> QED BY <1>1, <1>2, <1>3, <1>4 DEF Checked

LEMMA CheckedOnCreateRow ==
    ASSUME Types, FreshIds, Checked, NEW r \in Procs, createPortfolioRow(r)
    PROVE  Checked'
<1>0. /\ req[r] \in Creates /\ req[r].at = "row" /\ UNCHANGED <<plan, wasPro>>
      /\ port \in [Pids -> Rows \cup {NoPortfolio}]
    BY createPortfolioRowDoes DEF Types, PortTypes
<1>1. CASE Step(r, Idle) /\ UNCHANGED <<port, raced>>
    BY <1>0, <1>1, CheckedStep, SameRowsAreFewer, IdleFacts
<1>2. CASE ~(Step(r, Idle) /\ UNCHANGED <<port, raced>>)
    <2>1. PICK i \in Pids : i = nextId  BY <1>2, createPortfolioRowDoes
    <2>2. PICK v \in Users : v = req[r].user  BY <1>0, Fields
    <2>3. PICK row \in Rows : /\ port' = [port EXCEPT ![i] = row]
                              /\ row.user = v /\ row.name = req[r].name /\ row.wallet = req[r].wallet
        BY <1>2, <2>1, <2>2, createPortfolioRowDoes
    <2>4. PICK n \in Requests : Wrotes(r, n) /\ (n = Idle \/ (n \in Creates /\ n.at = "stream"))
        BY <1>2, createPortfolioRowDoes
    <2>5. raced' = IF req[r].stale THEN raced \cup {v} ELSE raced
        BY <1>2, <2>2, createPortfolioRowDoes
    <2>6. n.op = "idle" \/ (n.op = "create" /\ n.at = "stream")  BY <2>4, IdleFacts, Fields
    <2>7. port[i] = NoPortfolio /\ \A q \in Procs : req[q].op = "rename" => req[q].pid # i
        <3>1. i >= nextId /\ i \in Int  BY <2>1 DEF Pids
        <3>2. \A q \in Procs : req[q].op = "rename" => req[q].pid < nextId  BY DEF FreshIds
        <3> QED BY <2>1, <3>1, <3>2 DEF FreshIds
    <2>8. port'[i] = row /\ row # NoPortfolio /\ \A p \in Pids : p # i => port'[p] = port[p]
        BY <1>0, <2>3, NoPortfolioIsNoRow
    <2>9. \A u \in Users : u # v => Less(u)
        BY <2>3, <2>8 DEF Less, Of
    <2>10. ASSUME ~req[r].stale, Apart(v) PROVE Apart(v)'
        <3>1. CheckedCreate(req[r])  BY <1>0, <2>10, Fields DEF Checked
        <3>2. /\ Cardinality(Of(v)) < Cap(v)
              /\ \A p \in Of(v) : Slug[port[p].name] # Slug[row.name]
              /\ row.wallet = Manual \/ \A p \in Of(v) : port[p].wallet # row.wallet
            BY <1>0, <2>2, <2>3, <3>1 DEF CheckedCreate
        <3>3. Of(v)' = Of(v) \cup {i} /\ i \notin Of(v)
            BY <2>3, <2>7, <2>8 DEF Of
        <3>4. \A p \in Of(v) : port'[p] = port[p]
            BY <2>8, <3>3, OfFacts
        <3>5. ASSUME NEW p \in Of(v)', NEW q \in Of(v)', p # q
              PROVE  /\ Slug[port'[p].name] # Slug[port'[q].name]
                     /\ port'[p].wallet # port'[q].wallet \/ port'[p].wallet = Manual
            <4>1. CASE p \in Of(v) /\ q \in Of(v)
                BY <2>10, <3>4, <3>5, <4>1 DEF Apart
            <4>2. CASE p = i /\ q \in Of(v)
                BY <2>8, <3>2, <3>4, <4>2
            <4>3. CASE p \in Of(v) /\ q = i
                BY <2>8, <3>2, <3>4, <4>3
            <4> QED BY <3>3, <3>5, <4>1, <4>2, <4>3
        <3>6. Cardinality(Of(v))' <= Cap(v)'
            <4>1. PICK S \in SUBSET Pids : S = Of(v)  BY OfFacts
            <4>2. Cardinality(S \cup {i}) = Cardinality(S) + 1
                BY <3>3, <4>1, PidSets, FS_AddElement
            <4>3. Cap(v)' = Cap(v) /\ Cap(v) \in Nat  BY <1>0, CapFacts DEF Cap
            <4>4. Cardinality(S) \in Nat  BY PidSets
            <4>5. Cardinality(Of(v))' = Cardinality(S) + 1  BY <3>3, <4>1, <4>2
            <4>6. Cardinality(S) < Cap(v)  BY <3>2, <4>1
            <4> QED BY <4>3, <4>4, <4>5, <4>6
        <3> QED BY <3>5, <3>6 DEF Apart
    <2>11. \A q \in Procs : (q # r /\ req[q].op = "rename" /\ port'[req[q].pid] # NoPortfolio) =>
             port[req[q].pid] # NoPortfolio /\ port'[req[q].pid].user = port[req[q].pid].user
        BY <2>7, <2>8, TypeFacts, Fields
    <2> QED BY <1>0, <2>2, <2>4, <2>5, <2>6, <2>9, <2>10, <2>11, CheckedWrite, Fields
<1> QED BY <1>1, <1>2

LEMMA CheckedOnRename ==
    ASSUME Types, FreshIds, Checked, NEW r \in Procs, updatePortfolioName(r)
    PROVE  Checked'
<1>0. /\ req[r] \in Renames /\ req[r].at = "row" /\ UNCHANGED <<plan, wasPro>>
      /\ port \in [Pids -> Rows \cup {NoPortfolio}]
    BY updatePortfolioNameDoes DEF Types, PortTypes
<1>1. CASE Step(r, Idle) /\ UNCHANGED <<port, raced>>
    BY <1>0, <1>1, CheckedStep, SameRowsAreFewer, IdleFacts
<1>2. CASE ~(Step(r, Idle) /\ UNCHANGED <<port, raced>>)
    <2>1. PICK i \in Pids, v \in Users, m \in Names : i = req[r].pid /\ v = req[r].user /\ m = req[r].name
        BY <1>0, Fields
    <2>2. /\ port[i] # NoPortfolio /\ Wrotes(r, Idle) /\ port' = [port EXCEPT ![i].name = m]
          /\ raced' = IF req[r].stale THEN raced \cup {v} ELSE raced
        BY <1>2, <2>1, updatePortfolioNameDoes
    <2>3. port[i] \in Rows /\ port[i].user = v  BY <1>0, <2>1, <2>2, Fields DEF Checked
    <2>4. PICK w : w = [port[i] EXCEPT !.name = m]  OBVIOUS
    <2>5. w \in Rows /\ w.user = v /\ w.name = m /\ w.wallet = port[i].wallet  BY <2>3, <2>4 DEF Rows
    <2>6. port' = [port EXCEPT ![i] = w]  BY <2>2, <2>4
    <2>7. port'[i] = w /\ w # NoPortfolio /\ \A p \in Pids : p # i => port'[p] = port[p]
        BY <1>0, <2>5, <2>6, NoPortfolioIsNoRow
    <2>8. \A u \in Users : u # v => Less(u)
        BY <2>5, <2>7 DEF Less, Of
    <2>9. Of(v)' = Of(v) /\ i \in Of(v)
        BY <2>2, <2>3, <2>5, <2>7 DEF Of
    <2>10. ASSUME ~req[r].stale, Apart(v) PROVE Apart(v)'
        <3>1. \A p \in Of(v) \ {i} : Slug[port[p].name] # Slug[m]
            BY <1>0, <2>1, <2>10, Fields DEF Checked, CheckedRename
        <3>2. \A p \in Of(v) : p # i => port'[p] = port[p]
            BY <2>7, OfFacts
        <3>3. ASSUME NEW p \in Of(v)', NEW q \in Of(v)', p # q
              PROVE  /\ Slug[port'[p].name] # Slug[port'[q].name]
                     /\ port'[p].wallet # port'[q].wallet \/ port'[p].wallet = Manual
            <4>0. p \in Of(v) /\ q \in Of(v)  BY <2>9, <3>3
            <4>1. CASE p # i /\ q # i
                BY <2>10, <3>2, <3>3, <4>0, <4>1 DEF Apart
            <4>2. CASE p = i
                BY <2>5, <2>7, <2>10, <3>1, <3>2, <3>3, <4>0, <4>2 DEF Apart
            <4>3. CASE q = i
                BY <2>5, <2>7, <2>10, <3>1, <3>2, <3>3, <4>0, <4>3 DEF Apart
            <4> QED BY <4>1, <4>2, <4>3
        <3>4. Cardinality(Of(v))' <= Cap(v)'
            BY <1>0, <2>9, <2>10 DEF Apart, Cap
        <3> QED BY <3>3, <3>4 DEF Apart
    <2>11. \A q \in Procs : (q # r /\ req[q].op = "rename" /\ port'[req[q].pid] # NoPortfolio) =>
             port[req[q].pid] # NoPortfolio /\ port'[req[q].pid].user = port[req[q].pid].user
        BY <2>2, <2>3, <2>5, <2>7, TypeFacts, Fields
    <2> QED BY <1>0, <2>1, <2>2, <2>8, <2>10, <2>11, CheckedWrite, Fields, IdleFacts
<1> QED BY <1>1, <1>2

\* The plan a request is counted against is one the user has had.
LEMMA PlanIsCapped ==
    ASSUME Types, Checked, NEW u \in Users
    PROVE  PLAN_CAPS[plan[u]] <= Cap(u) /\ PLAN_CAPS[plan[u]] \in Nat
<1>1. plan[u] \in {"free", "pro"}  BY DEF Types, PortTypes, Plans
<1>2. PLAN_CAPS["free"] \in Nat /\ PLAN_CAPS["pro"] \in Nat /\ PLAN_CAPS["free"] <= PLAN_CAPS["pro"]
    BY PortfoliosAssumption DEF Plans
<1>3. CASE plan[u] = "pro"
    BY <1>2, <1>3 DEF Checked, Cap
<1>4. CASE plan[u] = "free"
    BY <1>2, <1>4 DEF Cap
<1> QED BY <1>1, <1>3, <1>4

LEMMA CheckedOnCount ==
    ASSUME Types, Checked, NEW r \in Procs, CreateCount(r)
    PROVE  Checked'
<1>1. UNCHANGED <<plan, wasPro, raced, port>>  BY CreateCountDoes DEF portVars
<1>2. PICK n \in Creates : Step(r, n) /\ n.at = "slug" /\ Cardinality(Of(n.user)) < PLAN_CAPS[plan[n.user]]
    BY CreateCountDoes
<1>3. PICK u \in Users : u = n.user  BY Fields
<1>4. Cardinality(Of(u)) < Cap(u)
    <2>1. Cardinality(Of(u)) \in Nat  BY OfFacts
    <2>2. PLAN_CAPS[plan[u]] <= Cap(u) /\ PLAN_CAPS[plan[u]] \in Nat /\ Cap(u) \in Nat
        BY PlanIsCapped, CapFacts
    <2>3. Cardinality(Of(u)) < PLAN_CAPS[plan[u]]  BY <1>2, <1>3
    <2> QED BY <2>1, <2>2, <2>3
<1>5. CheckedCreate(n)  BY <1>2, <1>3, <1>4 DEF CheckedCreate
<1> QED BY <1>1, <1>2, <1>5, CheckedStep, SameRowsAreFewer, KindsAreRequests, Fields

LEMMA CheckedOnSlug ==
    ASSUME Types, Checked, NEW r \in Procs, CreateSlug(r)
    PROVE  Checked'
<1>1. UNCHANGED <<plan, wasPro, raced, port>> /\ req[r] \in Creates /\ req[r].at = "slug"
    BY CreateSlugDoes DEF portVars
<1>2. CASE Step(r, Idle)
    BY <1>1, <1>2, CheckedStep, SameRowsAreFewer, IdleFacts
<1>3. CASE ~Step(r, Idle)
    <2>1. PICK n \in Creates : /\ Step(r, n) /\ n.at \in {"wallet", "row"}
                               /\ n.at = "row" => n.wallet = Manual
                               /\ n.user = req[r].user /\ n.name = req[r].name /\ n.stale = req[r].stale
        BY <1>3, CreateSlugDoes
    <2>2. \A p \in Of(n.user) : Slug[port[p].name] # Slug[n.name]
        <3>1. assertSlugAvailable(n.user, n.name, 0)  BY <1>3, <2>1, CreateSlugDoes
        <3>2. 0 \notin Of(n.user)  BY PortfoliosAssumption DEF Of, Pids
        <3> QED BY <3>1, <3>2 DEF assertSlugAvailable
    <2>3. ~n.stale => CheckedCreate(n)
        BY <1>1, <2>1, <2>2, Fields DEF Checked, CheckedCreate
    <2> QED BY <1>1, <2>1, <2>3, CheckedStep, SameRowsAreFewer, KindsAreRequests, Fields
<1> QED BY <1>2, <1>3

LEMMA CheckedOnWallet ==
    ASSUME Types, Checked, NEW r \in Procs, CreateWallet(r)
    PROVE  Checked'
<1>1. UNCHANGED <<plan, wasPro, raced, port>> /\ req[r] \in Creates /\ req[r].at = "wallet"
    BY CreateWalletDoes DEF portVars
<1>2. CASE Step(r, Idle)
    BY <1>1, <1>2, CheckedStep, SameRowsAreFewer, IdleFacts
<1>3. CASE ~Step(r, Idle)
    <2>1. PICK n \in Creates : /\ Step(r, n) /\ n.at = "row" /\ n.wallet = req[r].wallet
                               /\ n.user = req[r].user /\ n.name = req[r].name /\ n.stale = req[r].stale
        BY <1>3, CreateWalletDoes
    <2>2. \A p \in Of(n.user) : port[p].wallet # n.wallet  BY <1>3, <2>1, CreateWalletDoes
    <2>3. ~n.stale => CheckedCreate(n)
        BY <1>1, <2>1, <2>2, Fields DEF Checked, CheckedCreate
    <2> QED BY <1>1, <2>1, <2>3, CheckedStep, SameRowsAreFewer, KindsAreRequests, Fields
<1> QED BY <1>2, <1>3

\* From the row on, a creation has nothing left to check.
LEMMA CheckedOnStream ==
    ASSUME Types, Checked, NEW r \in Procs, createStream(r) \/ CreateStreamId(r)
    PROVE  Checked'
<1>1. UNCHANGED <<plan, wasPro, raced>> /\ req[r] \in Creates
    BY createStreamDoes, CreateStreamIdDoes
<1>2. PICK n \in Creates : Step(r, n) /\ n.at \in {"streamId", "sync"}
    BY createStreamDoes, CreateStreamIdDoes
<1>3. CheckedCreate(n)  BY <1>2 DEF CheckedCreate
<1>4. PICK i : i = req[r].pid  OBVIOUS
<1>5. Fewer
    <2>1. CASE UNCHANGED port
        BY <2>1, SameRowsAreFewer
    <2>2. CASE port[i] # NoPortfolio /\ port' = [port EXCEPT ![i].stream = TRUE]
        <3>0. port \in [Pids -> Rows \cup {NoPortfolio}]  BY DEF Types, PortTypes
        <3>1. ASSUME NEW p \in Pids, port[p] # NoPortfolio
              PROVE  /\ port'[p].user = port[p].user /\ port'[p].name = port[p].name
                     /\ port'[p].wallet = port[p].wallet
            <4>1. CASE p = i
                <5>1. port[i] \in Rows  BY <3>0, <3>1, <4>1
                <5>2. PICK w : w = [port[i] EXCEPT !.stream = TRUE]  OBVIOUS
                <5>3. w.user = port[i].user /\ w.name = port[i].name /\ w.wallet = port[i].wallet
                    BY <5>1, <5>2 DEF Rows
                <5>4. port' = [port EXCEPT ![i] = w]  BY <2>2, <5>2
                <5>5. port'[p] = w  BY <3>0, <4>1, <5>4
                <5> QED BY <4>1, <5>3, <5>5
            <4>2. CASE p # i
                BY <2>2, <3>0, <4>2
            <4> QED BY <4>1, <4>2
        <3>2. ASSUME NEW p \in Pids, port[p] = NoPortfolio
              PROVE  port'[p] = NoPortfolio
            BY <2>2, <3>0, <3>2
        <3> QED BY <3>1, <3>2 DEF Fewer
    <2> QED BY <1>4, <2>1, <2>2, createStreamDoes, CreateStreamIdDoes
<1> QED BY <1>1, <1>2, <1>3, <1>5, CheckedStep, KindsAreRequests, Fields

LEMMA CheckedOnRenameReads ==
    ASSUME Types, Checked, NEW r \in Procs, RenameRead(r) \/ RenameSlug(r)
    PROVE  Checked'
<1>1. UNCHANGED <<plan, wasPro, raced, port>>  BY RenameReadDoes, RenameSlugDoes DEF portVars
<1>2. CASE RenameRead(r)
    <2>1. PICK n \in Renames : /\ Step(r, n) /\ n.at = "slug"
                               /\ port[n.pid] # NoPortfolio /\ n.user = port[n.pid].user
        BY <1>2, RenameReadDoes
    <2>2. CheckedRename(n)  BY <2>1 DEF CheckedRename
    <2> QED BY <1>1, <2>1, <2>2, CheckedStep, SameRowsAreFewer, KindsAreRequests, Fields
<1>3. CASE RenameSlug(r) /\ Step(r, Idle)
    BY <1>1, <1>3, CheckedStep, SameRowsAreFewer, IdleFacts
<1>4. CASE RenameSlug(r) /\ ~Step(r, Idle)
    <2>0. req[r] \in Renames  BY <1>4, RenameSlugDoes
    <2>1. PICK n \in Renames : /\ Step(r, n) /\ n.at = "row" /\ n.user = req[r].user
                               /\ n.name = req[r].name /\ n.pid = req[r].pid
        BY <1>4, RenameSlugDoes
    <2>2. assertSlugAvailable(n.user, n.name, n.pid)  BY <1>4, <2>1, RenameSlugDoes
    <2>3. CheckedRename(n)  BY <2>2 DEF CheckedRename, assertSlugAvailable
    <2>4. port[n.pid] # NoPortfolio => port[n.pid].user = n.user
        BY <2>0, <2>1, Fields DEF Checked
    <2> QED BY <1>1, <2>1, <2>3, <2>4, CheckedStep, SameRowsAreFewer, KindsAreRequests, Fields
<1> QED BY <1>2, <1>3, <1>4

LEMMA CheckedOnDelete ==
    ASSUME Types, Checked, NEW r \in Procs, DeleteRead(r) \/ deleteStream(r) \/ deletePortfolio(r)
    PROVE  Checked'
<1>1. UNCHANGED <<plan, wasPro, raced>>
    BY DeleteReadDoes, deleteStreamDoes, deletePortfolioDoes DEF portVars
<1>2. PICK n \in Requests : Step(r, n) /\ n.op \in {"idle", "delete"}
    BY DeleteReadDoes, deleteStreamDoes, deletePortfolioDoes, KindsAreRequests, Fields, IdleFacts
<1>3. Fewer
    <2>1. UNCHANGED port \/ port' = [port EXCEPT ![req[r].pid] = NoPortfolio]
        BY DeleteReadDoes, deleteStreamDoes, deletePortfolioDoes DEF portVars
    <2> QED BY <2>1, SameRowsAreFewer DEF Fewer, Types, PortTypes
<1> QED BY <1>1, <1>2, <1>3, CheckedStep

LEMMA CheckedOnUser ==
    ASSUME Types, Checked, NEW u \in Users, deleteMe(u) \/ PlanChanges(u)
    PROVE  Checked'
<1>1. UNCHANGED <<req, raced>> /\ wasPro \subseteq wasPro'  BY DEF deleteMe, PlanChanges
<1>2. \A q \in Procs : req[q].op = "rename" => req[q].pid \in Pids  BY TypeFacts, Fields
<1>3. Fewer
    <2>1. UNCHANGED port \/ port' = [p \in Pids |-> IF p \in Of(u) THEN NoPortfolio ELSE port[p]]
        BY DEF deleteMe, PlanChanges
    <2> QED BY <2>1, SameRowsAreFewer DEF Fewer
<1>4. \A v \in Users : plan'[v] = "pro" => v \in wasPro'
    <2>1. plan \in [Users -> Plans]  BY DEF Types, PortTypes
    <2>2. CASE deleteMe(u)
        BY <2>1, <2>2 DEF deleteMe, Checked
    <2>3. CASE PlanChanges(u)
        BY <2>1, <2>3 DEF PlanChanges, Checked
    <2> QED BY <2>2, <2>3
<1> QED BY <1>1, <1>2, <1>3, <1>4, CheckedFrame

LEMMA Next_Checked ==
    ASSUME Types, Honest, FreshIds, Checked, [Next]_vars
    PROVE  Checked'
<1>0. \A q \in Procs : req[q].op = "rename" => req[q].pid \in Pids  BY TypeFacts, Fields
<1>1. ASSUME UNCHANGED <<plan, port, raced, wasPro, req>>
      PROVE  Checked'
    <2>1. \A u \in Users : plan'[u] = "pro" => u \in wasPro'  BY <1>1 DEF Checked
    <2> QED BY <1>0, <1>1, <2>1, CheckedFrame, SameRowsAreFewer
<1>2. CASE UNCHANGED portfolioVars
    BY <1>1, <1>2 DEF portfolioVars, portVars
<1>3. CASE Crash
    <2>1. UNCHANGED <<plan, port, raced, wasPro>>  BY <1>3, CrashDoes
    <2>2. \A q \in Procs : req'[q] # req[q] => req'[q].op = "idle"  BY <1>3, CrashDoes, IdleFacts
    <2>3. \A u \in Users : plan'[u] = "pro" => u \in wasPro'  BY <2>1 DEF Checked
    <2> QED BY <1>0, <2>1, <2>2, <2>3, CheckedFrame, SameRowsAreFewer
<1>4. CASE \E r \in Procs : SnapDoes(r)
    <2>1. PICK r \in Procs : SnapDoes(r)  BY <1>4
    <2>2. UNCHANGED <<plan, port, raced, wasPro>>  BY <2>1 DEF SnapDoes, portVars
    <2>3. PICK n \in Requests : Step(r, n) /\ n.op \notin {"create", "rename", "delete"}
        BY <2>1 DEF SnapDoes
    <2> QED BY <2>2, <2>3, CheckedStep, SameRowsAreFewer
<1>5. CASE PortfolioStep
    <2>1. ASSUME NEW r \in Procs, ResyncGate(r) \/ ResyncArm(r)
          PROVE  Checked'
        <3>1. UNCHANGED <<plan, port, raced, wasPro>>  BY <2>1, ResyncsDo
        <3>2. PICK n \in Requests : Step(r, n) /\ n.op \in {"idle", "resync"}
            BY <2>1, ResyncsDo, KindsAreRequests, Fields, IdleFacts
        <3> QED BY <3>1, <3>2, CheckedStep, SameRowsAreFewer
    <2>2. \A p \in Pids : CooldownEnds(p) => UNCHANGED <<plan, port, raced, wasPro, req>>
        BY DEF CooldownEnds
    <2> QED BY <1>1, <1>5, <2>1, <2>2, CheckedOnCount, CheckedOnSlug, CheckedOnWallet, CheckedOnCreateRow,
               CheckedOnStream, CheckedOnRenameReads, CheckedOnRename, CheckedOnDelete, CheckedOnUser
        DEF PortfolioStep
<1> QED BY <1>2, <1>3, <1>4, <1>5, StepKinds

-----------------------------------------------------------------------------
(* Covering is kept *)

\* No id comes back, and no row of a day within the retention goes while its portfolio stays.
Lasting ==
    /\ ops' = ops /\ nextId' \in Int /\ nextId <= nextId' /\ today' \in Int /\ today <= today'
    /\ \A p \in Pids : p < nextId /\ port'[p] # NoPortfolio => port[p] # NoPortfolio
    /\ \A p \in Pids, d \in Days : Has(p, d) /\ port'[p] # NoPortfolio /\ d >= today' - Retention => Has(p, d)'

LEMMA CoveredKeeps ==
    ASSUME Types, Lasting, NEW k \in Runs, Covered(k)
    PROVE  Covered(k)'
<1>1. DOMAIN k.owner \subseteq Pids /\ k.date \in Days  BY OwnerFacts
<1>2. nextId \in Int /\ today \in Int /\ Retention \in Int /\ k.date \in Int /\ \A p \in Pids : p \in Int
    BY <1>1, PortfoliosAssumption, SnapshotsAssumption DEF Types, PortTypes, SnapTypes, Days, Pids
<1>3. CASE k.at \in {"loop", "write", "prune", "tokens"}
    <2>1. ASSUME NEW p \in DOMAIN k.owner
          PROVE  p < nextId /\ p < nextId' /\ p \in Pids
        <3>1. p < nextId /\ p \in Pids  BY <1>1, <1>3 DEF Covered
        <3> QED BY <1>2, <3>1 DEF Lasting
    <2>2. ASSUME NEW p \in Through(k)
          PROVE  /\ k.memo[k.owner[p]] # NoPlan
                 /\ (k.memo[k.owner[p]] = "pro" /\ port'[p] # NoPortfolio
                     /\ k.date >= today' - Retention) => Has(p, k.date)'
        <3>1. k.memo[k.owner[p]] # NoPlan  BY <1>3 DEF Covered
        <3>2. p \in Pids /\ p < nextId  BY <2>1 DEF Through
        <3>3. ASSUME k.memo[k.owner[p]] = "pro", port'[p] # NoPortfolio, k.date >= today' - Retention
              PROVE  Has(p, k.date)'
            <4>1. port[p] # NoPortfolio  BY <3>2, <3>3 DEF Lasting
            <4>2. k.date >= today - Retention  BY <1>2, <3>3 DEF Lasting
            <4>3. Has(p, k.date)  BY <1>3, <3>3, <4>1, <4>2 DEF Covered
            <4> QED BY <1>1, <3>2, <3>3, <4>3 DEF Lasting
        <3> QED BY <3>1, <3>3
    <2>3. k.at = "write" => k.memo[k.owner[k.cur]] = "pro"  BY DEF Covered
    <2> QED BY <2>1, <2>2, <2>3 DEF Covered
<1>4. CASE k.at \notin {"loop", "write", "prune", "tokens"}
    BY <1>4 DEF Covered
<1> QED BY <1>3, <1>4

\* A step of one run: the others are kept, its own is to be shown.
LEMMA CoveringStep ==
    ASSUME Types, Covering, Lasting, NEW j \in JobSlots, NEW n, JobStep(j, n), Covered(n)'
    PROVE  Covering'
<1> SUFFICES ASSUME NEW i \in JobSlots PROVE Covered(job[i])'
    BY DEF Covering
<1>1. CASE i = j
    <2>1. job'[i] = n  BY <1>1 DEF JobStep
    <2> QED BY <2>1 DEF Covered, Has, Real, Through
<1>2. CASE i # j
    <2>1. job'[i] = job[i]  BY <1>2 DEF JobStep
    <2>2. PICK k : k = job[i]  OBVIOUS
    <2>3. Covered(k)'
        <3>1. CASE k = NoJob
            BY <3>1 DEF Covered, NoJob
        <3>2. CASE k \in Runs
            <4>1. Covered(k)  BY <2>2 DEF Covering
            <4> QED BY <3>2, <4>1, CoveredKeeps
        <3> QED BY <2>2, <3>1, <3>2, RunFacts
    <2> QED BY <2>1, <2>2, <2>3 DEF Covered, Has, Real, Through
<1> QED BY <1>1, <1>2

LEMMA CoveringStays ==
    ASSUME Types, Covering, Lasting, UNCHANGED job
    PROVE  Covering'
<1> SUFFICES ASSUME NEW i \in JobSlots PROVE Covered(job[i])'
    BY DEF Covering
<1>1. PICK k : k = job[i]  OBVIOUS
<1>2. Covered(k)'
    <2>1. CASE k = NoJob
        BY <2>1 DEF Covered, NoJob
    <2>2. CASE k \in Runs
        <3>1. Covered(k)  BY <1>1 DEF Covering
        <3> QED BY <2>2, <3>1, CoveredKeeps
    <2> QED BY <1>1, <2>1, <2>2, RunFacts
<1> QED BY <1>1, <1>2 DEF Covered, Has, Real, Through

LEMMA WrittenLasts ==
    ASSUME Types, ops' = ops, UNCHANGED rows \/ \E p \in Pids, h \in Curves : Written(p, h),
           NEW p \in Pids, NEW d \in Days, Has(p, d)
    PROVE  Has(p, d)'
<1>1. CASE rows'[p][d] = rows[p][d]
    BY <1>1 DEF Has, Real
<1>2. CASE rows'[p][d] # rows[p][d]
    <2>1. PICK q \in Pids, h \in Curves : Written(q, h)  BY <1>2
    <2>2. rows' = [rows EXCEPT ![q] = h] /\ rows \in [Pids -> Curves]
        BY <2>1 DEF Written, Types, SnapTypes
    <2>3. q = p /\ rows'[p] = h  BY <1>2, <2>2
    <2>4. \/ h[d] # NoRow /\ ~h[d].approx
          \/ ~Real(p, d) /\ h[d] # NoRow
          \/ "reclassify" \in ops /\ h[d] # NoRow
        BY <1>2, <2>1, <2>3 DEF Written
    <2> QED BY <2>3, <2>4 DEF Has, Real
<1> QED BY <1>1, <1>2

LEMMA SameRowsLast ==
    ASSUME Types, UNCHANGED <<ops, nextId, port>>, today' \in Int, today <= today',
           \A p \in Pids, d \in Days : Has(p, d) /\ d >= today' - Retention => Has(p, d)'
    PROVE  Lasting
<1>1. nextId \in Int  BY PortfoliosAssumption DEF Types, PortTypes
<1> QED BY <1>1 DEF Lasting

LEMMA TodayIsAnInteger ==
    ASSUME Types
    PROVE  today \in Int /\ today <= today
BY SnapshotsAssumption DEF Types, SnapTypes, Days

LEMMA CoveredOnList ==
    ASSUME Types, FreshIds, Covering, NEW j \in JobSlots, JobList(j)
    PROVE  Covering'
<1>1. UNCHANGED <<portfolioVars, today, rows>>  BY JobListDoes
<1>2. UNCHANGED <<ops, nextId, port, today, rows>>  BY <1>1 DEF portfolioVars, portVars
<1>3. PICK n \in Runs : /\ JobStep(j, n) /\ n.at = "loop" /\ DOMAIN n.owner = n.left
                        /\ \A p \in n.left : port[p] # NoPortfolio
    BY JobListDoes
<1>4. Lasting  BY <1>2, SameRowsLast, TodayIsAnInteger DEF Has, Real
<1>5. \A p \in DOMAIN n.owner : p < nextId  BY <1>3, OwnerFacts, OldIds
<1>6. Through(n) = {}  BY <1>3 DEF Through
<1>7. Covered(n)'  BY <1>2, <1>3, <1>5, <1>6 DEF Covered
<1> QED BY <1>3, <1>4, <1>7, CoveringStep

LEMMA CoveredOnPlan ==
    ASSUME Types, Covering, NEW j \in JobSlots, JobPlan(j)
    PROVE  Covering'
<1>1. UNCHANGED <<portfolioVars, today, rows>>  BY JobPlanDoes
<1>2. UNCHANGED <<ops, nextId, port, today, rows>>  BY <1>1 DEF portfolioVars, portVars
<1>3. PICK c \in Runs : c = job[j]  BY JobPlanDoes
<1>4. c.at = "loop" /\ Covered(c) /\ c.left \subseteq DOMAIN c.owner
    BY <1>3, JobPlanDoes, RunFacts DEF Covering, Shaped
<1>5. PICK n \in Runs, p \in c.left :
        /\ JobStep(j, n) /\ n.owner = c.owner /\ n.date = c.date
        /\ n.left = c.left \ {p}
        /\ \/ /\ n.at = "loop" /\ n.failed = c.failed \cup {p} /\ n.memo = c.memo
           \/ /\ n.failed = c.failed
              /\ \A u \in Users : c.memo[u] # NoPlan => n.memo[u] = c.memo[u]
              /\ \/ n.at = "loop" /\ n.memo[n.owner[p]] \notin {"pro", NoPlan}
                 \/ n.at = "write" /\ n.cur = p /\ n.memo[n.owner[p]] = "pro"
    BY <1>3, JobPlanDoes
<1>6. Lasting  BY <1>2, SameRowsLast, TodayIsAnInteger DEF Has, Real
<1>7. \A q \in DOMAIN c.owner : c.owner[q] \in Users  BY OwnerFacts
<1>8. ASSUME NEW q \in Through(n)
      PROVE  \/ q \in Through(c) /\ n.memo[n.owner[q]] = c.memo[c.owner[q]]
             \/ n.memo[n.owner[q]] \notin {"pro", NoPlan}
    <2>1. q \in DOMAIN c.owner /\ q \notin c.failed  BY <1>5 DEF Through
    <2>2. CASE q = p
        BY <1>5, <2>2 DEF Through
    <2>3. CASE q # p
        <3>1. q \in Through(c)  BY <1>4, <1>5, <2>1, <2>3 DEF Through
        <3>2. c.memo[c.owner[q]] # NoPlan  BY <1>4, <3>1 DEF Covered
        <3> QED BY <1>5, <1>7, <2>1, <3>1, <3>2
    <2> QED BY <2>2, <2>3
<1>9. Covered(n)
    <2>1. \A q \in DOMAIN n.owner : q < nextId  BY <1>4, <1>5 DEF Covered
    <2>2. ASSUME NEW q \in Through(n)
          PROVE  /\ n.memo[n.owner[q]] # NoPlan
                 /\ (n.memo[n.owner[q]] = "pro" /\ port[q] # NoPortfolio /\ n.date >= today - Retention)
                    => Has(q, n.date)
        <3>1. CASE n.memo[n.owner[q]] \notin {"pro", NoPlan}
            BY <3>1
        <3>2. CASE q \in Through(c) /\ n.memo[n.owner[q]] = c.memo[c.owner[q]]
            BY <1>4, <1>5, <3>2 DEF Covered
        <3> QED BY <1>8, <3>1, <3>2
    <2>3. n.at = "write" => n.memo[n.owner[n.cur]] = "pro"  BY <1>5
    <2> QED BY <2>1, <2>2, <2>3 DEF Covered
<1>10. Covered(n)'  BY <1>6, <1>9, CoveredKeeps
<1> QED BY <1>5, <1>6, <1>10, CoveringStep

LEMMA CoveredOnWrite ==
    ASSUME Types, Covering, NEW j \in JobSlots, JobWrite(j)
    PROVE  Covering'
<1>1. UNCHANGED <<portfolioVars, today>>  BY JobWriteDoes
<1>2. UNCHANGED <<ops, nextId, port, today>>  BY <1>1 DEF portfolioVars, portVars
<1>3. PICK c \in Runs : c = job[j]  BY JobWriteDoes
<1>4. c.at = "write" /\ c.cur \in Pids /\ Covered(c) /\ c.date \in Days
    BY <1>3, JobWriteDoes, OwnerFacts DEF Covering
<1>5. PICK n \in Runs :
        /\ JobStep(j, n) /\ n.at = "loop" /\ n.owner = c.owner /\ n.date = c.date
        /\ n.left = c.left /\ n.memo = c.memo
        /\ \/ n.failed = c.failed \cup {c.cur} /\ UNCHANGED rows
           \/ n.failed = c.failed /\ rows' = Upsert(c.cur, c.date, "job")
    BY <1>3, JobWriteDoes
<1>6. UNCHANGED rows \/ \E p \in Pids, h \in Curves : Written(p, h)
    BY <1>4, <1>5, UpsertWrites
<1>7. Lasting  BY <1>2, <1>6, WrittenLasts, SameRowsLast, TodayIsAnInteger
<1>8. Covered(c)'  BY <1>4, <1>7, CoveredKeeps
<1>9. \A q \in Through(n) : \/ q \in Through(c)
                            \/ q = c.cur /\ rows' = Upsert(c.cur, c.date, "job")
    BY <1>4, <1>5 DEF Through
<1>10. rows' = Upsert(c.cur, c.date, "job") => Has(c.cur, c.date)'
    <2> SUFFICES ASSUME rows' = Upsert(c.cur, c.date, "job") PROVE Has(c.cur, c.date)'
        OBVIOUS
    <2>1. PICK i \in Pids, d \in Days, b \in {"job", "observed", "priced"} :
            i = c.cur /\ d = c.date /\ b = "job"
        BY <1>4
    <2>2. rows' = Upsert(i, d, b)  BY <2>1
    <2>3. PICK h \in Curves : Written(i, h) /\ h[d] # NoRow /\ ~h[d].approx  BY <2>2, UpsertWrites
    <2>4. rows'[i] = h  BY <2>3 DEF Written, Types, SnapTypes
    <2>5. Has(i, d)'  BY <2>3, <2>4 DEF Has, Real
    <2> QED BY <2>1, <2>5
<1>11. Covered(n)'
    <2>1. \A q \in DOMAIN n.owner : q < nextId'  BY <1>4, <1>5, <1>8 DEF Covered
    <2>2. ASSUME NEW q \in Through(n)
          PROVE  /\ n.memo[n.owner[q]] # NoPlan
                 /\ (n.memo[n.owner[q]] = "pro" /\ port'[q] # NoPortfolio /\ n.date >= today' - Retention)
                    => Has(q, n.date)'
        <3>1. CASE q \in Through(c)
            BY <1>4, <1>5, <1>8, <3>1 DEF Covered
        <3>2. CASE q = c.cur /\ rows' = Upsert(c.cur, c.date, "job")
            <4>1. n.memo[n.owner[q]] = "pro"  BY <1>4, <1>5, <3>2 DEF Covered
            <4> QED BY <1>5, <1>10, <3>2, <4>1 DEF NoPlan
        <3> QED BY <1>9, <3>1, <3>2
    <2> QED BY <1>5, <2>1, <2>2 DEF Covered
<1> QED BY <1>5, <1>7, <1>11, CoveringStep

\* The end of the loop, and the pruning: the run has been through the same portfolios after as before.
LEMMA CoveredOnEnd ==
    ASSUME Types, Covering, NEW j \in JobSlots, JobLoopEnds(j) \/ JobPrune(j)
    PROVE  Covering'
<1>1. UNCHANGED <<portfolioVars, today>>  BY JobLoopEndsDoes, JobPruneDoes
<1>2. UNCHANGED <<ops, nextId, port, today>>  BY <1>1 DEF portfolioVars, portVars
<1>3. PICK c \in Runs : c = job[j]  BY JobLoopEndsDoes, JobPruneDoes
<1>4. c.at \in {"loop", "prune"} /\ c.left = {} /\ Covered(c)
    BY <1>3, JobLoopEndsDoes, JobPruneDoes, RunFacts DEF Covering, Shaped
<1>5. PICK n \in Runs :
        /\ JobStep(j, n) /\ n.at \in {"prune", "tokens"} /\ n.owner = c.owner /\ n.date = c.date
        /\ n.left = {} /\ n.memo = c.memo /\ n.failed = c.failed
    BY <1>3, JobLoopEndsDoes, JobPruneDoes
<1>6. Lasting
    <2>1. \A p \in Pids, d \in Days : d >= today - Retention => rows'[p][d] = rows[p][d]
        BY JobLoopEndsDoes, JobPruneDoes
    <2> QED BY <1>2, <2>1, SameRowsLast, TodayIsAnInteger DEF Has, Real
<1>7. Through(n) = Through(c)  BY <1>4, <1>5 DEF Through
<1>8. Covered(n)  BY <1>4, <1>5, <1>7 DEF Covered
<1>9. Covered(n)'  BY <1>6, <1>8, CoveredKeeps
<1> QED BY <1>5, <1>6, <1>9, CoveringStep

LEMMA Next_Covering ==
    ASSUME Types, Honest, FreshIds, Covering, [Next]_vars
    PROVE  Covering'
<1>1. CASE UNCHANGED vars
    <2>1. UNCHANGED <<ops, nextId, port, today, rows, job>>
        BY <1>1 DEF vars, snapVars, portfolioVars, portVars
    <2>2. Lasting  BY <2>1, SameRowsLast, TodayIsAnInteger DEF Has, Real
    <2> QED BY <2>1, <2>2, CoveringStays
<1>2. CASE Portfolio
    <2>1. /\ PortfolioStep /\ UNCHANGED <<today, job>>
          /\ rows' = [p \in Pids |-> IF port'[p] = NoPortfolio THEN NoRows ELSE rows[p]]
        BY <1>2 DEF Portfolio
    <2>2. ops' = ops  BY <2>1, PortfolioRequests
    <2>3. PICK i \in Int : i = nextId  BY PortfoliosAssumption DEF Types, PortTypes
    <2>4. nextId' \in Int /\ nextId <= nextId'  BY <2>1, <2>3, RowsAppearInTurn
    <2>5. \A p \in Pids : p < nextId /\ port'[p] # NoPortfolio => port[p] # NoPortfolio
        <3>1. \A p \in Pids : p < nextId => p # nextId  BY <2>3 DEF Pids
        <3> QED BY <2>1, <3>1, RowsAppearInTurn
    <2>6. \A p \in Pids : port'[p] # NoPortfolio => rows'[p] = rows[p]  BY <2>1
    <2>7. \A p \in Pids, d \in Days : Has(p, d) /\ port'[p] # NoPortfolio => Has(p, d)'
        BY <2>2, <2>6 DEF Has, Real
    <2>8. Lasting  BY <2>1, <2>2, <2>4, <2>5, <2>7, TodayIsAnInteger DEF Lasting
    <2> QED BY <2>1, <2>8, CoveringStays
<1>3. CASE Job
    <2>1. ASSUME NEW j \in JobSlots, JobTokens(j) PROVE Covering'
        <3>1. UNCHANGED <<portfolioVars, today, rows>> /\ JobStep(j, NoJob)  BY <2>1, JobTokensDoes
        <3>2. UNCHANGED <<ops, nextId, port, today, rows>>  BY <3>1 DEF portfolioVars, portVars
        <3>3. Lasting  BY <3>2, SameRowsLast, TodayIsAnInteger DEF Has, Real
        <3>4. PICK n : n = NoJob  OBVIOUS
        <3>5. Covered(n)'  BY <3>4 DEF Covered, NoJob
        <3> QED BY <3>1, <3>3, <3>4, <3>5, CoveringStep
    <2> QED BY <1>3, <2>1, CoveredOnList, CoveredOnPlan, CoveredOnWrite, CoveredOnEnd DEF Job
<1>4. CASE Midnight \/ Boot
    <2>1. UNCHANGED <<portfolioVars, rows>> /\ today' \in {today, today + 1}
        BY <1>4, MidnightDoes, BootDoes
    <2>2. UNCHANGED <<ops, nextId, port, rows>>  BY <2>1 DEF portfolioVars, portVars
    <2>3. today' \in Int /\ today <= today'  BY <2>1, TodayIsAnInteger
    <2>4. Lasting  BY <2>2, <2>3, SameRowsLast DEF Has, Real
    <2>5. CASE UNCHANGED job
        BY <2>4, <2>5, CoveringStays
    <2>6. CASE \E j \in JobSlots, n \in Runs : JobStep(j, n) /\ n.at = "list"
        <3>1. PICK j \in JobSlots, n \in Runs : JobStep(j, n) /\ n.at = "list"  BY <2>6
        <3>2. Covered(n)'  BY <3>1 DEF Covered
        <3> QED BY <2>4, <3>1, <3>2, CoveringStep
    <2> QED BY <1>4, <2>5, <2>6, MidnightDoes, BootDoes
<1>5. CASE Crash
    <2>1. \A j \in JobSlots : job'[j] = NoJob  BY <1>5, CrashDoes
    <2> QED BY <2>1 DEF Covering, Covered, NoJob
<1>6. CASE History \/ Script
    <2>1. PICK r \in Procs : SnapDoes(r)  BY <1>6, SideSteps
    <2>2. UNCHANGED <<ops, nextId, port, today, job>>  BY <2>1 DEF SnapDoes, portVars
    <2>3. \A p \in Pids, d \in Days : Has(p, d) => Has(p, d)'
        BY <2>1, <2>2, WrittenLasts DEF SnapDoes
    <2>4. Lasting  BY <2>2, <2>3, SameRowsLast, TodayIsAnInteger
    <2> QED BY <2>2, <2>4, CoveringStays
<1> QED BY <1>1, <1>2, <1>3, <1>4, <1>5, <1>6 DEF Next

-----------------------------------------------------------------------------
(* The theorems *)

IInv == Types /\ Honest /\ FreshIds /\ Streams /\ Checked /\ Covering

LEMMA Init_IInv ==
    ASSUME Init
    PROVE  IInv
<1>0. Types /\ Honest  BY Init_Types
<1>1. /\ \A r \in Procs : req[r] = Idle
      /\ \A p \in Pids : port[p] = NoPortfolio
      /\ \A j \in JobSlots : job[j] = NoJob
      /\ streams = {} /\ wasPro = {u \in Users : plan[u] = "pro"}
    BY DEF Init, PortfoliosInit
<1>2. \A r \in Procs : req[r].op = "idle"  BY <1>1, IdleFacts
<1>3. FreshIds  BY <1>1, <1>2 DEF FreshIds
<1>4. Streams
    <2>1. \A r \in Procs : ~Making(r) /\ ~At(r, "delete", "stream") /\ ~At(r, "delete", "row")
        BY <1>2 DEF Making, At
    <2> QED BY <1>1, <2>1 DEF Streams, Named, Alone
<1>5. Checked
    <2>1. \A u \in Users : Of(u) = {}  BY <1>1 DEF Of
    <2>2. \A u \in Users : Cardinality(Of(u)) <= Cap(u)
        <3>1. Cardinality({}) = 0  BY FS_EmptySet
        <3>2. \A u \in Users : 0 <= Cap(u)  BY CapFacts
        <3> QED BY <2>1, <3>1, <3>2
    <2>3. \A u \in Users : Apart(u)  BY <2>1, <2>2 DEF Apart
    <2> QED BY <1>1, <1>2, <2>3 DEF Checked
<1>6. Covering  BY <1>1 DEF Covering, Covered, NoJob
<1> QED BY <1>0, <1>3, <1>4, <1>5, <1>6 DEF IInv

\* Portfolios, their streams, the requests and the runs of the job stay in shape.
THEOREM Invariance == Spec => []IInv
<1>1. Init => IInv  BY Init_IInv
<1>2. IInv /\ [Next]_vars => IInv'
    BY Next_Types, Next_Fresh, Next_Streams, Next_Checked, Next_Covering DEF IInv
<1> QED BY <1>1, <1>2, PTL DEF Spec

\* Moralis streams and portfolios go together, whatever requests interleave and wherever the
\* process dies, but for what StreamsAreOwned lists.
THEOREM Owned == Spec => []StreamsAreOwned
<1>1. IInv => StreamsAreOwned
    <2> SUFFICES ASSUME IInv PROVE StreamsAreOwned
        OBVIOUS
    <2>0. Streams /\ streams \subseteq Pids  BY DEF IInv, Types, PortTypes
    <2>1. ASSUME NEW p \in streams
          PROVE  \/ port[p] # NoPortfolio /\ port[p].stream
                 \/ p \in stray
                 \/ \E r \in Procs : At(r, "create", "streamId") /\ req[r].pid = p
        BY <2>0 DEF Streams, Named, Alone
    <2>2. ASSUME NEW p \in Pids, port[p] # NoPortfolio, port[p].stream
          PROVE  \/ p \in streams \/ p \in stray
                 \/ \E r \in Procs : At(r, "delete", "row") /\ req[r].pid = p
        BY <2>0, <2>2 DEF Streams, Named, Alone
    <2> QED BY <2>0, <2>1, <2>2 DEF StreamsAreOwned
<1> QED BY <1>1, Invariance, PTL

\* The slug, the wallet and the cap hold of a user's portfolios, for any number of requests,
\* unless a write of the user came between the checks and the write of another.
THEOREM Distinct == Spec => []PortfoliosAreDistinct
<1>1. IInv => PortfoliosAreDistinct
    BY DEF IInv, Checked, Apart, Cap, PortfoliosAreDistinct
<1> QED BY <1>1, Invariance, PTL

\* The baseline of a change is never an estimate: of all the writers of balance_snapshot none
\* leaves a sample unflagged.
THEOREM RealBaseline == Spec => []BaselineIsReal
<1>1. IInv => BaselineIsReal  BY BaselineStep DEF IInv
<1> QED BY <1>1, Invariance, PTL

\* No step of any writer puts an estimate in the place of a real row.
THEOREM RealKept == Spec => RealIsKept
<1>1. IInv /\ [Next]_vars =>
        [\A p \in Pids, d \in Days :
           (Real(p, d) /\ rows'[p][d] # NoRow) =>
              /\ rows'[p][d].by # "estimate"
              /\ rows'[p][d].approx => rows'[p][d].by = rows[p][d].by]_vars
    BY KeptStep DEF IInv
<1> QED BY <1>1, Invariance, PTL DEF Spec, RealIsKept

\* When the job's loop is over, the portfolios it read as Pro and did not report as failed have
\* their row of the day, whatever other runs, requests and scripts did meanwhile.
THEOREM Covers == Spec => []JobCoversPro
<1>1. IInv => JobCoversPro
    <2> SUFFICES ASSUME IInv, NEW j \in JobSlots, job[j].at \in {"prune", "tokens"},
                        job[j].date >= today - Retention, NEW p \in DOMAIN job[j].owner \ job[j].failed,
                        port[p] # NoPortfolio, job[j].memo[job[j].owner[p]] # "free"
                 PROVE  Has(p, job[j].date)
        BY DEF JobCoversPro, Has
    <2>1. Types /\ Covering  BY DEF IInv
    <2>2. PICK k \in Runs : k = job[j]  BY <2>1, RunFacts
    <2>3. k.left = {} /\ Covered(k)  BY <2>1, <2>2, RunFacts DEF Shaped, Covering
    <2>4. p \in Through(k)  BY <2>2, <2>3 DEF Through
    <2>5. k.memo[k.owner[p]] \in {"free", "pro", NoPlan}  BY <2>2, OwnerFacts DEF Plans
    <2>6. k.memo[k.owner[p]] = "pro"  BY <2>2, <2>3, <2>4, <2>5 DEF Covered
    <2> QED BY <2>2, <2>3, <2>4, <2>6 DEF Covered
<1> QED BY <1>1, Invariance, PTL
=============================================================================
