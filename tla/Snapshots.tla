----------------------------- MODULE Snapshots -----------------------------
(* The daily values of portfolios (balance_snapshot): the snapshot job and its catch-up at boot
   (src/jobs/snapshot.job.ts), the history a connected wallet gets at its first sync, the point
   a resync adds (src/modules/wallet-data/sync.private.ts) and the three operator scripts that
   write the same table, over the portfolios of Portfolios. A value is abstracted to where it
   comes from, which is what its approx flag is there to tell. *)
EXTENDS Portfolios, FiniteSetsExt

CONSTANTS
    FirstDay, MaxDay,   \* the days an instance lives through; the days before are history
    Retention,          \* SNAPSHOT_RETENTION_DAYS
    TailGap,            \* how much of the window must be missing before the tail is sampled
    Chunk,              \* the days one INSERT of the history takes
    JobSlots            \* runs of the job under way at a time

Days == 1..MaxDay

ASSUME SnapshotsAssumption == {MaxDay, Retention, TailGap, Chunk} \subseteq Nat /\ Chunk # 0 /\ FirstDay \in Days

VARIABLES
    today,       \* the UTC date
    up,          \* whether the server is running
    rows,        \* balance_snapshot, by portfolio and day
    tokenDays,   \* the days token_price_snapshot has rows for
    job          \* the runs of the snapshot job

snapVars == <<today, up, rows, tokenDays, job>>
vars == <<portfolioVars, snapVars>>

\* job and observed: valued by the daily job, or by a sync, from the balances of the moment; priced:
\* a provider's history of the day; estimate: a sample at today's prices, or today's balances at old ones.
Sources == {"job", "observed", "priced", "estimate"}
NoRow == [approx |-> FALSE, by |-> "none"]
NoRows == [d \in Days |-> NoRow]
Real(p, d) == rows[p][d] # NoRow /\ ~rows[p][d].approx

\* INSERT ... ON CONFLICT DO UPDATE of one day; ... WHERE approx = true, of several.
Upsert(p, d, by) == [rows EXCEPT ![p][d] = [approx |-> FALSE, by |-> by]]
UpsertAll(p, series) ==   \* a slip: without the WHERE
    [rows EXCEPT ![p] = [d \in Days |-> IF series[d] # NoRow THEN series[d] ELSE @[d]]]
UpsertApprox(p, series) ==
    [rows EXCEPT ![p] = [d \in Days |-> IF series[d] # NoRow /\ ~Real(p, d) THEN series[d] ELSE @[d]]]

-----------------------------------------------------------------------------
(* runSnapshotJob *)

NoJob == [at |-> "idle"]
JobGoto(j, rec) == job' = [job EXCEPT ![j] = rec]
JobTo(j, at) == JobGoto(j, [job[j] EXCEPT !.at = at])
Started == [at |-> "list", date |-> today, owner |-> <<>>, left |-> {}, failed |-> {}, cur |-> 0,
            memo |-> [u \in Users |-> NoPlan]]

JobList(j) ==
    /\ job[j].at = "list"
    /\ LET all == {p \in Pids : port[p] # NoPortfolio}
       IN JobGoto(j, [job[j] EXCEPT !.at = "loop", !.left = all, !.owner = [p \in all |-> port[p].user]])
    /\ UNCHANGED <<portfolioVars, today, up, rows, tokenDays>>

\* The next portfolio: its owner's plan, asked once per user. A failed question is the
\* portfolio's failure.
JobPlan(j) ==
    /\ job[j].at = "loop"
    /\ \E p \in job[j].left :
         LET u == job[j].owner[p]
             read == IF job[j].memo[u] = NoPlan THEN plan[u] ELSE job[j].memo[u]
             rest == [job[j] EXCEPT !.left = @ \ {p}, !.memo[u] = read]
         IN \/ JobGoto(j, IF read = "pro" THEN [rest EXCEPT !.at = "write", !.cur = p] ELSE rest)
            \/ /\ "fault" \in ops /\ job[j].memo[u] = NoPlan
               /\ JobGoto(j, [job[j] EXCEPT !.left = @ \ {p}, !.failed = @ \cup {p}])
    /\ UNCHANGED <<portfolioVars, today, up, rows, tokenDays>>

\* The upsert of the job's date, valued now. A portfolio that has gone, like any other error,
\* is counted and the loop goes on.
JobWrite(j) ==
    /\ job[j].at = "write"
    /\ \/ /\ port[job[j].cur] # NoPortfolio
          /\ rows' = Upsert(job[j].cur, job[j].date, "job") /\ JobTo(j, "loop")
       \/ /\ port[job[j].cur] = NoPortfolio \/ "fault" \in ops
          /\ JobGoto(j, [job[j] EXCEPT !.at = "loop", !.failed = @ \cup {job[j].cur}])
          /\ UNCHANGED rows
    /\ UNCHANGED <<portfolioVars, today, up, tokenDays>>

JobLoopBreaks(j) ==   \* a slip: the first failure ends the loop
    /\ job[j].at = "loop" /\ (job[j].left = {} \/ job[j].failed # {}) /\ JobTo(j, "prune")
    /\ UNCHANGED <<portfolioVars, today, up, rows, tokenDays>>

JobLoopEnds(j) ==
    /\ job[j].at = "loop" /\ job[j].left = {} /\ JobTo(j, "prune")
    /\ UNCHANGED <<portfolioVars, today, up, rows, tokenDays>>

\* drop_chunks: whole chunks older than the retention, as of now; its failure is only logged.
JobPrune(j) ==
    /\ job[j].at = "prune" /\ JobTo(j, "tokens")
    /\ \E cutoff \in 0..Max({0, today - Retention}) :
         rows' = [p \in Pids |-> [d \in Days |-> IF d < cutoff THEN NoRow ELSE rows[p][d]]]
    /\ UNCHANGED <<portfolioVars, today, up, tokenDays>>

\* The token prices of the job's date; a failure is logged, or ends the run.
JobTokens(j) ==
    /\ job[j].at = "tokens" /\ JobGoto(j, NoJob)
    /\ \/ tokenDays' = tokenDays \cup {job[j].date}
       \/ "fault" \in ops /\ UNCHANGED tokenDays
    /\ UNCHANGED <<portfolioVars, today, up, rows>>

\* Midnight UTC: the cron, unless SNAPSHOT_ENABLED is false ("job" left out), starts a run when
\* the server is up.
Midnight ==
    /\ "day" \in ops /\ today < MaxDay /\ today' = today + 1
    /\ \/ /\ up /\ "job" \in ops
          /\ \E j \in JobSlots : job[j] = NoJob /\ JobGoto(j, [Started EXCEPT !.date = today + 1])
       \/ (~up \/ "job" \notin ops) /\ UNCHANGED job
    /\ UNCHANGED <<portfolioVars, up, rows, tokenDays>>

Crash ==
    /\ "crash" \in ops /\ up /\ up' = FALSE
    /\ job' = [j \in JobSlots |-> NoJob] /\ RequestsDie
    /\ UNCHANGED <<today, rows, tokenDays>>

\* Boot, with runSnapshotCatchUpIfNeeded: token rows of today mean the job has run.
Boot ==
    /\ ~up /\ up' = TRUE
    /\ IF today \in tokenDays THEN UNCHANGED job
       ELSE \E j \in JobSlots : JobGoto(j, Started)
    /\ UNCHANGED <<portfolioVars, today, rows, tokenDays>>

-----------------------------------------------------------------------------
(* backfillConnectedSnapshots *)

\* The first sync reaches its snapshots, or fails before.
HistoryStart(r) ==
    /\ At(r, "create", "sync")
    /\ \/ /\ port[req[r].pid] # NoPortfolio
          /\ Goto(r, [op |-> "history", at |-> "read", pid |-> req[r].pid, today |-> today])
       \/ (port[req[r].pid] = NoPortfolio \/ "fault" \in ops) /\ Done(r)
    /\ UNCHANGED <<ops, portVars, snapVars>>

\* runRebuildConnectedHistory has nothing but them.
RebuildStart(r) ==
    /\ req[r] = Idle /\ "rebuild" \in ops
    /\ \E p \in Pids : /\ port[p] # NoPortfolio /\ port[p].wallet # Manual
                       /\ Goto(r, [op |-> "rebuild", at |-> "read", pid |-> p, today |-> today])
    /\ UNCHANGED <<ops, portVars, snapVars>>

\* The days a provider has a value for; none, when no provider answers.
getValueHistory == SUBSET (1..today) \ {{}}
fetchValueHistory == getValueHistory \cup {{}}

\* Samples for the window before the first of those days, when that is well after its start. At
\* most 50 cover three years, so the last is weeks before the day the sync began.
sampleMoralisValueHistory(priced, began) ==
    LET earliest == IF priced = {} THEN today + 1 ELSE Min(priced)
    IN IF earliest > 1 + TailGap THEN SUBSET {d \in 1..(earliest - 1) : d < began} ELSE {{}}

\* The provider's days, the estimates sampled before them, and the value of now for today (the
\* date is taken again). A wallet worth nothing at any point has no series.
seriesUnflagged(priced, tail) ==   \* a slip: the samples pass for prices
    [d \in Days |-> IF d = today THEN [approx |-> FALSE, by |-> "observed"]
                    ELSE IF d \in priced THEN [approx |-> FALSE, by |-> "priced"]
                    ELSE IF d \in tail THEN [approx |-> FALSE, by |-> "estimate"] ELSE NoRow]
series(priced, tail) ==
    [d \in Days |-> IF d = today THEN [approx |-> FALSE, by |-> "observed"]
                    ELSE IF d \in priced THEN [approx |-> FALSE, by |-> "priced"]
                    ELSE IF d \in tail THEN [approx |-> TRUE, by |-> "estimate"] ELSE NoRow]

buildConnectedValueHistory(r) ==
    /\ req[r].op \in {"history", "rebuild"} /\ req[r].at = "read"
    /\ \/ \E priced \in fetchValueHistory : \E tail \in sampleMoralisValueHistory(priced, req[r].today) :
            LET s == series(priced, tail)
                past == [d \in Days |-> IF d < req[r].today THEN s[d] ELSE NoRow]
            IN  Goto(r, [op |-> req[r].op, at |-> "write", pid |-> req[r].pid, today |-> req[r].today,
                         past |-> past, point |-> s[req[r].today]])
       \/ Done(r)
    /\ UNCHANGED <<ops, portVars, snapVars>>

\* The days before the date taken at the start, where no real row stands, oldest first and a chunk
\* an INSERT. One is refused for a portfolio that has gone; a failure is logged and ends it there.
HistoryWrite(r) ==
    /\ req[r].op \in {"history", "rebuild"} /\ req[r].at = "write"
    /\ LET past == req[r].past
           due == {d \in Days : past[d] # NoRow}
           chunk == {d \in due : Cardinality({e \in due : e < d}) < Chunk}
           only(S) == [d \in Days |-> IF d \in S THEN past[d] ELSE NoRow]
       IN  \/ /\ port[req[r].pid] # NoPortfolio
              /\ Goto(r, [req[r] EXCEPT !.at = IF due = chunk THEN "today" ELSE "write",
                                        !.past = only(due \ chunk)])
              /\ rows' = UpsertApprox(req[r].pid, only(chunk))
           \/ (port[req[r].pid] = NoPortfolio \/ "fault" \in ops) /\ Done(r) /\ UNCHANGED rows
    /\ UNCHANGED <<ops, portVars, today, up, tokenDays, job>>

\* The point of that date, always written as real.
HistoryToday(r) ==
    /\ req[r].op \in {"history", "rebuild"} /\ req[r].at = "today" /\ Done(r)
    /\ LET point == req[r].point
       IN \/ /\ port[req[r].pid] # NoPortfolio /\ point # NoRow
             /\ rows' = Upsert(req[r].pid, req[r].today, point.by)
          \/ (port[req[r].pid] = NoPortfolio \/ point = NoRow \/ "fault" \in ops) /\ UNCHANGED rows
    /\ UNCHANGED <<ops, portVars, today, up, tokenDays, job>>

\* A resync that succeeds adds the point of today and goes on to arm the cooldown.
ResyncTopUp(r) ==
    /\ At(r, "resync", "sync")
    /\ \/ /\ port[req[r].pid] # NoPortfolio /\ To(r, "arm")
          /\ rows' = Upsert(req[r].pid, today, "observed")
       \/ port[req[r].pid] = NoPortfolio /\ To(r, "arm") /\ UNCHANGED rows
       \/ "fault" \in ops /\ Done(r) /\ UNCHANGED rows
    /\ UNCHANGED <<ops, portVars, today, up, tokenDays, job>>

-----------------------------------------------------------------------------
(* The scripts *)

bulkUpsert(p, days) ==
    UpsertApprox(p, [d \in Days |-> IF d \in days THEN [approx |-> TRUE, by |-> "estimate"] ELSE NoRow])

\* runSnapshotsBackfill: token rows for every day up to today, then the portfolios as they are, ...
BackfillTokens(r) ==
    /\ req[r] = Idle /\ "backfill" \in ops
    /\ tokenDays' = tokenDays \cup 1..today
    /\ Goto(r, [op |-> "backfill", at |-> "rows", today |-> today,
                todo |-> {p \in Pids : port[p] # NoPortfolio}])
    /\ UNCHANGED <<ops, portVars, today, up, rows, job>>

\* ... and estimates for each of them; the script ends at the first insert that is refused.
BackfillRows(r) ==
    /\ At(r, "backfill", "rows")
    /\ \/ \E p \in req[r].todo :
            \/ /\ port[p] # NoPortfolio /\ Goto(r, [req[r] EXCEPT !.todo = @ \ {p}])
               /\ rows' = bulkUpsert(p, 1..req[r].today)
            \/ port[p] = NoPortfolio /\ Done(r) /\ UNCHANGED rows
       \/ req[r].todo = {} /\ Done(r) /\ UNCHANGED rows
    /\ UNCHANGED <<ops, portVars, today, up, tokenDays, job>>

\* runReclassifyConnectedSnapshots: the oldest day of the unbroken run of rows that ends with
\* the newest one, ...
runOldest(p) ==
    LET held == {d \in Days : rows[p][d] # NoRow}
    IN Min({d \in held : \A e \in d..Max(held) : e \in held})

ReclassifyRead(r) ==
    /\ req[r] = Idle /\ "reclassify" \in ops
    /\ \E p \in Pids : /\ port[p] # NoPortfolio /\ port[p].wallet # Manual /\ rows[p] # NoRows
                       /\ Goto(r, [op |-> "reclassify", at |-> "mark", pid |-> p, oldest |-> runOldest(p)])
    /\ UNCHANGED <<ops, portVars, snapVars>>

\* ... and every row before it is marked as approximate.
ReclassifyMark(r) ==
    /\ At(r, "reclassify", "mark") /\ Done(r)
    /\ rows' = [rows EXCEPT ![req[r].pid] = [d \in Days |->
         IF d < req[r].oldest /\ @[d] # NoRow THEN [@[d] EXCEPT !.approx = TRUE] ELSE @[d]]]
    /\ UNCHANGED <<ops, portVars, today, up, tokenDays, job>>

-----------------------------------------------------------------------------
(* Reading a baseline *)

findSnapshotAtOrBefore(p, cutoff) == Max({0} \cup {d \in Days : d <= cutoff /\ Real(p, d)})

\* The day of the baseline for the change over n days, 0 when none is near enough.
findSnapshotNearDaysAgo(p, n) ==
    LET cutoff == today - n
        d == findSnapshotAtOrBefore(p, cutoff)
    IN IF d >= cutoff - Max({1, n \div 4}) THEN Max({0, d}) ELSE 0

-----------------------------------------------------------------------------

Init == /\ PortfoliosInit /\ today = FirstDay /\ up = TRUE /\ tokenDays = {}
        /\ rows = [p \in Pids |-> NoRows] /\ job = [j \in JobSlots |-> NoJob]

\* Rows go with their portfolio (ON DELETE CASCADE). Requests need the server, scripts do not.
Portfolio == /\ up /\ PortfolioStep
             /\ rows' = [p \in Pids |-> IF port'[p] = NoPortfolio THEN NoRows ELSE rows[p]]
             /\ UNCHANGED <<today, up, tokenDays, job>>
Job == \E j \in JobSlots : \/ JobList(j) \/ JobPlan(j) \/ JobWrite(j) \/ JobLoopEnds(j)
                           \/ JobPrune(j) \/ JobTokens(j)
History == \E r \in Procs : \/ HistoryStart(r) \/ RebuildStart(r) \/ buildConnectedValueHistory(r)
                            \/ HistoryWrite(r) \/ HistoryToday(r) \/ ResyncTopUp(r)
Script == \E r \in Procs : \/ BackfillTokens(r) \/ BackfillRows(r)
                           \/ ReclassifyRead(r) \/ ReclassifyMark(r)

Next == Portfolio \/ Job \/ Midnight \/ Crash \/ Boot \/ History \/ Script

Spec == Init /\ [][Next]_vars

-----------------------------------------------------------------------------
(* Properties *)

\* The baseline of a 24h, 7d or 30d change is never an estimate, whichever job, sync and scripts
\* have written the row, in whatever order, and whatever midnight fell between: the approx flag
\* is right wherever findSnapshotAtOrBefore relies on it.
BaselineIsReal ==
    \A p \in Pids, n \in 0..MaxDay :
      LET d == findSnapshotNearDaysAgo(p, n) IN d # 0 => rows[p][d].by \in {"job", "observed", "priced"}

\* A real row is not lost to an estimate: while it is flagged as real no writer replaces its
\* value by an estimate, and a writer that takes the flag away leaves the value.
RealIsKept ==
    [][\A p \in Pids, d \in Days :
         (Real(p, d) /\ rows'[p][d] # NoRow) =>
            /\ rows'[p][d].by # "estimate"
            /\ rows'[p][d].approx => rows'[p][d].by = rows[p][d].by]_vars

\* One bad portfolio does not cost the others their day: once the job's loop is over, every
\* portfolio it listed, whose owner's plan it read as Pro and which it did not report as failed,
\* has a row of the job's date, as long as the portfolio exists and the date is within the
\* retention, and a real one unless the reclassification script has taken the flag away.
JobCoversPro ==
    \A j \in JobSlots : (job[j].at \in {"prune", "tokens"} /\ job[j].date >= today - Retention) =>
      \A p \in DOMAIN job[j].owner \ job[j].failed :
        (port[p] # NoPortfolio /\ job[j].memo[job[j].owner[p]] # "free") =>
            IF "reclassify" \in ops THEN rows[p][job[j].date] # NoRow ELSE Real(p, job[j].date)

(* Two statements of the scripts' comments that do not hold; no run checks them. *)

\* rebuild-connected-history.ts:17: "REAL daily-job rows (approx=false) are never touched" by the
\* rebuild, whose guard does not cover the row of today (Mixes <- RebuildMix).
RebuildTouchesNoJobRow ==
    [][\A r \in Procs : (req[r] # Idle /\ req[r].op = "rebuild" /\ req'[r] # req[r]) =>
         \A p \in Pids, d \in Days : (Real(p, d) /\ rows[p][d].by = "job") => rows'[p][d] = rows[p][d]]_vars

\* backfill-snapshots.ts:26-27: "a re-run never clobbers the real daily-job snapshots' observed
\* values".
NeverClobbered ==
    [][\A p \in Pids, d \in Days :
         rows[p][d].by \in {"job", "observed"} => rows'[p][d].by # "estimate"]_vars

=============================================================================
