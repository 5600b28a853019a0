------------------------------- MODULE Wallet -------------------------------
(* One connected portfolio: the import of its wallet (wallet-data/sync.ts, sync.private.ts), the
   Moralis webhook (webhooks/moralis-handlers.ts) and the rows both write
   (transactions.webhook.private.ts). The providers are those of WalletData.

   A process runs one webhook delivery, one sync, one resync or one "load more" at a time, and
   an action is what it does between two awaits that others can interleave with. The chain moves
   on its own. *)
EXTENDS WalletData

CONSTANTS Procs,      \* the requests the server works on at once
          Catalog,    \* the tokens of the catalog before the wallet is connected
          MaxFaults,  \* bound: failed writes and crashes
          None,       \* the absence of a row
          Mixes       \* the sets of activities, each with its runs

ASSUME WalletAssumption == Native \in Catalog /\ Catalog \subseteq TokenSet /\ MaxFaults \in Nat /\ None \notin Nat

VARIABLES
    height,    \* transactions mined
    feed,      \* Transaction rows by hash: the leg that claimed the hash, 0 for no row
    balance,   \* Asset rows: the balance, None without a row
    known,     \* the provider whose cost basis or gain an Asset row carries, "none" without
    nfts,      \* Nft rows
    listed,    \* Token rows
    cursor,    \* syncCursor
    acked,     \* moralis_event keys
    pnl,       \* wallet_pnl in the cache
    job,       \* what each process is at
    connected, \* the portfolio exists: its first sync has started
    seen,      \* (history) the height of the page that sync imported
    drained,   \* (history) the last page that was followed had no next
    lost,      \* (history) transactions whose import failed, or that Alchemy's page left out
    written,   \* (history) the tokens whose balance a summary was the last to write
    drift,     \* (history) a refresh was cut short, failed, or overlapped another
    faults,    \* faults so far
    ops        \* the mix of activities of this behaviour

feedVars == <<feed, nfts, listed, lost>>
rowVars == <<balance, known, written, drift>>
pageVars == <<cursor, seen, drained>>
vars == <<height, feedVars, rowVars, pageVars, acked, pnl, job, connected, faults, ops>>

NoHeld == [t \in {} |-> 0]
Idle == [op |-> "none", at |-> "idle", n |-> 0, k |-> 1, touched |-> FALSE, held |-> NoHeld, todo |-> {},
         cost |-> {}, by |-> "none", owned |-> {}, page |-> {}, next |-> NoCursor, blank |-> FALSE, lone |-> TRUE]

Goto(p, j) == job' = [job EXCEPT ![p] = j]
At(p, a) == job[p].at = a
Full(j) == j.op \in {"sync", "resync"}
Fault(f) == f \in BOOLEAN /\ (f => "fault" \in ops /\ faults < MaxFaults)
Count(f) == faults' = faults + (IF f THEN 1 ELSE 0)

\* Whether providers may fail to answer a kind of call.
Outage(call) == call \in ops

\* A transaction is mined: external.
Mine == /\ height < Len(Chain) /\ height' = height + 1
        /\ UNCHANGED <<feedVars, rowVars, pageVars, acked, pnl, job, connected, faults, ops>>

-----------------------------------------------------------------------------
(* The rows of a transfer. The hash is unique in a portfolio: the first leg claims it, and a
   second one is TRANSACTION_HASH_DUPLICATE, which both callers take for "already recorded". *)

\* The Asset row is created, empty, with the Transaction row; a connected balance is not derived
\* from the rows (recalcAssetBalance leaves it alone).
createTransactionFromWebhook(n, k) ==
    LET t == Chain[n][k].item
    IN  IF feed[n] # 0 THEN UNCHANGED <<feed, balance, written>>
        ELSE /\ feed' = [feed EXCEPT ![n] = k]
             /\ balance' = [balance EXCEPT ![t] = IF @ = None THEN 0 ELSE @]
             /\ UNCHANGED written

createNftTransactionFromWebhook(n, k) == feed' = IF feed[n] # 0 THEN feed ELSE [feed EXCEPT ![n] = k]

\* A token the catalog lacks is listed.
resolveOrCreateToken(S) == listed' = listed \cup S

\* Received: upsert. Sent: delete.
moveNft(l) == nfts' = IF l.dir = "in" THEN nfts \cup {l.item} ELSE nfts \ {l.item}

-----------------------------------------------------------------------------
(* handleMoralisWebhook, for the confirmed delivery of transaction n. An unconfirmed one, and one
   whose key is set, change nothing. *)

HookStart(p) ==
    /\ "hook" \in ops /\ At(p, "idle") /\ connected
    /\ \E n \in (1..height) \ acked : Goto(p, [Idle EXCEPT !.op = "hook", !.at = "legs", !.n = n])
    /\ UNCHANGED <<height, feedVars, rowVars, pageVars, acked, pnl, connected, faults, ops>>

NextLeg(p, touched) == Goto(p, [job[p] EXCEPT !.k = @ + 1, !.touched = @ \/ touched])
AtLeg(p, kind) == /\ At(p, "legs") /\ job[p].k <= Len(Chain[job[p].n])
                  /\ Chain[job[p].n][job[p].k].kind = kind

processNativeTx(p) ==
    /\ AtLeg(p, "native")
    /\ createTransactionFromWebhook(job[p].n, job[p].k)
    /\ NextLeg(p, TRUE)
    /\ UNCHANGED <<height, nfts, listed, lost, known, drift, pageVars, acked, pnl, connected, faults, ops>>

\* A token the catalog lacks is skipped.
erc20Untouched(p) ==
    /\ AtLeg(p, "erc20")
    /\ createTransactionFromWebhook(job[p].n, job[p].k)
    /\ NextLeg(p, FALSE)
    /\ UNCHANGED <<height, nfts, listed, lost, known, drift, pageVars, acked, pnl, connected, faults, ops>>
processErc20Transfer(p) ==
    /\ AtLeg(p, "erc20")
    /\ IF Chain[job[p].n][job[p].k].item \in listed
       THEN createTransactionFromWebhook(job[p].n, job[p].k) /\ NextLeg(p, TRUE)
       ELSE UNCHANGED <<feed, balance, written>> /\ NextLeg(p, FALSE)
    /\ UNCHANGED <<height, nfts, listed, lost, known, drift, pageVars, acked, pnl, connected, faults, ops>>

\* NFTs make no Transaction row here.
processNftTransfers(p) ==
    /\ AtLeg(p, "nft")
    /\ moveNft(Chain[job[p].n][job[p].k])
    /\ NextLeg(p, FALSE)
    /\ UNCHANGED <<height, feed, listed, lost, rowVars, pageVars, acked, pnl, connected, faults, ops>>

\* A leg fails: 500, no key, and Moralis delivers again.
HookFailsAcked(p) ==
    /\ At(p, "legs") /\ Fault(TRUE) /\ Count(TRUE) /\ Goto(p, Idle) /\ acked' = acked \cup {job[p].n}
    /\ UNCHANGED <<height, feedVars, rowVars, pageVars, pnl, connected, ops>>
HookFails(p) ==
    /\ At(p, "legs") /\ Fault(TRUE) /\ Count(TRUE) /\ Goto(p, Idle)
    /\ UNCHANGED <<height, feedVars, rowVars, pageVars, acked, pnl, connected, ops>>

\* The key, and then a refresh of the portfolio when a fungible leg touched it.
HookAck(p) ==
    /\ At(p, "legs") /\ job[p].k > Len(Chain[job[p].n])
    /\ acked' = acked \cup {job[p].n}
    /\ Goto(p, IF job[p].touched THEN [Idle EXCEPT !.op = "hook", !.at = "refresh"] ELSE Idle)
    /\ UNCHANGED <<height, feedVars, rowVars, pageVars, pnl, connected, faults, ops>>

-----------------------------------------------------------------------------
(* Balances from a summary *)

\* A summary was read and is not written yet.
Writing(q) == job[q].op # "more" /\ job[q].at \notin {"idle", "legs", "refresh"}
Overlaps(p) == \E q \in Procs \ {p} : Writing(q)

\* refreshConnectedBalancesFromProvider: no verified summary, or a token that cannot be resolved,
\* and the balances stay as they are.
refreshConnectedBalancesFromProvider(p) ==
    /\ At(p, "refresh")
    /\ \E s \in Summaries[Outage("no summary")][height] : \E f \in BOOLEAN :
         /\ Fault(f) /\ Count(f) /\ (f => s.status = "ok")
         /\ IF s.status = "error" \/ f
            THEN /\ Goto(p, Idle) /\ drift' = TRUE /\ UNCHANGED listed
            ELSE /\ Goto(p, [Idle EXCEPT !.op = "hook", !.at = "set", !.held = s.tokens,
                                         !.todo = DOMAIN s.tokens])
                 /\ resolveOrCreateToken(DOMAIN s.tokens)
                 /\ drift' = (drift \/ Overlaps(p))
    /\ UNCHANGED <<height, feed, nfts, lost, balance, known, written, pageVars, acked, pnl, connected, ops>>

\* setConnectedBalancesFromSummary: one upsert a token, a failed one skipped. Without a cost map
\* (the empty set) the row keeps what it knows.
Cost(j, t) == IF t \in j.cost THEN j.by ELSE "none"
Upsert(j, t) == /\ balance' = [balance EXCEPT ![t] = IF t \in DOMAIN j.held THEN j.held[t] ELSE 0]
                /\ written' = written \cup {t}
SetBalanceForgets(p) ==
    /\ At(p, "set") /\ job[p].todo # {}
    /\ \E t \in job[p].todo : Upsert(job[p], t) /\ known' = [known EXCEPT ![t] = Cost(job[p], t)]
                              /\ Goto(p, [job[p] EXCEPT !.todo = @ \ {t}])
    /\ UNCHANGED <<height, feedVars, drift, pageVars, acked, pnl, connected, faults, ops>>
SetBalance(p) ==
    /\ At(p, "set") /\ job[p].todo # {}
    /\ LET j == job[p]
           t == CHOOSE t \in j.todo : \A u \in j.todo : place(t) <= place(u)
       IN  \E f \in BOOLEAN :
             /\ Fault(f) /\ Count(f)
             /\ IF f THEN drift' = TRUE /\ UNCHANGED <<balance, known, written>>
                ELSE /\ Upsert(j, t) /\ UNCHANGED drift
                     /\ known' = IF j.cost = {} THEN known ELSE [known EXCEPT ![t] = Cost(j, t)]
             /\ Goto(p, [j EXCEPT !.todo = @ \ {t}])
    /\ UNCHANGED <<height, feedVars, pageVars, acked, pnl, connected, ops>>

\* Then every other row is sold out.
ZeroRest(p) ==
    /\ At(p, "set") /\ job[p].todo = {}
    /\ LET j == job[p]
           rest == {t \in TokenSet : balance[t] # None} \ (DOMAIN j.held \cup j.cost)
       IN  /\ balance' = [t \in TokenSet |-> IF t \in rest THEN 0 ELSE balance[t]]
           /\ written' = written \cup rest
           /\ known' = IF j.cost = {} THEN known
                       ELSE [t \in TokenSet |-> IF t \in rest THEN "none" ELSE known[t]]
           /\ Goto(p, IF Full(j) THEN [j EXCEPT !.at = "finish", !.held = NoHeld, !.cost = {}, !.by = "none"]
                      ELSE Idle)
    /\ UNCHANGED <<height, feedVars, drift, pageVars, acked, pnl, connected, faults, ops>>

-----------------------------------------------------------------------------
(* syncConnectedHoldings and resyncConnectedHoldings *)

\* (history) What a page lacks because one of Alchemy's two queries failed.
Dropped(c, g) == IF g \in WholePages[height][c] THEN {} ELSE 1..height

\* The summary, the newest page and the PnL are asked for together. Without a verified summary,
\* or with a token that cannot be resolved, it throws.
FullStart(p, op) ==
    /\ At(p, "idle") /\ op \in ops
    /\ \E s \in Summaries[Outage("no summary")][height],
          g \in Pages[Outage("no page")][height][NoCursor], fetched \in Gains[Outage("no pnl")][height], f \in BOOLEAN :
         LET gains == fetchWalletPnl(pnl, op = "resync", fetched)
             other == \E q \in Procs \ {p} : Full(job[q])
         IN  /\ Fault(f) /\ Count(f) /\ (f => s.status = "ok")
             /\ pnl' = gains
             /\ IF s.status = "error" \/ f
                THEN /\ drift' = (drift \/ op = "sync")
                     /\ UNCHANGED <<job, listed, seen, lost>>
                ELSE /\ job' = [q \in Procs |->
                           IF q = p THEN [Idle EXCEPT !.op = op, !.at = "import", !.held = s.tokens,
                                                      !.cost = gains.tokens, !.by = gains.by, !.page = g.legs, !.next = g.next,
                                                      !.blank = ~g.ok, !.lone = ~other]
                           ELSE IF Full(job[q]) THEN [job[q] EXCEPT !.lone = FALSE] ELSE job[q]]
                     /\ resolveOrCreateToken(DOMAIN s.tokens)
                     /\ drift' = (drift \/ Overlaps(p))
                     /\ seen' = IF op = "sync" THEN height ELSE seen
                     /\ lost' = lost \cup Dropped(NoCursor, g)
    /\ UNCHANGED <<height, feed, nfts, balance, known, written, cursor, drained, acked, ops>>

\* The first sync comes with the portfolio; a resync refreshes the PnL whatever the cache has.
SyncStart(p) == ~connected /\ connected' = TRUE /\ FullStart(p, "sync")
ResyncStart(p) == connected /\ UNCHANGED connected /\ FullStart(p, "resync")

\* importTransfers: the oldest leg of the page first, and one that fails is skipped. The NFT row
\* moves before the hash is claimed.
ImportLeg(p) ==
    /\ At(p, "import") /\ job[p].page # {}
    /\ LET x == CHOOSE x \in job[p].page : \A y \in job[p].page :
                    x[1] < y[1] \/ (x[1] = y[1] /\ x[2] <= y[2])
           l == Chain[x[1]][x[2]]
       IN  \E f \in BOOLEAN :
             /\ Fault(f) /\ Count(f)
             /\ CASE f -> lost' = lost \cup {x[1]} /\ UNCHANGED <<feed, nfts, listed, balance, written>>
                  [] ~f /\ l.kind = "nft" ->
                        /\ moveNft(l) /\ createNftTransactionFromWebhook(x[1], x[2])
                        /\ UNCHANGED <<listed, lost, balance, written>>
                  [] ~f /\ l.kind # "nft" ->
                        /\ createTransactionFromWebhook(x[1], x[2]) /\ resolveOrCreateToken({l.item})
                        /\ UNCHANGED <<nfts, lost>>
             /\ Goto(p, [job[p] EXCEPT !.page = @ \ {x}])
    /\ UNCHANGED <<height, known, drift, pageVars, acked, pnl, connected, ops>>

\* The NFTs the wallet holds now are read ...
NftRead(p) ==
    /\ At(p, "import") /\ job[p].page = {} /\ Full(job[p])
    /\ \E S \in Holdings[Outage("no nfts")][height] : Goto(p, [job[p] EXCEPT !.at = "nfts", !.owned = S])
    /\ UNCHANGED <<height, feedVars, rowVars, pageVars, acked, pnl, connected, faults, ops>>

\* ... and upserted: none is removed.
importNftHoldings(p) ==
    /\ At(p, "nfts")
    /\ nfts' = nfts \cup job[p].owned
    /\ Goto(p, [job[p] EXCEPT !.at = "cost", !.owned = {}])
    /\ UNCHANGED <<height, feed, listed, lost, rowVars, pageVars, acked, pnl, connected, faults, ops>>

\* The gains of the tokens that resolve to a Token row: held, with an Asset row, or in the catalog.
buildConnectedCostMap(p) ==
    /\ At(p, "cost")
    /\ LET j == job[p]
           cost == {t \in j.cost : t \in DOMAIN j.held \/ balance[t] # None \/ t \in listed}
       IN  Goto(p, [j EXCEPT !.at = "set", !.cost = cost, !.todo = DOMAIN j.held \cup cost])
    /\ UNCHANGED <<height, feedVars, rowVars, pageVars, acked, pnl, connected, faults, ops>>

\* The first sync keeps the cursor of the page after the one it imported; a resync leaves it.
FullFinish(p) ==
    /\ At(p, "finish")
    /\ IF job[p].op = "sync" THEN /\ cursor' = job[p].next
                                  /\ drained' = (job[p].next = NoCursor /\ ~job[p].blank)
       ELSE UNCHANGED <<cursor, drained>>
    /\ Goto(p, Idle)
    /\ UNCHANGED <<height, feedVars, rowVars, seen, acked, pnl, connected, faults, ops>>

-----------------------------------------------------------------------------
(* importMoreTransfers *)

MoreStart(p) ==
    /\ "more" \in ops /\ At(p, "idle") /\ cursor # NoCursor
    /\ Goto(p, [Idle EXCEPT !.op = "more", !.at = "page", !.next = cursor])
    /\ UNCHANGED <<height, feedVars, rowVars, pageVars, acked, pnl, connected, faults, ops>>

\* No page: the cursor is cleared.
MorePage(p) ==
    /\ At(p, "page")
    /\ \E g \in Pages[Outage("no page")][height][job[p].next] :
         IF g.ok
         THEN /\ Goto(p, [job[p] EXCEPT !.at = "import", !.page = g.legs, !.next = g.next])
              /\ lost' = lost \cup Dropped(job[p].next, g)
              /\ UNCHANGED <<cursor, drained>>
         ELSE /\ Goto(p, Idle) /\ cursor' = NoCursor /\ drained' = FALSE /\ UNCHANGED lost
    /\ UNCHANGED <<height, feed, nfts, listed, rowVars, seen, acked, pnl, connected, faults, ops>>

\* The cursor moves once the page is imported.
MoreEarly(p) ==
    /\ At(p, "import") /\ job[p].op = "more" /\ cursor # job[p].next
    /\ cursor' = job[p].next /\ drained' = (job[p].next = NoCursor)
    /\ UNCHANGED <<height, feedVars, rowVars, seen, acked, pnl, job, connected, faults, ops>>
MoreFinish(p) ==
    /\ At(p, "import") /\ job[p].page = {} /\ job[p].op = "more"
    /\ cursor' = job[p].next /\ drained' = (job[p].next = NoCursor)
    /\ Goto(p, Idle)
    /\ UNCHANGED <<height, feedVars, rowVars, seen, acked, pnl, connected, faults, ops>>

-----------------------------------------------------------------------------
\* The cached PnL expires.
PnlExpires == /\ pnl # NoPnl /\ "expiry" \in ops /\ pnl' = NoPnl
              /\ UNCHANGED <<height, feedVars, rowVars, pageVars, acked, job, connected, faults, ops>>

\* The server dies and starts again.
Crash == /\ Fault(TRUE) /\ Count(TRUE) /\ \E p \in Procs : ~At(p, "idle")
         /\ drift' = (drift \/ \E p \in Procs : Writing(p) \/ At(p, "refresh"))
         /\ job' = [p \in Procs |-> Idle]
         /\ UNCHANGED <<height, feedVars, balance, known, written, pageVars, acked, pnl, connected, ops>>

Init == /\ height = 0 /\ feed = [n \in Hashes |-> 0]
        /\ balance = [t \in TokenSet |-> None] /\ known = [t \in TokenSet |-> "none"] /\ nfts = {} /\ listed = Catalog
        /\ cursor = NoCursor /\ acked = {} /\ pnl = NoPnl /\ job = [p \in Procs |-> Idle]
        /\ connected = FALSE /\ seen = 0 /\ drained = FALSE /\ lost = {} /\ written = {}
        /\ drift = FALSE /\ faults = 0 /\ ops \in Mixes

HookStep(p) == processNativeTx(p) \/ processErc20Transfer(p) \/ processNftTransfers(p) \/ HookAck(p)
FullStep(p) == ImportLeg(p) \/ NftRead(p) \/ importNftHoldings(p) \/ buildConnectedCostMap(p) \/ FullFinish(p)
MoreStep(p) == MorePage(p) \/ MoreFinish(p)
BalanceStep(p) == refreshConnectedBalancesFromProvider(p) \/ SetBalance(p) \/ ZeroRest(p)

Next == \/ Mine \/ PnlExpires \/ Crash
        \/ \E p \in Procs : \/ HookStart(p) \/ HookStep(p) \/ HookFails(p)
                            \/ BalanceStep(p)
                            \/ SyncStart(p) \/ ResyncStart(p) \/ FullStep(p)
                            \/ MoreStart(p) \/ MoreStep(p)

Spec == Init /\ [][Next]_vars

-----------------------------------------------------------------------------
(* Properties *)

\* The state of every row and of every request has its shape.
TypeOK ==
    /\ height \in 0..Len(Chain)
    /\ \A n \in Hashes : feed[n] \in 0..Len(Chain[n])
    /\ balance \in [TokenSet -> Nat \cup {None}] /\ \A t \in TokenSet : known[t] = "none" \/ (known[t] \in PNL /\ balance[t] # None)
    /\ nfts \subseteq Nfts /\ Catalog \subseteq listed /\ listed \subseteq TokenSet
    /\ acked \subseteq 1..height /\ pnl.by \in PNL \cup {"none"} /\ pnl.tokens \subseteq TokenSet
    /\ cursor.by \in {"none", "moralis", "goldrush", "alchemy"} /\ {cursor.f, cursor.t} \subseteq 0..height
    /\ \A p \in Procs : /\ job[p].todo \subseteq DOMAIN job[p].held \cup job[p].cost
                        /\ DOMAIN job[p].held \subseteq listed
                        /\ job[p].page # {} => At(p, "import")

\* A delivery is acknowledged for good only when its transaction is in the feed: a failure or a
\* crash half way leaves it to be delivered again (moralis-handlers.ts:482).
HasLeg(n) == \E k \in DOMAIN Chain[n] : Chain[n][k].kind # "nft" /\ Chain[n][k].item \in Catalog
AckedIsRecorded == \A n \in acked : HasLeg(n) => feed[n] # 0

\* A balance that a summary wrote is one the wallet has had: no outage, partial answer or failed
\* write makes one up or zeroes a token that was never sold. It holds for the tokens every
\* configured provider lists, of a wallet with no more than MAX_TOKENS of them.
Everywhere == {t \in TokenSet : \A p \in Configured \ {"zerion", "mobula"} : keeps(p, t)}
WasHeld(t) == balance[t] \in {HeldAt(h, t) : h \in 0..height}
BalanceWasHeld == \A t \in written \cap Everywhere : WasHeld(t)

\* Once every transaction is acknowledged and every request has ended, the balances are those of
\* the chain, when no refresh failed or overlapped another: each acknowledged transfer of a token
\* of the catalog is followed by a refresh that sees it.
Settled == connected /\ ~drift /\ acked = 1..height /\ \A p \in Procs : At(p, "idle")
SettledIsTrue == Settled => \A t \in Everywhere \cap Catalog :
                                (IF balance[t] = None THEN 0 ELSE balance[t]) = HeldAt(height, t)

\* "Load more" leaves no gap: what lies before the cursor, of the history the first sync saw, is
\* in the feed, through provider failover and overlapping requests, but for the transfers whose
\* import failed and those behind a failed query of Alchemy.
Covered(n, k) == IF cursor = NoCursor THEN drained
                 ELSE n >= (IF Chain[n][k].dir = "out" THEN cursor.f ELSE cursor.t)
CursorLeavesNoGap == \A n \in (1..seen) \ lost : (\A k \in DOMAIN Chain[n] : Covered(n, k)) => feed[n] # 0

\* What a sync learned of a token's cost is not forgotten by a balance refresh, an outage of the
\* PnL providers, an expired cache or a later answer of the provider it came from. Two things of
\* the code can lose it: overlapping syncs, and a sync whose answer another provider gave. It is
\* stated for the tokens a provider keeps on its list once it has them there.
Steady == {t \in TokenSet : \A p \in PNL : \A h \in Heights : \A g \in h..Len(Chain) :
                                t \in PnlInfo[p][h] => t \in PnlInfo[p][g]}
Forgets(t) == known[t] # "none" /\ known'[t] = "none"
CostSurvives ==
    [][\A t \in Steady : Forgets(t) =>
          \E p \in Procs : /\ At(p, "set") /\ job'[p] # job[p]
                           /\ ~job[p].lone \/ job[p].by \notin {"none", known[t]}]_vars

(* Three statements of the code's comments that do not hold; no run checks them. *)

\* "so a flaky fetch never WIPES cost basis a prior sync established" (index.ts:320): nor does
\* the answer of the other provider, whose list lacks the token (Mixes <- FlakyMix).
FlakyFetchWipesNothing ==
    [][\A t \in Steady : Forgets(t) => \E p \in Procs : ~job[p].lone]_vars

\* "Balance writes must distinguish a verified empty wallet from a provider outage" (index.ts:101):
\* a token Moralis lists is not sold out because Moralis is down and a narrower provider answers.
OutageSellsNothing == \A t \in written : keeps("moralis", t) => WasHeld(t)

\* "the balance can never drift from on-chain" (sync.ts:390): whatever failed or overlapped before,
\* with every delivery acknowledged and every request ended the balances are those of the chain.
NeverDrifts == (connected /\ acked = 1..height /\ \A p \in Procs : At(p, "idle")) =>
                   \A t \in Everywhere \cap Catalog \cap written : balance[t] = HeldAt(height, t)
=============================================================================
