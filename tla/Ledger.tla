------------------------------- MODULE Ledger -------------------------------
(***************************************************************************)
(* The manual portfolios of one user: the transactions API                 *)
(* (transactions.*.ts), the assets API (assets.service.ts, assets.bulk.ts) *)
(* and the balances and net deposits both derive inside a Postgres         *)
(* transaction (recalc.ts).                                                *)
(*                                                                         *)
(* A request reads what it validates outside its transaction, when it      *)
(* begins; the rest of it is a program, the statements of its interactive  *)
(* transaction. Postgres runs READ COMMITTED: a statement sees the rows    *)
(* committed when it starts and the request's own writes, a write locks    *)
(* its row until the end, and a new row locks its portfolio FOR KEY SHARE  *)
(* through its foreign key. A request that is refused before its           *)
(* transaction changes nothing and is not a step.                          *)
(***************************************************************************)
EXTENDS Position, Sequences, SequencesExt
Rel == INSTANCE Relation

CONSTANTS
    Portfolios, Tokens,       \* manual portfolios of the user, catalogue tokens
    Slots,                    \* requests in progress at a time
    Amounts, Prices, Times,   \* inputs: quantities, unit prices, timestamps
    Kinds,                    \* the kinds of request the user makes
    Opened, OpenLot, Logged,  \* holdings, their lot and transactions at the start
    MaxTx, MaxReq, MaxFail,   \* bounds: transaction ids, requests, failures
    MaxRows,                  \* bound: rows of an imported file
    Same, Free                \* markers: not written (a row, a column), not locked

Keys == Portfolios \X Tokens
Ids  == 1 .. MaxTx

RequestKinds == {"create", "amend", "retoken", "retime", "delete", "transfer", "import",
                 "add", "openings", "lot", "net", "remove"}

\* The holding a transaction belongs to.
KeyOf(r) == <<r.pf, r.tok>>

TxRows    == [pf : Portfolios, tok : Tokens, dir : Directions, amount : Nat, usd : Int,
              ts : Nat, group : Nat \cup {Null}]
AssetRows == [id : Nat, lot : LotSet, pos : Positions]

ASSUME LedgerAssumption ==
    /\ Kinds \subseteq RequestKinds /\ IsFiniteSet(Tokens)
    /\ Amounts \subseteq Nat \ {0} /\ Prices \subseteq Nat /\ Times \subseteq Nat
    /\ MaxTx \in Nat /\ MaxReq \in Nat /\ MaxFail \in Nat /\ MaxRows \in Nat
    /\ Free \notin Slots
    /\ Null \notin Int /\ Null \notin TxRows /\ Null \notin AssetRows
    /\ Same # Null /\ Same \notin Int /\ Same \notin TxRows /\ Same \notin AssetRows
    /\ Same \notin Tokens /\ Same \notin Directions
    /\ Opened \subseteq Keys /\ OpenLot \in LotSet
    /\ Logged \in Seq(TxRows) /\ Len(Logged) <= MaxTx
    /\ \A i \in 1 .. Len(Logged) : KeyOf(Logged[i]) \in Opened /\ Logged[i].group = Null

VARIABLES
    txs,        \* Postgres: the transaction rows with their details
    asset,      \* Postgres: the asset rows
    net,        \* Postgres: Portfolio.netDeposit
    nextId,     \* Postgres: the sequence of transaction ids
    active,     \* the slots whose request is in its transaction
    todo,       \* the statements a request has yet to run
    no,         \* the serial number of a request
    wtx, wasset, wnet,   \* what a request has written and not committed
    txLock, assetLock,   \* row locks FOR UPDATE, by their holder
    pfLock,              \* portfolio rows locked FOR UPDATE
    pfShare,             \* the holders of FOR KEY SHARE on a portfolio row
    nreq, fails          \* counters behind the bounds

dbVars   == <<txs, asset, net>>
workVars == <<active, no, wtx, wasset, wnet>>
lockVars == <<txLock, assetLock, pfLock, pfShare>>
vars     == <<dbVars, nextId, workVars, todo, lockVars, nreq, fails>>
-----------------------------------------------------------------------------
(***************************************************************************)
(* What a statement of the request in slot s sees.                         *)
(***************************************************************************)
TxAt(s, i)    == IF wtx[s][i] = Same THEN txs[i] ELSE wtx[s][i]
AssetAt(s, k) == IF wasset[s][k] = Same THEN asset[k] ELSE wasset[s][k]
NetAt(s, p)   == IF wnet[s][p] = Same THEN net[p] ELSE wnet[s][p]

Txs(s)    == [i \in Ids |-> TxAt(s, i)]
Assets(s) == [k \in Keys |-> AssetAt(s, k)]

\* The sum that recalcPortfolioNetDeposit asks the database for.
SumNet(rows, p) ==
    LET held == {t \in Tokens : rows[<<p, t>>] # Null}
    IN SumFunctionOnSet([t \in held |-> rows[<<p, t>>].pos.netDeposit], held)

(***************************************************************************)
(* The statements.                                                         *)
(***************************************************************************)
LockAsset(k)       == [op |-> "lock", k |-> k]
CheckBalance(k, a) == [op |-> "check", k |-> k, amount |-> a]
CreateAsset(k, lot) == [op |-> "createAsset", k |-> k, lot |-> lot]
EnsureAsset(k)     == [op |-> "ensureAsset", k |-> k]
UpdateLot(k, id, lot) == [op |-> "updateLot", k |-> k, id |-> id, lot |-> lot]
UpdateNet(k, id, v) == [op |-> "updateNet", k |-> k, id |-> id, v |-> v]
DeleteAsset(k, id) == [op |-> "deleteAsset", k |-> k, id |-> id]
InsertTx(r)        == [op |-> "insertTx", r |-> r]
UpdateTx(i, ch)    == [op |-> "updateTx", i |-> i, ch |-> ch]
DeleteTx(i)        == [op |-> "deleteTx", i |-> i]
Carry(k, d, a, ts) == [op |-> "carry", k |-> k, d |-> d, amount |-> a, ts |-> ts]
Recalc(k)          == [op |-> "recalc", k |-> k]
UpdatePos(k, pos)  == [op |-> "updatePos", k |-> k, pos |-> pos]
SumPortfolio(p)    == [op |-> "sum", p |-> p]

\* Mutant: recalcAssetBalance without lockAssetBalance.
RecalcAsset_NoLock(k) == <<Recalc(k)>>

\* recalcAssetBalance of one holding, and with recalcPortfolioNetDeposit after it.
RecalcAsset(k) == <<LockAsset(k), Recalc(k)>>
Settle(k)      == RecalcAsset(k) \o <<SumPortfolio(k[1])>>

\* recalcAssetBalance of one holding after the other.
RecalcAll(keys) ==
    [n \in 1 .. 2 * Len(keys) |-> LET k == keys[(n + 1) \div 2]
                                  IN IF n % 2 = 1 THEN LockAsset(k) ELSE Recalc(k)]

Row(p, t, dir, a, usd, ts, g) ==
    [pf |-> p, tok |-> t, dir |-> dir, amount |-> a, usd |-> usd, ts |-> ts, group |-> g]

-----------------------------------------------------------------------------
(***************************************************************************)
(* Waiting and ending.                                                     *)
(***************************************************************************)
Others(holder, s) == {holder} \ {Free, s}

\* updateAssetRow and asset.delete address the row by its id: it must still exist.
IsRow(s, st) == AssetAt(s, st.k) # Null /\ AssetAt(s, st.k).id = st.id

\* The requests that the next statement of slot s waits for. A row that the
\* statement does not see locks nothing and blocks nothing.
Blockers(s) ==
    IF todo[s] = <<>> THEN {}
    ELSE LET st == Head(todo[s]) IN
      CASE st.op \in {"lock", "updatePos"} ->
             IF AssetAt(s, st.k) = Null THEN {} ELSE Others(assetLock[st.k], s)
        [] st.op \in {"updateLot", "updateNet", "deleteAsset"} ->
             IF IsRow(s, st) THEN Others(assetLock[st.k], s) ELSE {}
        [] st.op = "createAsset" -> Others(assetLock[st.k], s) \cup Others(pfLock[st.k[1]], s)
        [] st.op = "insertTx" -> Others(pfLock[st.r.pf], s)
        [] st.op \in {"updateTx", "deleteTx"} ->
             IF TxAt(s, st.i) = Null THEN {} ELSE Others(txLock[st.i], s)
        [] st.op = "sum" -> Others(pfLock[st.p], s) \cup (pfShare[st.p] \ {s})
        [] OTHER -> {}

\* Slot s is at a statement of kind op and has all it waits for.
At(s, op) ==
    /\ s \in active
    /\ todo[s] # <<>>
    /\ Head(todo[s]).op = op
    /\ Blockers(s) = {}

\* The statement has run; or it is replaced by what it leads to.
Done(s) == todo' = [todo EXCEPT ![s] = Tail(@)]
Instead(s, st) == todo' = [todo EXCEPT ![s] = [@ EXCEPT ![1] = st]]

Forget(s) ==
    /\ active' = active \ {s}
    /\ todo' = [todo EXCEPT ![s] = <<>>]
    /\ no' = [no EXCEPT ![s] = 0]
    /\ wtx' = [wtx EXCEPT ![s] = [i \in Ids |-> Same]]
    /\ wasset' = [wasset EXCEPT ![s] = [k \in Keys |-> Same]]
    /\ wnet' = [wnet EXCEPT ![s] = [p \in Portfolios |-> Same]]
    /\ UNCHANGED <<nextId, nreq>>

Unlock(s) ==
    /\ txLock' = [i \in Ids |-> IF txLock[i] = s THEN Free ELSE txLock[i]]
    /\ assetLock' = [k \in Keys |-> IF assetLock[k] = s THEN Free ELSE assetLock[k]]
    /\ pfLock' = [p \in Portfolios |-> IF pfLock[p] = s THEN Free ELSE pfLock[p]]
    /\ pfShare' = [p \in Portfolios |-> pfShare[p] \ {s}]

\* Mutant: the error leaves the transaction open on its connection.
Rollback_LeavesOpen(s) == Forget(s) /\ UNCHANGED <<dbVars, lockVars>>

\* The transaction throws: nothing of it remains but the ids it drew.
Rollback(s) == Forget(s) /\ Unlock(s) /\ UNCHANGED dbVars

Commit(s) ==
    /\ s \in active /\ todo[s] = <<>>
    /\ txs' = Txs(s) /\ asset' = Assets(s)
    /\ net' = [p \in Portfolios |-> NetAt(s, p)]
    /\ Forget(s) /\ Unlock(s)
    /\ UNCHANGED fails

\* The transaction's timeout, a lost connection, a duplicate transactionHash.
Fail(s) ==
    /\ s \in active /\ fails < MaxFail
    /\ fails' = fails + 1
    /\ Rollback(s)

\* Postgres aborts a request that waits, through others, for itself.
WaitsFor   == [x, y \in active |-> y \in Blockers(x)]
Cyclic(s)  == s \in active /\ Blockers(s) # {} /\ Rel!TransitiveClosure(WaitsFor, active)[s, s]
Victim(s)  == Cyclic(s) /\ Rollback(s) /\ UNCHANGED fails
-----------------------------------------------------------------------------
(***************************************************************************)
(* The steps of a transaction, one action per kind of statement.           *)
(***************************************************************************)
\* lockAssetBalance: a row that is not visible is not locked.
DoLock(s) ==
    /\ At(s, "lock")
    /\ LET k == Head(todo[s]).k IN
       assetLock' = IF AssetAt(s, k) = Null THEN assetLock ELSE [assetLock EXCEPT ![k] = s]
    /\ Done(s)
    /\ UNCHANGED <<dbVars, nextId, workVars, txLock, pfLock, pfShare, nreq, fails>>

\* A sale's INSUFFICIENT_BALANCE guard, on the row just locked.
DoCheck(s) ==
    /\ At(s, "check")
    /\ LET st == Head(todo[s])
           a  == AssetAt(s, st.k)
       IN IF a = Null \/ st.amount > a.pos.balance
          THEN Rollback(s) /\ UNCHANGED fails
          ELSE /\ Done(s)
               /\ UNCHANGED <<dbVars, nextId, workVars, lockVars, nreq, fails>>

WriteAsset(s, k, v) ==
    /\ wasset' = [wasset EXCEPT ![s][k] = v]
    /\ assetLock' = [assetLock EXCEPT ![k] = s]
    /\ UNCHANGED <<dbVars, nextId, active, no, wtx, wnet, txLock, pfLock, nreq, fails>>

\* asset.create: the holding is unique, and its portfolio is locked FOR KEY SHARE.
DoCreateAsset(s) ==
    /\ At(s, "createAsset")
    /\ LET st == Head(todo[s]) IN
       IF AssetAt(s, st.k) # Null
       THEN Rollback(s) /\ UNCHANGED fails
       ELSE /\ WriteAsset(s, st.k, [id |-> no[s], lot |-> st.lot, pos |-> NewPosition])
            /\ pfShare' = [pfShare EXCEPT ![st.k[1]] = @ \cup {s}]
            /\ Done(s)

\* A transfer opens the holding of its destination when it is not there.
DoEnsureAsset(s) ==
    /\ At(s, "ensureAsset")
    /\ LET k == Head(todo[s]).k IN
       IF AssetAt(s, k) = Null THEN Instead(s, CreateAsset(k, NoLot)) ELSE Done(s)
    /\ UNCHANGED <<dbVars, nextId, workVars, lockVars, nreq, fails>>

DoUpdateLot(s) ==
    /\ At(s, "updateLot")
    /\ LET st == Head(todo[s]) IN
       IF ~IsRow(s, st)
       THEN Rollback(s) /\ UNCHANGED fails
       ELSE /\ WriteAsset(s, st.k, [AssetAt(s, st.k) EXCEPT !.lot = st.lot])
            /\ Done(s) /\ UNCHANGED pfShare

DoUpdateNet(s) ==
    /\ At(s, "updateNet")
    /\ LET st == Head(todo[s]) IN
       IF ~IsRow(s, st)
       THEN Rollback(s) /\ UNCHANGED fails
       ELSE /\ WriteAsset(s, st.k, [AssetAt(s, st.k) EXCEPT
                                      !.pos = [AssetAt(s, st.k).pos EXCEPT !.netDeposit = st.v]])
            /\ Done(s) /\ UNCHANGED pfShare

DoDeleteAsset(s) ==
    /\ At(s, "deleteAsset")
    /\ LET st == Head(todo[s]) IN
       IF ~IsRow(s, st)
       THEN Rollback(s) /\ UNCHANGED fails
       ELSE /\ WriteAsset(s, st.k, Null)
            /\ Done(s) /\ UNCHANGED pfShare

\* recalcAssetBalance after its lock: reads the row and the transactions, and
\* writes what they derive unless the row is gone.
DoRecalc(s) ==
    /\ At(s, "recalc")
    /\ LET k == Head(todo[s]).k
           a == AssetAt(s, k)
       IN IF a = Null THEN Done(s) ELSE Instead(s, UpdatePos(k, Derive(a.lot, Txs(s), k)))
    /\ UNCHANGED <<dbVars, nextId, workVars, lockVars, nreq, fails>>

DoUpdatePos(s) ==
    /\ At(s, "updatePos")
    /\ LET st == Head(todo[s]) IN
       IF AssetAt(s, st.k) = Null
       THEN UNCHANGED <<dbVars, nextId, workVars, lockVars, nreq, fails>>
       ELSE /\ WriteAsset(s, st.k, [AssetAt(s, st.k) EXCEPT !.pos = st.pos])
            /\ UNCHANGED pfShare
    /\ Done(s)

WriteTx(s, i, v) ==
    /\ wtx' = [wtx EXCEPT ![s][i] = v]
    /\ txLock' = [txLock EXCEPT ![i] = s]
    /\ UNCHANGED <<dbVars, active, no, wasset, wnet, assetLock, pfLock, nreq, fails>>

\* createTransactionRow with its detail row: the id is the next of the sequence.
DoInsertTx(s) ==
    /\ At(s, "insertTx")
    /\ nextId \in Ids
    /\ LET r == Head(todo[s]).r IN
       /\ WriteTx(s, nextId, r)
       /\ pfShare' = [pfShare EXCEPT ![r.pf] = @ \cup {s}]
    /\ nextId' = nextId + 1
    /\ Done(s)

\* The columns a PATCH has in its body; the others are Same.
Change(tok, dir, a, usd, ts) == [tok |-> tok, dir |-> dir, amount |-> a, usd |-> usd, ts |-> ts]
Given(new, old) == IF new = Same THEN old ELSE new
Edited(r, ch) == Row(r.pf, Given(ch.tok, r.tok), Given(ch.dir, r.dir), Given(ch.amount, r.amount),
                     Given(ch.usd, r.usd), Given(ch.ts, r.ts), r.group)

\* updateTransactionBase and updateNativeDetail or updateErc20Detail: the row must exist.
DoUpdateTx(s) ==
    /\ At(s, "updateTx")
    /\ LET st == Head(todo[s])
           r  == TxAt(s, st.i)
       IN IF r = Null
          THEN Rollback(s) /\ UNCHANGED fails
          ELSE /\ WriteTx(s, st.i, Edited(r, st.ch))
               /\ Done(s) /\ UNCHANGED <<nextId, pfShare>>

\* deleteTransactionRow: the row must exist.
DoDeleteTx(s) ==
    /\ At(s, "deleteTx")
    /\ LET i == Head(todo[s]).i IN
       IF TxAt(s, i) = Null
       THEN Rollback(s) /\ UNCHANGED fails
       ELSE /\ WriteTx(s, i, Null)
            /\ Done(s) /\ UNCHANGED <<nextId, pfShare>>

\* The basis a transfer carries: amount x netDeposit / balance of the source.
CarriedBasis(pos, amount) == (amount * pos.netDeposit) \div pos.balance

\* createCrossPortfolioTransfer after its lock: the guard, then the two legs.
DoCarry(s) ==
    /\ At(s, "carry")
    /\ LET st  == Head(todo[s])
           src == AssetAt(s, st.k)
           d   == <<st.d, st.k[2]>>
           leg(k, dir) == InsertTx(Row(k[1], k[2], dir, st.amount,
                                       CarriedBasis(src.pos, st.amount), st.ts, no[s]))
       IN IF src = Null \/ src.pos.balance < st.amount
          THEN Rollback(s) /\ UNCHANGED fails
          ELSE /\ todo' = [todo EXCEPT ![s] =
                             <<EnsureAsset(d), leg(st.k, "sell"), leg(d, "buy")>>
                             \o Settle(st.k) \o Settle(d)]
               /\ UNCHANGED <<dbVars, nextId, workVars, lockVars, nreq, fails>>

\* Mutant: the sum without the portfolio's FOR UPDATE.
DoSum_NoLock(s) ==
    /\ s \in active /\ todo[s] # <<>> /\ Head(todo[s]).op = "sum"
    /\ LET p == Head(todo[s]).p IN wnet' = [wnet EXCEPT ![s][p] = SumNet(Assets(s), p)]
    /\ Done(s)
    /\ UNCHANGED <<dbVars, nextId, active, no, wtx, wasset, lockVars, nreq, fails>>

\* recalcPortfolioNetDeposit: the portfolio FOR UPDATE, then the sum.
DoSum(s) ==
    /\ At(s, "sum")
    /\ LET p == Head(todo[s]).p IN
       /\ wnet' = [wnet EXCEPT ![s][p] = SumNet(Assets(s), p)]
       /\ pfLock' = [pfLock EXCEPT ![p] = s]
    /\ Done(s)
    /\ UNCHANGED <<dbVars, nextId, active, no, wtx, wasset, txLock, assetLock, pfShare, nreq, fails>>
-----------------------------------------------------------------------------
(***************************************************************************)
(* The requests: what each reads and refuses before its transaction, and   *)
(* the statements of the transaction. A plan or token that is not allowed, *)
(* an input that does not parse and a duplicate hash refuse the request.   *)
(***************************************************************************)
MayBegin(s, kind) == kind \in Kinds /\ s \notin active /\ nreq < MaxReq

Begin(s, program) ==
    /\ nreq' = nreq + 1
    /\ active' = active \cup {s}
    /\ no' = [no EXCEPT ![s] = nreq + 1]
    /\ todo' = [todo EXCEPT ![s] = program]
    /\ UNCHANGED <<dbVars, nextId, wtx, wasset, wnet, lockVars, fails>>

\* Mutant: the balance of a sale is read without lockAssetBalance.
CreateProgram_NoLock(r, held) ==
    (IF r.dir = "sell" THEN <<CheckBalance(KeyOf(r), r.amount)>> ELSE <<>>)
    \o (IF held THEN <<>> ELSE <<CreateAsset(KeyOf(r), NoLot)>>)
    \o <<InsertTx(r)>> \o Settle(KeyOf(r))

\* createTransaction: a purchase opens its holding, a sale checks its balance.
CreateProgram(r, held) ==
    (IF r.dir = "sell" THEN <<LockAsset(KeyOf(r)), CheckBalance(KeyOf(r), r.amount)>> ELSE <<>>)
    \o (IF held THEN <<>> ELSE <<CreateAsset(KeyOf(r), NoLot)>>)
    \o <<InsertTx(r)>> \o Settle(KeyOf(r))

CreateTransaction(s) ==
    /\ MayBegin(s, "create")
    /\ \E k \in Keys, dir \in Directions, a \in Amounts, price \in Prices, ts \in Times :
           /\ dir # "buy" => asset[k] # Null
           /\ Begin(s, CreateProgram(Row(k[1], k[2], dir, a, a * price, ts, Null),
                                     asset[k] # Null))

\* What a PATCH may change, with the usdValue it recomputes from the row it
\* read: its amount, and the entered, stored or current price.
Amendments(r) ==
         {Change(Same, d, Same, Same, Same) : d \in Directions}
    \cup {Change(Same, Same, Same, r.amount * price, Same) : price \in Prices}
    \cup {Change(Same, Same, a, a * price, ts) : a \in Amounts, price \in Prices, ts \in Times}
Retokenings(r) == {Change(t, Same, Same, r.amount * price, Same) :
                      t \in Tokens \ {r.tok}, price \in Prices}
Retimings      == {Change(Same, Same, Same, Same, ts) : ts \in Times}

\* updateTransaction: the holdings to settle are those of the row it read,
\* and an edit of the timestamp alone settles none.
Amend(s) ==
    /\ MayBegin(s, "amend")
    /\ \E i \in Ids :
           /\ txs[i] # Null /\ txs[i].group = Null
           /\ \E ch \in Amendments(txs[i]) :
                 Begin(s, <<UpdateTx(i, ch)>> \o Settle(KeyOf(txs[i])))

Retoken(s) ==
    /\ MayBegin(s, "retoken")
    /\ \E i \in Ids :
           /\ txs[i] # Null /\ txs[i].group = Null
           /\ \E ch \in Retokenings(txs[i]) :
                 LET new == <<txs[i].pf, ch.tok>> IN
                 /\ asset[new] # Null
                 /\ Begin(s, <<UpdateTx(i, ch)>> \o RecalcAsset(KeyOf(txs[i])) \o Settle(new))

Retime(s) ==
    /\ MayBegin(s, "retime")
    /\ \E i \in Ids :
           /\ txs[i] # Null /\ txs[i].group = Null
           /\ \E ch \in Retimings : Begin(s, <<UpdateTx(i, ch)>>)

\* Mutant: only the leg of the request is deleted.
LegsOf_One(i) == {i}

\* deleteTransaction: a transfer goes with both legs.
LegsOf(i) == IF txs[i].group = Null THEN {i}
             ELSE {j \in Ids : txs[j] # Null /\ txs[j].group = txs[i].group}

DeleteProgram(legs) ==
       [j \in DOMAIN legs |-> DeleteTx(legs[j])]
    \o RecalcAll([j \in DOMAIN legs |-> KeyOf(txs[legs[j]])])
    \o [j \in DOMAIN legs |-> SumPortfolio(txs[legs[j]].pf)]

DeleteTransaction(s) ==
    /\ MayBegin(s, "delete")
    /\ \E i \in Ids :
           /\ txs[i] # Null
           /\ \E legs \in SetToSeqs(LegsOf(i)) : Begin(s, DeleteProgram(legs))

\* Mutant: the source is read without lockAssetBalance.
Transfer_NoLock(s) ==
    /\ MayBegin(s, "transfer")
    /\ \E k \in Keys, d \in Portfolios, a \in Amounts, ts \in Times :
           /\ d # k[1]
           /\ Begin(s, <<Carry(k, d, a, ts)>>)

\* createCrossPortfolioTransfer: everything is read under the lock.
Transfer(s) ==
    /\ MayBegin(s, "transfer")
    /\ \E k \in Keys, d \in Portfolios, a \in Amounts, ts \in Times :
           /\ d # k[1]
           /\ Begin(s, <<LockAsset(k), Carry(k, d, a, ts)>>)

\* bulkCreateTransactions: the rows are checked against balances read before
\* the transaction and advanced row by row; a failing row is left out.
PrepareRow(st, r) ==
    LET held == r.tok \in st.held
        bal  == IF held THEN st.bal[r.tok] ELSE 0
        ok   == r.dir = "buy" \/ (held /\ r.amount <= bal)
    IN IF ~ok THEN [st EXCEPT !.errors = @ + 1]
       ELSE [held |-> st.held \cup {r.tok},
             bal  |-> [st.bal EXCEPT ![r.tok] = IF r.dir = "buy" THEN bal + r.amount
                                                                 ELSE bal - r.amount],
             rows |-> st.rows \o (IF held THEN <<>> ELSE <<CreateAsset(KeyOf(r), NoLot)>>)
                              \o <<InsertTx(r)>>,
             touched |-> IF \E j \in DOMAIN st.touched : st.touched[j] = KeyOf(r)
                         THEN st.touched ELSE Append(st.touched, KeyOf(r)),
             errors |-> st.errors]

Prepared(p, file) ==
    FoldLeft(PrepareRow,
             [held |-> {t \in Tokens : asset[<<p, t>>] # Null},
              bal |-> [t \in Tokens |-> IF asset[<<p, t>>] = Null THEN 0
                                        ELSE asset[<<p, t>>].pos.balance],
              rows |-> <<>>, touched |-> <<>>, errors |-> 0],
             file)

ImportProgram(p, st) ==
    st.rows \o RecalcAll(st.touched) \o <<SumPortfolio(p)>>

FileRows(p) == {Row(p, t, dir, a, a * price, ts, Null) :
                   t \in Tokens, dir \in {"buy", "sell"}, a \in Amounts,
                   price \in Prices, ts \in Times}

ImportTransactions(s) ==
    /\ MayBegin(s, "import")
    /\ \E p \in Portfolios, n \in 1 .. MaxRows : \E file \in [1 .. n -> FileRows(p)] :
           \E mode \in {"all_or_nothing", "skip_invalid"} :
               \E st \in {Prepared(p, file)} :
               /\ mode = "all_or_nothing" => st.errors = 0
               /\ st.rows # <<>>
               /\ Begin(s, ImportProgram(p, st))

\* An opening lot: its cost is entered, taken from the price history, or unknown.
LotsOf(a) == {[qty |-> a, cost |-> Null]} \cup {[qty |-> a, cost |-> a * price] : price \in Prices}
Lots      == UNION {LotsOf(a) : a \in Amounts}

AddAsset(s) ==
    /\ MayBegin(s, "add")
    /\ \E k \in Keys, lot \in Lots :
           /\ asset[k] = Null
           /\ Begin(s, <<CreateAsset(k, lot)>> \o Settle(k))

\* bulkCreateAssets: the tokens of the file that the portfolio does not hold.
OpenProgram(p, q, lots) ==
    [n \in 1 .. 3 * Len(q) |->
        LET t == q[(n + 2) \div 3]
        IN CASE n % 3 = 1 -> CreateAsset(<<p, t>>, lots[t])
             [] n % 3 = 2 -> LockAsset(<<p, t>>)
             [] n % 3 = 0 -> Recalc(<<p, t>>)]
    \o <<SumPortfolio(p)>>

OpenAssets(s) ==
    /\ MayBegin(s, "openings")
    /\ \E p \in Portfolios : \E S \in SUBSET {t \in Tokens : asset[<<p, t>>] = Null} \ {{}} :
           \E q \in SetToSeqs(S), lots \in [S -> Lots] : Begin(s, OpenProgram(p, q, lots))

\* updateAsset: an edit of the opening lot. Without a new cost, the cost keeps
\* its value per unit of the lot that was read; without a new balance, the lot
\* keeps its own, unless that is zero.
Rescaled(lot, a) ==
    [qty |-> a, cost |-> IF lot.cost = Null \/ lot.qty = 0 THEN Null
                         ELSE (a * lot.cost) \div lot.qty]

UpdateAsset(s) ==
    /\ MayBegin(s, "lot")
    /\ \E k \in Keys :
           /\ asset[k] # Null
           /\ \E lot \in Lots \cup {Rescaled(asset[k].lot, a) : a \in Amounts}
                             \cup LotsOf(asset[k].lot.qty) :
                 /\ lot.qty > 0
                 /\ Begin(s, <<UpdateLot(k, asset[k].id, lot)>> \o Settle(k))

\* updateAsset with a netDeposit alone: one statement, no transaction around it.
OverrideNet(s) ==
    /\ MayBegin(s, "net")
    /\ \E k \in Keys, v \in Amounts :
           /\ asset[k] # Null
           /\ Begin(s, <<UpdateNet(k, asset[k].id, v)>>)

RemoveAsset(s) ==
    /\ MayBegin(s, "remove")
    /\ \E k \in Keys :
           /\ asset[k] # Null
           /\ Begin(s, <<DeleteAsset(k, asset[k].id), SumPortfolio(k[1])>>)
-----------------------------------------------------------------------------
Init ==
    /\ txs = [i \in Ids |-> IF i <= Len(Logged) THEN Logged[i] ELSE Null]
    /\ asset = [k \in Keys |->
                  IF k \in Opened
                  THEN [id |-> 0, lot |-> OpenLot,
                        pos |-> Derive(OpenLot,
                                       [i \in Ids |-> IF i <= Len(Logged) THEN Logged[i] ELSE Null], k)]
                  ELSE Null]
    /\ net = [p \in Portfolios |-> SumNet(asset, p)]
    /\ nextId = Len(Logged) + 1
    /\ active = {}
    /\ todo = [s \in Slots |-> <<>>]
    /\ no = [s \in Slots |-> 0]
    /\ wtx = [s \in Slots |-> [i \in Ids |-> Same]]
    /\ wasset = [s \in Slots |-> [k \in Keys |-> Same]]
    /\ wnet = [s \in Slots |-> [p \in Portfolios |-> Same]]
    /\ txLock = [i \in Ids |-> Free]
    /\ assetLock = [k \in Keys |-> Free]
    /\ pfLock = [p \in Portfolios |-> Free]
    /\ pfShare = [p \in Portfolios |-> {}]
    /\ nreq = 0 /\ fails = 0

Request(s) ==
    \/ CreateTransaction(s) \/ Amend(s) \/ Retoken(s) \/ Retime(s)
    \/ DeleteTransaction(s) \/ Transfer(s) \/ ImportTransactions(s)
    \/ AddAsset(s) \/ OpenAssets(s) \/ UpdateAsset(s) \/ OverrideNet(s) \/ RemoveAsset(s)

Run(s) ==
    \/ DoLock(s) \/ DoCheck(s) \/ DoCreateAsset(s) \/ DoEnsureAsset(s)
    \/ DoUpdateLot(s) \/ DoUpdateNet(s) \/ DoDeleteAsset(s)
    \/ DoInsertTx(s) \/ DoUpdateTx(s) \/ DoDeleteTx(s)
    \/ DoCarry(s) \/ DoRecalc(s) \/ DoUpdatePos(s) \/ DoSum(s) \/ Commit(s)

Next == \E s \in Slots : Request(s) \/ Run(s) \/ Fail(s) \/ Victim(s)

Spec == Init /\ [][Next]_vars
-----------------------------------------------------------------------------
(***************************************************************************)
(* Properties.                                                             *)
(***************************************************************************)
\* Rows refer to holdings, and only a request in its transaction holds a lock
\* (prisma.$transaction ends with a commit or a rollback on every path).
TypeOK ==
    /\ \A i \in Ids : txs[i] # Null => /\ KeyOf(txs[i]) \in Keys
                                       /\ txs[i].dir \in Directions
    /\ DOMAIN asset = Keys /\ net \in [Portfolios -> Int]
    /\ nextId \in 1 .. MaxTx + 1
    /\ active \subseteq Slots
    /\ txLock \in [Ids -> active \cup {Free}] /\ assetLock \in [Keys -> active \cup {Free}]
    /\ pfLock \in [Portfolios -> active \cup {Free}] /\ pfShare \in [Portfolios -> SUBSET active]

\* Whatever requests interleave, a committed asset row says what
\* recalcAssetBalance derives from the committed opening lot and transactions.
AssetIsDerived ==
    \A k \in Keys : asset[k] # Null => asset[k].pos = Derive(asset[k].lot, txs, k)

\* Portfolio.netDeposit is the sum over its committed assets
\* (recalcPortfolioNetDeposit serializes the writers of one portfolio).
NetIsSum == \A p \in Portfolios : net[p] = SumNet(asset, p)

\* A sale that commits leaves its holding with a balance that is not negative:
\* the INSUFFICIENT_BALANCE guard of createTransaction and of the import holds
\* against every other request.
SalesAreCovered ==
    [][\A i \in Ids : \A k \in Keys :
          (/\ txs[i] = Null /\ txs'[i] # Null
           /\ txs'[i].dir = "sell" /\ txs'[i].group = Null
           /\ KeyOf(txs'[i]) = k /\ asset'[k] # Null)
          => asset'[k].pos.balance >= 0]_vars

\* A transfer moves units that its source had: the check made under the
\* source's lock still holds when the two legs commit, whatever symbol edits,
\* imports, removals and openings ran meanwhile (createCrossPortfolioTransfer).
\* A source that was opened while the requests run is excused: its row may not
\* have been there for the lock to find.
TransfersAreCovered ==
    [][\A i \in Ids : \A k \in Keys :
          (/\ txs[i] = Null /\ txs'[i] # Null
           /\ txs'[i].dir = "sell" /\ txs'[i].group # Null
           /\ KeyOf(txs'[i]) = k /\ asset[k] # Null /\ asset[k].id = 0)
          => asset'[k].pos.balance >= 0]_vars

\* The two legs of a transfer live and die together and carry the same amount
\* and basis (createCrossPortfolioTransfer, deleteTransaction).
LegsArePaired ==
    \A i \in Ids : (txs[i] # Null /\ txs[i].group # Null) =>
        \E j \in Ids \ {i} :
            /\ {l \in Ids : txs[l] # Null /\ txs[l].group = txs[i].group} = {i, j}
            /\ {txs[i].dir, txs[j].dir} = {"sell", "buy"}
            /\ txs[i].pf # txs[j].pf
            /\ txs[i].tok = txs[j].tok /\ txs[i].amount = txs[j].amount /\ txs[i].usd = txs[j].usd

\* A transfer relocates cost basis: the total over the portfolios stays
\* (the comment above the usdValue of createCrossPortfolioTransfer).
TotalBasis(rows, t) ==
    LET held == {p \in Portfolios : rows[<<p, t>>] # Null}
    IN SumFunctionOnSet([p \in held |-> rows[<<p, t>>].pos.costBasis], held)

TransferKeepsBasis ==
    [][\A i \in Ids :
          (txs[i] = Null /\ txs'[i] # Null /\ txs'[i].group # Null)
          => TotalBasis(asset', txs'[i].tok) = TotalBasis(asset, txs'[i].tok)]_vars

\* Writers of one portfolio wait for each other and never in a circle.
WritersSerialize == \A s \in active : ~Cyclic(s)
=============================================================================
