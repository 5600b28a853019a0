------------------------------ MODULE Position ------------------------------
(***************************************************************************)
(* The average-cost position of one holding (recalc.ts): what an asset row *)
(* must say, given its opening lot and the transactions of its token in    *)
(* its portfolio. Money and quantities are integers (multiples of the      *)
(* stored precision); a quotient is rounded where it is taken, whereas the *)
(* code carries a double and rounds the results once.                      *)
(***************************************************************************)
EXTENDS Integers, FiniteSets, Folds

CONSTANT Null     \* the SQL null: no row, no cost, no transfer group

Directions == {"buy", "sell", "transfer"}

\* Opening lots, the derived columns of an asset row, the running totals behind them.
LotSet    == [qty : Nat, cost : Nat \cup {Null}]
Positions == [balance : Int, netDeposit : Int, realizedPnl : Int,
              avgCost : Int \cup {Null}, costBasis : Int]
Runs      == [qty : Int, known : Int, cost : Int, realized : Int, net : Int]

\* openingBalance and openingCostBasis of an asset that a trade created.
NoLot == [qty |-> 0, cost |-> Null]

\* The running totals of recalcAssetBalance before the first transaction.
Seed(lot) ==
    LET basis == IF lot.cost = Null THEN 0 ELSE lot.cost IN
    [qty |-> lot.qty, known |-> IF lot.cost = Null THEN 0 ELSE lot.qty,
     cost |-> basis, realized |-> 0, net |-> basis]

Bought(run, r) ==
    [qty |-> run.qty + r.amount, known |-> run.known + r.amount, cost |-> run.cost + r.usd,
     realized |-> run.realized, net |-> run.net + r.usd]

\* A sale takes its cost at the average, as far as the cost is known; a
\* transfer's leg realizes nothing.
Sold(run, r) ==
    LET least == IF r.amount < run.known THEN r.amount ELSE run.known
        sold  == IF run.known > 0 THEN least ELSE 0
        paid  == IF run.known > 0 THEN (sold * run.cost) \div run.known ELSE 0
        got   == IF r.amount > 0 THEN (sold * r.usd) \div r.amount ELSE 0
    IN [qty |-> run.qty - r.amount, known |-> run.known - sold, cost |-> run.cost - paid,
        realized |-> IF r.group = Null THEN run.realized + got - paid ELSE run.realized,
        net |-> run.net - r.usd]

\* One event of the chronological stream; a manual "transfer" moves nothing.
Apply(r, run) ==
    CASE r.dir = "buy"      -> Bought(run, r)
      [] r.dir = "sell"     -> Sold(run, r)
      [] r.dir = "transfer" -> run

\* The transactions that recalcAssetBalance reads for the holding <<p, t>>.
EventsOf(txs, k) ==
    {[id |-> i, row |-> txs[i]] :
        i \in {j \in DOMAIN txs : txs[j] # Null /\ txs[j].pf = k[1] /\ txs[j].tok = k[2]}}

\* The last event of a set: by timestamp, ties broken by id.
Latest(S) ==
    CHOOSE e \in S : \A f \in S : \/ f.row.ts < e.row.ts
                                  \/ f.row.ts = e.row.ts /\ f.id <= e.id

Totals(lot, events) ==
    LET rowOf(e) == e.row IN MapThenFoldSet(Apply, Seed(lot), rowOf, Latest, events)

\* The columns recalcAssetBalance writes.
Derive(lot, txs, k) ==
    LET run == Totals(lot, EventsOf(txs, k)) IN
    [balance |-> run.qty, netDeposit |-> run.net, realizedPnl |-> run.realized,
     avgCost |-> IF run.known > 0 THEN run.cost \div run.known ELSE Null,
     costBasis |-> run.cost]

\* The columns of a row that has just been inserted.
NewPosition == [balance |-> 0, netDeposit |-> 0, realizedPnl |-> 0,
                avgCost |-> Null, costBasis |-> 0]
=============================================================================
