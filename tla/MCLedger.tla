------------------------------ MODULE MCLedger ------------------------------
(* Instances of Ledger for TLC: the starting holdings and transactions.    *)
EXTENDS Ledger

CONSTANTS p1, p2, t1, t2

\* Both portfolios hold t1, or p1 holds both tokens.
OneToken     == {<<p1, t1>>, <<p2, t1>>}
OnePortfolio == {<<p1, t1>>, <<p1, t2>>}
\* The opening lots: one unit at a cost of 2, two units at 1 each.
OneUnit  == [qty |-> 1, cost |-> 2]
TwoUnits == [qty |-> 2, cost |-> 2]
\* p1 has bought one t1 for 3.
OnePurchase == <<Row(p1, t1, "buy", 1, 3, 1, Null)>>
NoPurchase  == <<>>

Symmetry == Permutations(Slots)
=============================================================================
