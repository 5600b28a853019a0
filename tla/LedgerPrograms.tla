--------------------------- MODULE LedgerPrograms ---------------------------
(* Lemmas about Position and about the programs of Ledger, for any portfolios, tokens, amounts and
   prices: what recalcAssetBalance computes, and the statements every request begins with. *)
EXTENDS Ledger, FiniteSetTheorems, SequenceTheorems, WellFoundedInduction, TLAPS

-----------------------------------------------------------------------------
(* Induction, with the claim as a set *)

LEMMA LeastNumber == ASSUME NEW S \in SUBSET Nat, S # {} PROVE \E m \in S : \A n \in S : m <= n
<1>1. \E m \in S : \A n \in S : ~(<<n, m>> \in OpToRel(<, Nat))  BY NatLessThanWellFounded, WFMin
<1>2. \A n, m \in S : ~(<<n, m>> \in OpToRel(<, Nat)) => m <= n  BY DEF OpToRel
<1> QED BY <1>1, <1>2

LEMMA NumberInduction ==
    ASSUME NEW N, 0 \in N, \A n \in Nat : n \in N => n + 1 \in N
    PROVE  \A n \in Nat : n \in N
<1> SUFFICES ASSUME Nat \ N # {} PROVE FALSE  OBVIOUS
<1>1. PICK m \in Nat \ N : \A n \in Nat \ N : m <= n  BY LeastNumber
<1>2. m - 1 \in Nat /\ m - 1 \in N  BY <1>1
<1> QED BY <1>1, <1>2

LEMMA SubsetInduction ==
    ASSUME NEW S, IsFiniteSet(S), NEW G,
           \A T \in SUBSET S : (\A x \in T : T \ {x} \in G) => T \in G
    PROVE  \A T \in SUBSET S : T \in G
<1> DEFINE Bad == {T \in SUBSET S : T \notin G}
           Sizes == {Cardinality(T) : T \in Bad}
<1> SUFFICES ASSUME Bad # {} PROVE FALSE  OBVIOUS
<1>1. \A T \in SUBSET S : IsFiniteSet(T) /\ Cardinality(T) \in Nat  BY FS_Subset, FS_CardinalityType
<1>2. PICK m \in Sizes : \A n \in Sizes : m <= n
    <2>1. Sizes \in SUBSET Nat /\ Sizes # {}  BY <1>1
    <2> QED BY <2>1, LeastNumber
<1>3. PICK T \in Bad : Cardinality(T) = m  BY <1>2
<1>4. ASSUME NEW x \in T PROVE T \ {x} \in G
    <2>1. Cardinality(T \ {x}) = m - 1 /\ m \in Nat  BY <1>1, <1>3, FS_RemoveElement
    <2>2. T \ {x} \notin Bad  BY <1>2, <2>1
    <2> QED BY <2>2
<1> QED BY <1>3, <1>4

-----------------------------------------------------------------------------
(* Folds *)

\* c takes an element of every nonempty subset of S; g is the fold of h in that order.
Picks(c, S) == DOMAIN c = SUBSET S /\ \A T \in SUBSET S : T # {} => c[T] \in T
IsFold(g, S, base, c, h) ==
    \A T \in SUBSET S : g[T] = IF T = {} THEN base ELSE h[<<c[T], g[T \ {c[T]}]>>]

\* A fold over a finite set that takes its elements in the order of c is a total function: there is
\* a function that satisfies the recursive equation of MapThenFoldSet.
LEMMA FoldIsDefined ==
    ASSUME NEW S, IsFiniteSet(S), NEW V, NEW base \in V,
           NEW c, Picks(c, S), NEW h \in [S \X V -> V]
    PROVE  \E g \in [SUBSET S -> V] : IsFold(g, S, base, c, h)
<1> DEFINE D(n) == {T \in SUBSET S : Cardinality(T) <= n}
           Step(g, T) == IF T = {} THEN base ELSE h[<<c[T], g[T \ {c[T]}]>>]
           N == {n \in Nat : \E g \in [D(n) -> V] : \A T \in D(n) : g[T] = Step(g, T)}
<1>0. \A T \in SUBSET S : T # {} => c[T] \in T  BY DEF Picks
<1>1. \A T \in SUBSET S : IsFiniteSet(T) /\ Cardinality(T) \in Nat  BY FS_Subset, FS_CardinalityType
<1>2. \A T \in SUBSET S : T # {} => Cardinality(T \ {c[T]}) = Cardinality(T) - 1
    BY <1>0, <1>1, FS_RemoveElement
<1>3. 0 \in N
    <2>1. \A T \in D(0) : T = {}  BY <1>1, FS_EmptySet
    <2>2. [T \in D(0) |-> base] \in [D(0) -> V]  OBVIOUS
    <2> QED BY <2>1, <2>2
<1>4. ASSUME NEW n \in Nat, n \in N PROVE n + 1 \in N
    <2>1. PICK g \in [D(n) -> V] : \A T \in D(n) : g[T] = Step(g, T)  BY <1>4
    <2> DEFINE f == [T \in D(n + 1) |-> Step(g, T)]
    <2>2. \A T \in D(n + 1) : T # {} => T \ {c[T]} \in D(n) /\ c[T] \in S  BY <1>0, <1>1, <1>2
    <2>3. \A T \in D(n + 1) : T # {} => g[T \ {c[T]}] \in V  BY <2>1, <2>2
    <2>4. f \in [D(n + 1) -> V]  BY <2>2, <2>3
    <2>5. D(n) \subseteq D(n + 1)  BY <1>1
    <2>6. \A T \in D(n) : f[T] = g[T]  BY <2>1, <2>5
    <2> HIDE DEF D
    <2>7. \A T \in D(n + 1) : f[T] = Step(f, T)  BY <2>2, <2>6
    <2> HIDE DEF f, Step
    <2>8. \E u \in [D(n + 1) -> V] : \A T \in D(n + 1) : u[T] = Step(u, T)  BY <2>4, <2>7
    <2> QED BY <2>8
<1>5. Cardinality(S) \in N
    <2> HIDE DEF N
    <2> QED BY <1>1, <1>3, <1>4, NumberInduction
<1>6. D(Cardinality(S)) = SUBSET S  BY <1>1, FS_Subset
<1>7. PICK g \in [SUBSET S -> V] : \A T \in SUBSET S : g[T] = Step(g, T)  BY <1>5, <1>6
<1> QED BY <1>7 DEF IsFold

-----------------------------------------------------------------------------
(* The position of a holding *)

Events == [id : Nat, row : TxRows]
Signed(r) == IF r.dir = "buy" THEN r.amount ELSE IF r.dir = "sell" THEN -r.amount ELSE 0

LEMMA SeedIsARun == ASSUME NEW lot \in LotSet PROVE Seed(lot) \in Runs /\ Seed(lot).qty = lot.qty
BY LedgerAssumption DEF LotSet, Seed, Runs

\* A quotient by a positive number is an integer.
LEMMA Quotient == ASSUME NEW a \in Int, NEW b \in Int, b > 0 PROVE a \div b \in Int
OBVIOUS

LEMMA BoughtIs ==
    ASSUME NEW run \in Runs, NEW r \in TxRows
    PROVE  Bought(run, r) \in Runs /\ Bought(run, r).qty = run.qty + r.amount
<1>1. r.amount \in Nat /\ r.usd \in Int  BY DEF TxRows
<1> QED BY <1>1 DEF Bought, Runs

LEMMA SoldIs ==
    ASSUME NEW run \in Runs, NEW r \in TxRows
    PROVE  Sold(run, r) \in Runs /\ Sold(run, r).qty = run.qty - r.amount
<1> DEFINE least == IF r.amount < run.known THEN r.amount ELSE run.known
           sold  == IF run.known > 0 THEN least ELSE 0
           paid  == IF run.known > 0 THEN (sold * run.cost) \div run.known ELSE 0
           got   == IF r.amount > 0 THEN (sold * r.usd) \div r.amount ELSE 0
<1>1. /\ r.amount \in Nat /\ r.usd \in Int /\ run.qty \in Int /\ run.known \in Int
      /\ run.cost \in Int /\ run.realized \in Int /\ run.net \in Int
    BY DEF TxRows, Runs
<1>2. sold \in Int  BY <1>1
<1>3. sold * run.cost \in Int /\ sold * r.usd \in Int  BY <1>1, <1>2
<1> HIDE DEF sold
<1>4. paid \in Int /\ got \in Int  BY <1>1, <1>3, Quotient
<1>5. Sold(run, r) = [qty |-> run.qty - r.amount, known |-> run.known - sold, cost |-> run.cost - paid,
                      realized |-> IF r.group = Null THEN run.realized + got - paid ELSE run.realized,
                      net |-> run.net - r.usd]
    BY DEF Sold, sold
<1> HIDE DEF paid, got
<1> QED BY <1>1, <1>2, <1>4, <1>5 DEF Runs

LEMMA ApplyIs ==
    ASSUME NEW run \in Runs, NEW r \in TxRows
    PROVE  Apply(r, run) \in Runs /\ Apply(r, run).qty = run.qty + Signed(r)
<1>1. r.dir \in Directions /\ r.amount \in Nat /\ run.qty \in Int  BY DEF TxRows, Runs
<1>2. CASE r.dir = "buy"
    <2>1. Apply(r, run) = Bought(run, r) /\ Signed(r) = r.amount  BY <1>2 DEF Apply, Signed
    <2> QED BY <2>1, BoughtIs
<1>3. CASE r.dir = "sell"
    <2>1. Apply(r, run) = Sold(run, r) /\ Signed(r) = -r.amount  BY <1>3 DEF Apply, Signed
    <2> QED BY <1>1, <2>1, SoldIs
<1>4. CASE r.dir = "transfer"
    <2>1. Apply(r, run) = run /\ Signed(r) = 0  BY <1>4 DEF Apply, Signed
    <2> QED BY <1>1, <2>1
<1> QED BY <1>1, <1>2, <1>3, <1>4 DEF Directions

\* The chronological order has a last event.
LEMMA LatestIs ==
    ASSUME NEW E \in SUBSET Events, IsFiniteSet(E), E # {}
    PROVE  Latest(E) \in E
<1> DEFINE Final(e, T) == \A f \in T : \/ f.row.ts < e.row.ts
                                       \/ f.row.ts = e.row.ts /\ f.id <= e.id
           G == {T \in SUBSET E : T # {} => \E e \in T : Final(e, T)}
<1>1. ASSUME NEW T \in SUBSET E, \A x \in T : T \ {x} \in G PROVE T \in G
    <2> SUFFICES ASSUME T # {} PROVE \E e \in T : Final(e, T)  OBVIOUS
    <2>1. \A f \in T : f.id \in Nat /\ f.row.ts \in Nat  BY DEF Events, TxRows
    <2>2. PICK x \in T : TRUE  OBVIOUS
    <2>3. CASE T \ {x} = {}  BY <2>1, <2>2, <2>3
    <2>4. CASE T \ {x} # {}
        <3>1. PICK e \in T \ {x} : Final(e, T \ {x})  BY <1>1, <2>2, <2>4
        <3>2. CASE x.row.ts < e.row.ts \/ (x.row.ts = e.row.ts /\ x.id <= e.id)
            <4>1. Final(e, T)  BY <3>1, <3>2
            <4> QED BY <4>1
        <3>3. CASE ~(x.row.ts < e.row.ts \/ (x.row.ts = e.row.ts /\ x.id <= e.id))
            <4>1. Final(x, T)  BY <2>1, <2>2, <3>1, <3>3
            <4> QED BY <4>1, <2>2
        <3> QED BY <3>2, <3>3
    <2> QED BY <2>3, <2>4
<1>2. E \in G
    <2> HIDE DEF G
    <2> QED BY <1>1, SubsetInduction
<1>3. \E e \in E : Final(e, E)  BY <1>2
<1> QED BY <1>3 DEF Latest

\* What recalcAssetBalance computes is well defined: the running totals after any of the events.
LEMMA TotalsAre ==
    ASSUME NEW lot \in LotSet, NEW E \in SUBSET Events, IsFiniteSet(E)
    PROVE  \E f \in [SUBSET E -> Runs] :
              /\ \A T \in SUBSET E : f[T] = IF T = {} THEN Seed(lot)
                                            ELSE Apply(Latest(T).row, f[T \ {Latest(T)}])
              /\ Totals(lot, E) = f[E]
<1> DEFINE Step(f, T) == IF T = {} THEN Seed(lot) ELSE Apply(Latest(T).row, f[T \ {Latest(T)}])
           f == CHOOSE g : g = [T \in SUBSET E |-> Step(g, T)]
           c == [T \in SUBSET E |-> Latest(T)]
           h == [z \in E \X Runs |-> Apply(z[1].row, z[2])]
<1>1. \A T \in SUBSET E : T # {} => Latest(T) \in T  BY LatestIs, FS_Subset
<1>2. \A e \in E : e.row \in TxRows  BY DEF Events
<1>3. Seed(lot) \in Runs  BY SeedIsARun
<1>4. \A x \in E, v \in Runs : h[<<x, v>>] = Apply(x.row, v) /\ h[<<x, v>>] \in Runs
    BY <1>2, ApplyIs
<1>5. \E g \in [SUBSET E -> Runs] : IsFold(g, E, Seed(lot), c, h)
    <2>1. Picks(c, E)  BY <1>1 DEF Picks
    <2>2. h \in [E \X Runs -> Runs]  BY <1>2, ApplyIs
    <2> HIDE DEF c, h, f, Step
    <2> QED BY <1>3, <2>1, <2>2, FoldIsDefined
<1>6. PICK g \in [SUBSET E -> Runs] :
         \A T \in SUBSET E : g[T] = IF T = {} THEN Seed(lot) ELSE h[<<c[T], g[T \ {c[T]}]>>]
    BY <1>5 DEF IsFold
<1>7. \A T \in SUBSET E : g[T] \in Runs  BY <1>6
<1>8. \A T \in SUBSET E : g[T] = Step(g, T)
    <2> SUFFICES ASSUME NEW T \in SUBSET E PROVE g[T] = Step(g, T)  OBVIOUS
    <2>1. CASE T = {}  BY <1>6, <2>1
    <2>2. CASE T # {}
        <3>1. c[T] = Latest(T) /\ Latest(T) \in E /\ T \ {Latest(T)} \in SUBSET E  BY <1>1, <2>2
        <3>2. g[T] = h[<<Latest(T), g[T \ {Latest(T)}]>>]  BY <1>6, <2>2, <3>1
        <3> HIDE DEF h, c
        <3> QED BY <1>4, <1>7, <2>2, <3>1, <3>2
    <2> QED BY <2>1, <2>2
<1>9. g = [T \in SUBSET E |-> Step(g, T)]
    <2>1. g = [T \in SUBSET E |-> g[T]]  BY <1>6
    <2> HIDE DEF Step
    <2> QED BY <1>8, <2>1
<1>10. f = [T \in SUBSET E |-> Step(f, T)]
    <2> HIDE DEF Step
    <2> QED BY <1>9, Zenon
<1>11. \A T \in SUBSET E : f[T] \in Runs
    <2> DEFINE G == {T \in SUBSET E : f[T] \in Runs}
    <2>1. ASSUME NEW T \in SUBSET E, \A x \in T : T \ {x} \in G PROVE T \in G
        <3>0. f[T] = Step(f, T)
            <4> HIDE DEF f, Step
            <4> QED BY <1>10
        <3> HIDE DEF f
        <3>1. CASE T = {}  BY <1>3, <3>0, <3>1
        <3>2. CASE T # {}
            <4>1. Latest(T) \in T /\ Latest(T).row \in TxRows  BY <1>1, <1>2, <3>2
            <4>2. f[T \ {Latest(T)}] \in Runs  BY <2>1, <4>1
            <4> QED BY <3>0, <3>2, <4>1, <4>2, ApplyIs
        <3> QED BY <3>1, <3>2
    <2> HIDE DEF G
    <2>2. \A T \in SUBSET E : T \in G  BY <2>1, SubsetInduction
    <2> QED BY <2>2 DEF G
<1>12. Totals(lot, E) = f[E]  BY DEF Totals, MapThenFoldSet
<1> HIDE DEF f, Step
<1>13. \A T \in SUBSET E : f[T] = Step(f, T)  BY <1>10
<1>14. f \in [SUBSET E -> Runs]  BY <1>10, <1>11
<1> QED BY <1>12, <1>13, <1>14 DEF Step

\* The totals as a recursion on the set of events: the last event comes last.
LEMMA TotalsStep ==
    ASSUME NEW lot \in LotSet, NEW E \in SUBSET Events, IsFiniteSet(E)
    PROVE  /\ \A T \in SUBSET E : Totals(lot, T) \in Runs
           /\ Totals(lot, {}) = Seed(lot)
           /\ \A T \in SUBSET E : T # {} => /\ Latest(T) \in T
                                            /\ Totals(lot, T) = Apply(Latest(T).row,
                                                                      Totals(lot, T \ {Latest(T)}))
<1> DEFINE Rec(f, S) == \A T \in SUBSET S : f[T] = IF T = {} THEN Seed(lot)
                                                   ELSE Apply(Latest(T).row, f[T \ {Latest(T)}])
<1>1. PICK f \in [SUBSET E -> Runs] : Rec(f, E) /\ Totals(lot, E) = f[E]  BY TotalsAre
<1>2. \A T \in SUBSET E : T # {} => Latest(T) \in T  BY LatestIs, FS_Subset
<1>3. ASSUME NEW S \in SUBSET E PROVE Totals(lot, S) = f[S]
    <2>1. IsFiniteSet(S) /\ S \in SUBSET Events  BY FS_Subset
    <2>2. PICK g \in [SUBSET S -> Runs] : Rec(g, S) /\ Totals(lot, S) = g[S]  BY <2>1, TotalsAre
    <2> DEFINE G == {T \in SUBSET S : g[T] = f[T]}
    <2>3. ASSUME NEW T \in SUBSET S, \A x \in T : T \ {x} \in G PROVE T \in G
        <3>1. CASE T = {}  BY <1>1, <2>2, <3>1
        <3>2. CASE T # {}
            <4>1. Latest(T) \in T  BY <1>2, <3>2
            <4>2. g[T \ {Latest(T)}] = f[T \ {Latest(T)}]  BY <2>3, <4>1
            <4>3. g[T] = Apply(Latest(T).row, g[T \ {Latest(T)}])  BY <2>2, <3>2
            <4>4. f[T] = Apply(Latest(T).row, f[T \ {Latest(T)}])  BY <1>1, <3>2
            <4> QED BY <4>2, <4>3, <4>4
        <3> QED BY <3>1, <3>2
    <2> HIDE DEF G, Rec
    <2>4. \A T \in SUBSET S : T \in G  BY <2>1, <2>3, SubsetInduction
    <2>5. g[S] = f[S]  BY <2>4 DEF G
    <2> QED BY <2>2, <2>5
<1>4. \A T \in SUBSET E : Totals(lot, T) \in Runs  BY <1>1, <1>3
<1>5. Totals(lot, {}) = Seed(lot)
    <2>1. {} \in SUBSET E  OBVIOUS
    <2> QED BY <1>1, <1>3, <2>1
<1>6. ASSUME NEW T \in SUBSET E, T # {}
      PROVE  Totals(lot, T) = Apply(Latest(T).row, Totals(lot, T \ {Latest(T)}))
    <2>1. T \ {Latest(T)} \in SUBSET E  OBVIOUS
    <2>2. Totals(lot, T \ {Latest(T)}) = f[T \ {Latest(T)}] /\ Totals(lot, T) = f[T]  BY <1>3, <2>1
    <2>3. f[T] = Apply(Latest(T).row, f[T \ {Latest(T)}])  BY <1>1, <1>6
    <2> QED BY <2>2, <2>3
<1> HIDE DEF Rec
<1> QED BY <1>2, <1>4, <1>5, <1>6

\* The quantity of a holding is independent of the order of its events: each adds its signed amount.
LEMMA QuantityAdds ==
    ASSUME NEW lot \in LotSet, NEW E \in SUBSET Events, IsFiniteSet(E), NEW e \in E
    PROVE  Totals(lot, E).qty = Totals(lot, E \ {e}).qty + Signed(e.row)
<1> DEFINE Q(T) == Totals(lot, T).qty
           G == {T \in SUBSET E : \A x \in T : Q(T) = Q(T \ {x}) + Signed(x.row)}
<1>1. \A T \in SUBSET E : Q(T) \in Int  BY TotalsStep DEF Runs
<1>2. \A x \in E : x.row \in TxRows /\ Signed(x.row) \in Int  BY DEF Events, TxRows, Signed
<1>3. \A T \in SUBSET E : T # {} => Latest(T) \in T /\ Q(T) = Q(T \ {Latest(T)}) + Signed(Latest(T).row)
    <2> SUFFICES ASSUME NEW T \in SUBSET E, T # {}
                 PROVE  Latest(T) \in T /\ Q(T) = Q(T \ {Latest(T)}) + Signed(Latest(T).row)
        OBVIOUS
    <2>1. /\ Latest(T) \in T
          /\ Totals(lot, T) = Apply(Latest(T).row, Totals(lot, T \ {Latest(T)}))
          /\ T \ {Latest(T)} \in SUBSET E
        BY TotalsStep
    <2>2. Totals(lot, T \ {Latest(T)}) \in Runs  BY <2>1, TotalsStep
    <2>3. Latest(T).row \in TxRows  BY <1>2, <2>1
    <2> QED BY <2>1, <2>2, <2>3, ApplyIs
<1> HIDE DEF Q
<1>4. ASSUME NEW T \in SUBSET E, \A x \in T : T \ {x} \in G PROVE T \in G
    <2> SUFFICES ASSUME NEW x \in T PROVE Q(T) = Q(T \ {x}) + Signed(x.row)  OBVIOUS
    <2>1. PICK l : l = Latest(T)  OBVIOUS
    <2>2. l \in T /\ Q(T) = Q(T \ {l}) + Signed(l.row)  BY <1>3, <2>1
    <2>3. CASE x = l  BY <2>2, <2>3
    <2>4. CASE x # l
        <3>1. Q(T \ {l}) = Q((T \ {l}) \ {x}) + Signed(x.row)  BY <1>4, <2>2, <2>4
        <3>2. Q(T \ {x}) = Q((T \ {x}) \ {l}) + Signed(l.row)  BY <1>4, <2>2, <2>4
        <3>3. PICK U \in SUBSET E : U = (T \ {l}) \ {x}  OBVIOUS
        <3>4. U = (T \ {x}) \ {l}  BY <3>3
        <3>5. Q(T \ {l}) = Q(U) + Signed(x.row)  BY <3>1, <3>3
        <3>6. Q(T \ {x}) = Q(U) + Signed(l.row)  BY <3>2, <3>4
        <3>7. Q(U) \in Int /\ Signed(x.row) \in Int /\ Signed(l.row) \in Int  BY <1>1, <1>2, <2>2
        <3> QED BY <2>2, <3>5, <3>6, <3>7
    <2> QED BY <2>3, <2>4
<1>5. \A T \in SUBSET E : T \in G
    <2> HIDE DEF G
    <2> QED BY <1>4, SubsetInduction
<1>6. E \in G  BY <1>5
<1> QED BY <1>6 DEF Q

\* Every transaction of the table has at most one event.
LEMMA EventsAre ==
    ASSUME NEW tab \in [Ids -> TxRows \cup {Null}], NEW k
    PROVE  EventsOf(tab, k) \in SUBSET Events /\ IsFiniteSet(EventsOf(tab, k))
<1> DEFINE I == {j \in Ids : tab[j] # Null /\ tab[j].pf = k[1] /\ tab[j].tok = k[2]}
           f == [i \in I |-> [id |-> i, row |-> tab[i]]]
<1>1. IsFiniteSet(I)
    <2>1. IsFiniteSet(Ids)  BY LedgerAssumption, FS_Interval DEF Ids
    <2> QED BY <2>1, FS_Subset
<1>2. EventsOf(tab, k) = {[id |-> i, row |-> tab[i]] : i \in I}  BY DEF EventsOf
<1>3. f \in Surjection(I, EventsOf(tab, k))  BY <1>2 DEF Surjection
<1>4. IsFiniteSet(EventsOf(tab, k))
    <2> HIDE DEF f, I
    <2> QED BY <1>1, <1>3, FS_Surjection
<1>5. \A i \in I : i \in Nat /\ tab[i] \in TxRows  BY DEF Ids
<1>6. EventsOf(tab, k) \in SUBSET Events  BY <1>2, <1>5 DEF Events
<1> QED BY <1>4, <1>6

\* recalcAssetBalance writes numbers.
LEMMA DeriveType ==
    ASSUME NEW lot \in LotSet, NEW tab \in [Ids -> TxRows \cup {Null}], NEW k
    PROVE  /\ Derive(lot, tab, k) \in Positions
           /\ Derive(lot, tab, k).balance = Totals(lot, EventsOf(tab, k)).qty
<1>1. PICK run : run = Totals(lot, EventsOf(tab, k))  OBVIOUS
<1>2. run \in Runs  BY <1>1, EventsAre, TotalsStep
<1>3. run.known > 0 => run.cost \div run.known \in Int  BY <1>2, Quotient DEF Runs
<1>4. Derive(lot, tab, k) = [balance |-> run.qty, netDeposit |-> run.net, realizedPnl |-> run.realized,
                             avgCost |-> IF run.known > 0 THEN run.cost \div run.known ELSE Null,
                             costBasis |-> run.cost]
    BY <1>1 DEF Derive
<1> QED BY <1>1, <1>2, <1>3, <1>4 DEF Runs, Positions

-----------------------------------------------------------------------------
(* The net deposit of a portfolio *)

\* A sum over a finite set of integers is an integer.
LEMMA SumType ==
    ASSUME NEW E, IsFiniteSet(E), NEW fun \in [E -> Int]
    PROVE  SumFunctionOnSet(fun, E) \in Int
<1> DEFINE Pick(T) == CHOOSE x \in T : TRUE
           Step(f, T) == IF T = {} THEN 0 ELSE fun[Pick(T)] + f[T \ {Pick(T)}]
           f == CHOOSE g : g = [T \in SUBSET E |-> Step(g, T)]
           c == [T \in SUBSET E |-> Pick(T)]
           h == [z \in E \X Int |-> fun[z[1]] + z[2]]
<1>1. \A T \in SUBSET E : T # {} => Pick(T) \in T  OBVIOUS
<1>2. SumFunctionOnSet(fun, E) = f[E]  BY DEF SumFunctionOnSet, FoldFunctionOnSet, MapThenFoldSet
<1>3. \A x \in E, v \in Int : h[<<x, v>>] = fun[x] + v  OBVIOUS
<1>4. \E g \in [SUBSET E -> Int] : IsFold(g, E, 0, c, h)
    <2>1. Picks(c, E)  BY <1>1 DEF Picks
    <2>2. h \in [E \X Int -> Int]  OBVIOUS
    <2>3. 0 \in Int  OBVIOUS
    <2> HIDE DEF c, h, f, Step
    <2> QED BY <2>1, <2>2, <2>3, FoldIsDefined, Zenon
<1>5. PICK g \in [SUBSET E -> Int] :
         \A T \in SUBSET E : g[T] = IF T = {} THEN 0 ELSE h[<<c[T], g[T \ {c[T]}]>>]
    BY <1>4 DEF IsFold
<1>6. \A T \in SUBSET E : g[T] = Step(g, T)
    <2> SUFFICES ASSUME NEW T \in SUBSET E PROVE g[T] = Step(g, T)  OBVIOUS
    <2>1. CASE T = {}  BY <1>5, <2>1
    <2>2. CASE T # {}
        <3>1. PICK x \in T : x = Pick(T)  BY <1>1, <2>2
        <3>2. c[T] = x /\ T \ {x} \in SUBSET E  BY <3>1
        <3> HIDE DEF h, c, Pick
        <3>3. g[T] = h[<<x, g[T \ {x}]>>]  BY <1>5, <2>2, <3>2
        <3>4. g[T \ {x}] \in Int  BY <1>5, <3>2
        <3>5. g[T] = fun[x] + g[T \ {x}]  BY <1>3, <3>3, <3>4
        <3> QED BY <2>2, <3>1, <3>5
    <2> QED BY <2>1, <2>2
<1>7. g = [T \in SUBSET E |-> Step(g, T)]
    <2>1. g = [T \in SUBSET E |-> g[T]]  BY <1>5
    <2> HIDE DEF Step
    <2> QED BY <1>6, <2>1
<1>8. f = [T \in SUBSET E |-> Step(f, T)]
    <2> HIDE DEF Step
    <2> QED BY <1>7, Zenon
<1>9. \A T \in SUBSET E : f[T] \in Int
    <2> DEFINE G == {T \in SUBSET E : f[T] \in Int}
    <2>1. ASSUME NEW T \in SUBSET E, \A x \in T : T \ {x} \in G PROVE T \in G
        <3>0. f[T] = Step(f, T)
            <4> HIDE DEF f, Step
            <4> QED BY <1>8
        <3> HIDE DEF f
        <3>1. CASE T = {}  BY <3>0, <3>1
        <3>2. CASE T # {}
            <4>1. Pick(T) \in T  BY <1>1, <3>2
            <4>2. f[T \ {Pick(T)}] \in Int  BY <2>1, <4>1
            <4> HIDE DEF Pick
            <4> QED BY <3>0, <3>2, <4>1, <4>2
        <3> QED BY <3>1, <3>2
    <2> HIDE DEF G
    <2>2. \A T \in SUBSET E : T \in G  BY <2>1, SubsetInduction
    <2> QED BY <2>2 DEF G
<1> HIDE DEF f
<1>10. E \in SUBSET E  OBVIOUS
<1> QED BY <1>2, <1>9, <1>10

LEMMA SumNetType ==
    ASSUME NEW rows \in [Keys -> AssetRows \cup {Null}], NEW p \in Portfolios
    PROVE  SumNet(rows, p) \in Int
<1> DEFINE held == {t \in Tokens : rows[<<p, t>>] # Null}
           fun == [t \in held |-> rows[<<p, t>>].pos.netDeposit]
<1>1. IsFiniteSet(held)  BY LedgerAssumption, FS_Subset
<1>2. \A t \in held : rows[<<p, t>>] \in AssetRows  BY DEF Keys
<1>3. fun \in [held -> Int]  BY <1>2 DEF AssetRows, Positions
<1>4. SumNet(rows, p) = SumFunctionOnSet(fun, held)  BY DEF SumNet
<1> HIDE DEF held, fun
<1> QED BY <1>1, <1>3, <1>4, SumType

\* The sum depends on the rows of its portfolio alone.
LEMMA SumNetSame ==
    ASSUME NEW rows, NEW more, NEW p, \A t \in Tokens : rows[<<p, t>>] = more[<<p, t>>]
    PROVE  SumNet(rows, p) = SumNet(more, p)
<1>1. {t \in Tokens : rows[<<p, t>>] # Null} = {t \in Tokens : more[<<p, t>>] # Null}  OBVIOUS
<1>2. PICK held : held = {t \in Tokens : rows[<<p, t>>] # Null}  OBVIOUS
<1>3. [t \in held |-> rows[<<p, t>>].pos.netDeposit] = [t \in held |-> more[<<p, t>>].pos.netDeposit]
    BY <1>2
<1>4. SumNet(rows, p) = SumFunctionOnSet([t \in held |-> rows[<<p, t>>].pos.netDeposit], held)
    BY <1>2 DEF SumNet
<1>5. SumNet(more, p) = SumFunctionOnSet([t \in held |-> more[<<p, t>>].pos.netDeposit], held)
    BY <1>1, <1>2 DEF SumNet
<1> QED BY <1>3, <1>4, <1>5

-----------------------------------------------------------------------------
(* The statements of a request *)

Changes == [tok : Tokens \cup {Same}, dir : Directions \cup {Same}, amount : Nat \cup {Same},
            usd : Int \cup {Same}, ts : Nat \cup {Same}]

Statements ==
         [op : {"lock", "ensureAsset", "recalc"}, k : Keys]
    \cup [op : {"check"}, k : Keys, amount : Nat]
    \cup [op : {"createAsset"}, k : Keys, lot : LotSet]
    \cup [op : {"updateLot"}, k : Keys, id : Nat, lot : LotSet]
    \cup [op : {"updateNet"}, k : Keys, id : Nat, v : Int]
    \cup [op : {"deleteAsset"}, k : Keys, id : Nat]
    \cup [op : {"insertTx"}, r : TxRows]
    \cup [op : {"updateTx"}, i : Ids, ch : Changes]
    \cup [op : {"deleteTx"}, i : Ids]
    \cup [op : {"carry"}, k : Keys, d : Portfolios, amount : Nat \ {0}, ts : Nat]
    \cup [op : {"updatePos"}, k : Keys, pos : Positions]
    \cup [op : {"sum"}, p : Portfolios]

AssetOps == {"lock", "ensureAsset", "recalc", "check", "createAsset", "updateLot", "updateNet",
             "deleteAsset", "carry", "updatePos"}

LEMMA StatementIs ==
    ASSUME NEW st \in Statements
    PROVE  /\ st.op \in AssetOps \cup {"insertTx", "updateTx", "deleteTx", "sum"}
           /\ st.op \in AssetOps => st.k \in Keys
           /\ st.op = "check" => st.amount \in Nat
           /\ st.op \in {"createAsset", "updateLot"} => st.lot \in LotSet
           /\ st.op = "updateNet" => st.v \in Int
           /\ st.op = "insertTx" => st.r \in TxRows
           /\ st.op \in {"updateTx", "deleteTx"} => st.i \in Ids
           /\ st.op = "updateTx" => st.ch \in Changes
           /\ st.op = "carry" => st.d \in Portfolios /\ st.amount \in Nat \ {0} /\ st.ts \in Nat
           /\ st.op = "updatePos" => st.pos \in Positions
           /\ st.op = "sum" => st.p \in Portfolios
BY DEF Statements, AssetOps

LEMMA StatementsAre ==
    ASSUME NEW k \in Keys, NEW lot \in LotSet
    PROVE  /\ LockAsset(k) \in Statements /\ Recalc(k) \in Statements /\ EnsureAsset(k) \in Statements
           /\ SumPortfolio(k[1]) \in Statements
           /\ CreateAsset(k, lot) \in Statements
           /\ \A a \in Nat : CheckBalance(k, a) \in Statements
           /\ \A id \in Nat : UpdateLot(k, id, lot) \in Statements /\ DeleteAsset(k, id) \in Statements
           /\ \A id \in Nat, v \in Int : UpdateNet(k, id, v) \in Statements
           /\ \A pos \in Positions : UpdatePos(k, pos) \in Statements
           /\ \A d \in Portfolios, a \in Nat \ {0}, ts \in Nat : Carry(k, d, a, ts) \in Statements
<1>1. k[1] \in Portfolios  BY DEF Keys
<1> QED BY <1>1 DEF Statements, LockAsset, Recalc, EnsureAsset, SumPortfolio, CreateAsset, CheckBalance,
                    UpdateLot, DeleteAsset, UpdateNet, UpdatePos, Carry

LEMMA TxStatementsAre ==
    /\ \A r \in TxRows : InsertTx(r) \in Statements
    /\ \A i \in Ids : DeleteTx(i) \in Statements
    /\ \A i \in Ids, ch \in Changes : UpdateTx(i, ch) \in Statements
    /\ \A p \in Portfolios : SumPortfolio(p) \in Statements
BY DEF Statements, InsertTx, DeleteTx, UpdateTx, SumPortfolio

\* The keys a statement's row or holding belongs to.
LEMMA KeysAre ==
    /\ \A r \in TxRows : KeyOf(r) \in Keys /\ KeyOf(r)[1] = r.pf /\ KeyOf(r)[2] = r.tok
    /\ \A k \in Keys : k[1] \in Portfolios /\ k[2] \in Tokens /\ k = <<k[1], k[2]>>
    /\ \A p \in Portfolios, t \in Tokens : <<p, t>> \in Keys
BY DEF Keys, KeyOf, TxRows

-----------------------------------------------------------------------------
(* Programs: a statement and what follows it *)

\* A sum of p or a recalculation of k after position n, a creation of k before it.
HasSum(q, n, p)    == \E m \in 1 .. Len(q) : m > n /\ q[m].op = "sum" /\ q[m].p = p
HasRecalc(q, n, k) == \E m \in 1 .. Len(q) : m > n /\ q[m].op = "recalc" /\ q[m].k = k
HasMaker(q, n, k)  == \E m \in 1 .. Len(q) : /\ m < n /\ q[m].op \in {"createAsset", "ensureAsset"}
                                             /\ q[m].k = k

AssetWriters == {"createAsset", "ensureAsset", "updateLot", "deleteAsset", "recalc", "updatePos"}

\* What holds of a statement in a program at every moment: what it writes is recalculated and summed
\* after it, a recalculation follows its lock, a transfer reads before it writes.
GoodAt(q, n) ==
    /\ q[n].op \in AssetWriters => HasSum(q, n, q[n].k[1])
    /\ q[n].op \in {"createAsset", "ensureAsset", "updateLot"} => HasRecalc(q, n, q[n].k)
    /\ q[n].op = "insertTx" => HasRecalc(q, n, KeyOf(q[n].r))
    /\ q[n].op = "recalc" /\ n > 1 => q[n - 1].op = "lock" /\ q[n - 1].k = q[n].k
    /\ q[n].op = "updatePos" => n = 1
    /\ q[n].op = "carry" => n = Len(q) /\ \A m \in 1 .. Len(q) : q[m].op \in {"lock", "carry"}
    /\ q[n].op = "carry" => q[n].d # q[n].k[1]
    /\ q[n].op = "updateNet" => "net" \in Kinds
    /\ q[n].op = "deleteAsset" => "remove" \in Kinds
    /\ q[n].op = "updateTx" /\ q[n].ch.tok # Same => "retoken" \in Kinds
Good(q) == \A n \in 1 .. Len(q) : GoodAt(q, n)

LEMMA TailIs ==
    ASSUME NEW q \in Seq(Statements), q # <<>>
    PROVE  /\ Tail(q) \in Seq(Statements) /\ Len(Tail(q)) = Len(q) - 1 /\ Len(q) \in Nat \ {0}
           /\ \A n \in 1 .. Len(q) - 1 : Tail(q)[n] = q[n + 1]
           /\ Head(q) = q[1] /\ 1 \in 1 .. Len(q) /\ q[1] \in Statements
BY HeadTailProperties, LenProperties, EmptySeq

LEMMA InsteadIs ==
    ASSUME NEW q \in Seq(Statements), q # <<>>, NEW st \in Statements
    PROVE  /\ [q EXCEPT ![1] = st] \in Seq(Statements)
           /\ Len([q EXCEPT ![1] = st]) = Len(q) /\ Len(q) \in Nat \ {0}
           /\ [q EXCEPT ![1] = st][1] = st
           /\ \A n \in 2 .. Len(q) : [q EXCEPT ![1] = st][n] = q[n]
           /\ Head(q) = q[1] /\ q[1] \in Statements
<1>1. Len(q) \in Nat \ {0} /\ 1 \in 1 .. Len(q)  BY EmptySeq
<1> QED BY <1>1, ExceptSeq, LenProperties

LEMMA TailHas ==
    ASSUME NEW q \in Seq(Statements), q # <<>>, NEW n \in Nat, NEW p, NEW k
    PROVE  /\ HasSum(q, n + 1, p) => HasSum(Tail(q), n, p)
           /\ HasSum(Tail(q), n, p) => HasSum(q, n + 1, p)
           /\ HasRecalc(q, n + 1, k) => HasRecalc(Tail(q), n, k)
           /\ HasRecalc(Tail(q), n, k) => HasRecalc(q, n + 1, k)
           /\ HasMaker(q, n + 1, k) => HasMaker(Tail(q), n, k)
                                       \/ (q[1].op \in {"createAsset", "ensureAsset"} /\ q[1].k = k)
<1>1. PICK T : T = Tail(q)  OBVIOUS
<1>2. Len(T) = Len(q) - 1 /\ Len(q) \in Nat \ {0} /\ \A j \in 1 .. Len(q) - 1 : T[j] = q[j + 1]
    BY <1>1, TailIs
<1>3. \A m \in 1 .. Len(q) : m > 1 => m - 1 \in 1 .. Len(T) /\ T[m - 1] = q[m]  BY <1>2
<1>4. \A m \in 1 .. Len(T) : m + 1 \in 1 .. Len(q) /\ T[m] = q[m + 1]  BY <1>2
<1>5. ASSUME HasSum(q, n + 1, p) PROVE HasSum(T, n, p)
    <2>1. PICK m \in 1 .. Len(q) : m > n + 1 /\ q[m].op = "sum" /\ q[m].p = p  BY <1>5 DEF HasSum
    <2>2. m - 1 \in 1 .. Len(T) /\ m - 1 > n /\ T[m - 1] = q[m]  BY <1>3, <2>1
    <2> QED BY <2>1, <2>2 DEF HasSum
<1>6. ASSUME HasSum(T, n, p) PROVE HasSum(q, n + 1, p)
    <2>1. PICK m \in 1 .. Len(T) : m > n /\ T[m].op = "sum" /\ T[m].p = p  BY <1>6 DEF HasSum
    <2>2. m + 1 \in 1 .. Len(q) /\ m + 1 > n + 1 /\ T[m] = q[m + 1]  BY <1>2, <1>4, <2>1
    <2> QED BY <2>1, <2>2 DEF HasSum
<1>7. HasRecalc(q, n + 1, k) => HasRecalc(T, n, k)  BY <1>2, <1>3 DEF HasRecalc
<1>8. HasRecalc(T, n, k) => HasRecalc(q, n + 1, k)  BY <1>2, <1>4 DEF HasRecalc
<1>9. ASSUME HasMaker(q, n + 1, k), ~(q[1].op \in {"createAsset", "ensureAsset"} /\ q[1].k = k)
      PROVE  HasMaker(T, n, k)
    <2>1. PICK m \in 1 .. Len(q) : m < n + 1 /\ q[m].op \in {"createAsset", "ensureAsset"} /\ q[m].k = k
        BY <1>9 DEF HasMaker
    <2>2. m > 1  BY <1>9, <2>1
    <2>3. m - 1 \in 1 .. Len(T) /\ m - 1 < n /\ T[m - 1] = q[m]  BY <1>3, <2>1, <2>2
    <2> QED BY <2>1, <2>3 DEF HasMaker
<1> QED BY <1>1, <1>5, <1>6, <1>7, <1>8, <1>9

LEMMA TailGood ==
    ASSUME NEW q \in Seq(Statements), q # <<>>, Good(q)
    PROVE  Good(Tail(q))
<1>1. PICK T : T = Tail(q)  OBVIOUS
<1>2. Len(T) = Len(q) - 1 /\ Len(q) \in Nat \ {0} /\ \A j \in 1 .. Len(q) - 1 : T[j] = q[j + 1]
    BY <1>1, TailIs
<1> SUFFICES ASSUME NEW n \in 1 .. Len(T) PROVE GoodAt(T, n)  BY <1>1 DEF Good
<1>3. n + 1 \in 1 .. Len(q) /\ T[n] = q[n + 1] /\ n \in Nat  BY <1>2
<1>4. GoodAt(q, n + 1)  BY <1>3 DEF Good
<1>5. \A p, k : /\ HasSum(q, n + 1, p) => HasSum(T, n, p)
                /\ HasRecalc(q, n + 1, k) => HasRecalc(T, n, k)
    BY <1>1, <1>3, TailHas
<1>6. T[n].op \in AssetWriters => HasSum(T, n, T[n].k[1])  BY <1>3, <1>4, <1>5 DEF GoodAt
<1>7. T[n].op \in {"createAsset", "ensureAsset", "updateLot"} => HasRecalc(T, n, T[n].k)
    BY <1>3, <1>4, <1>5 DEF GoodAt
<1>8. T[n].op = "insertTx" => HasRecalc(T, n, KeyOf(T[n].r))  BY <1>3, <1>4, <1>5 DEF GoodAt
<1>9. T[n].op = "recalc" /\ n > 1 => T[n - 1].op = "lock" /\ T[n - 1].k = T[n].k
    <2> SUFFICES ASSUME T[n].op = "recalc", n > 1 PROVE T[n - 1].op = "lock" /\ T[n - 1].k = T[n].k
        OBVIOUS
    <2>1. T[n - 1] = q[n] /\ (n + 1) - 1 = n /\ n + 1 > 1  BY <1>2, <1>3
    <2> QED BY <1>3, <1>4, <2>1 DEF GoodAt
<1>10. T[n].op # "updatePos"  BY <1>3, <1>4 DEF GoodAt
<1>11. T[n].op = "carry" => n = Len(T) /\ \A m \in 1 .. Len(T) : T[m].op \in {"lock", "carry"}
    BY <1>2, <1>3, <1>4 DEF GoodAt
<1>12. /\ T[n].op = "updateNet" => "net" \in Kinds
       /\ T[n].op = "deleteAsset" => "remove" \in Kinds
       /\ T[n].op = "updateTx" /\ T[n].ch.tok # Same => "retoken" \in Kinds
       /\ T[n].op = "carry" => T[n].d # T[n].k[1]
    BY <1>3, <1>4 DEF GoodAt
<1> QED BY <1>6, <1>7, <1>8, <1>9, <1>10, <1>11, <1>12 DEF GoodAt

LEMMA InsteadHas ==
    ASSUME NEW q \in Seq(Statements), q # <<>>, NEW st \in Statements, NEW n \in 1 .. Len(q), NEW p, NEW k
    PROVE  LET qq == [q EXCEPT ![1] = st] IN
           /\ HasSum(q, n, p) <=> HasSum(qq, n, p)
           /\ HasRecalc(q, n, k) <=> HasRecalc(qq, n, k)
           /\ HasMaker(q, n, k) /\ q[1].op \notin {"createAsset", "ensureAsset"} => HasMaker(qq, n, k)
           /\ HasMaker(q, n, k) /\ st.op = "createAsset" /\ st.k = q[1].k => HasMaker(qq, n, k)
<1>1. PICK qq : qq = [q EXCEPT ![1] = st]  OBVIOUS
<1>2. Len(qq) = Len(q) /\ Len(q) \in Nat \ {0} /\ qq[1] = st /\ \A j \in 2 .. Len(q) : qq[j] = q[j]
    BY <1>1, InsteadIs
<1>3. \A m \in 1 .. Len(q) : m > n => qq[m] = q[m]  BY <1>2
<1>4. HasSum(q, n, p) <=> HasSum(qq, n, p)  BY <1>2, <1>3 DEF HasSum
<1>5. HasRecalc(q, n, k) <=> HasRecalc(qq, n, k)  BY <1>2, <1>3 DEF HasRecalc
<1>6. ASSUME HasMaker(q, n, k), \/ q[1].op \notin {"createAsset", "ensureAsset"}
                                \/ st.op = "createAsset" /\ st.k = q[1].k
      PROVE  HasMaker(qq, n, k)
    <2>1. PICK m \in 1 .. Len(q) : m < n /\ q[m].op \in {"createAsset", "ensureAsset"} /\ q[m].k = k
        BY <1>6 DEF HasMaker
    <2>2. CASE m = 1  BY <1>2, <1>6, <2>1, <2>2 DEF HasMaker
    <2>3. CASE m # 1
        <3>1. qq[m] = q[m]  BY <1>2, <2>1, <2>3
        <3> QED BY <1>2, <2>1, <3>1 DEF HasMaker
    <2> QED BY <2>2, <2>3
<1> QED BY <1>1, <1>4, <1>5, <1>6

\* A statement replaced by what it leads to: ensureAsset by createAsset, recalc by updatePos.
LEMMA InsteadGood ==
    ASSUME NEW q \in Seq(Statements), q # <<>>, Good(q), NEW st \in Statements,
           \/ q[1].op = "ensureAsset" /\ st.op = "createAsset" /\ st.k = q[1].k
           \/ q[1].op = "recalc" /\ st.op = "updatePos" /\ st.k = q[1].k
    PROVE  Good([q EXCEPT ![1] = st])
<1>1. PICK qq : qq = [q EXCEPT ![1] = st]  OBVIOUS
<1>2. Len(qq) = Len(q) /\ Len(q) \in Nat \ {0} /\ qq[1] = st /\ \A j \in 2 .. Len(q) : qq[j] = q[j]
    BY <1>1, InsteadIs
<1> SUFFICES ASSUME NEW n \in 1 .. Len(q) PROVE GoodAt(qq, n)  BY <1>1, <1>2 DEF Good
<1>3. GoodAt(q, n)  BY DEF Good
<1>4. \A p, k : /\ HasSum(q, n, p) => HasSum(qq, n, p)
                /\ HasRecalc(q, n, k) => HasRecalc(qq, n, k)
    BY <1>1, InsteadHas
<1>5. CASE n = 1
    <2>1. qq[n] = st /\ GoodAt(q, 1)  BY <1>2, <1>3, <1>5
    <2>2. CASE q[1].op = "ensureAsset" /\ st.op = "createAsset" /\ st.k = q[1].k
        <3>1. HasSum(q, 1, st.k[1]) /\ HasRecalc(q, 1, st.k)  BY <2>1, <2>2 DEF GoodAt, AssetWriters
        <3> QED BY <1>4, <1>5, <2>1, <2>2, <3>1 DEF GoodAt, AssetWriters
    <2>3. CASE q[1].op = "recalc" /\ st.op = "updatePos" /\ st.k = q[1].k
        <3>1. HasSum(q, 1, st.k[1])  BY <2>1, <2>3 DEF GoodAt, AssetWriters
        <3> QED BY <1>4, <1>5, <2>1, <2>3, <3>1 DEF GoodAt, AssetWriters
    <2> QED BY <2>2, <2>3
<1>6. CASE n # 1
    <2>1. qq[n] = q[n]  BY <1>2, <1>6
    <2>2. qq[n].op = "recalc" => qq[n - 1].op = "lock" /\ qq[n - 1].k = qq[n].k
        <3> SUFFICES ASSUME q[n].op = "recalc" PROVE qq[n - 1].op = "lock" /\ qq[n - 1].k = qq[n].k
            BY <2>1
        <3>1. q[n - 1].op = "lock" /\ q[n - 1].k = q[n].k  BY <1>3, <1>6 DEF GoodAt
        <3>2. n - 1 # 1  BY <3>1, <1>2
        <3>3. qq[n - 1] = q[n - 1]  BY <1>2, <1>6, <3>2
        <3> QED BY <2>1, <3>1, <3>3
    <2>3. qq[n].op # "updatePos"  BY <1>3, <1>6, <2>1 DEF GoodAt
    <2>4. qq[n].op # "carry"
        <3> SUFFICES ASSUME q[n].op = "carry" PROVE FALSE  BY <2>1
        <3>1. 1 \in 1 .. Len(q)  BY <1>2
        <3> QED BY <1>3, <3>1 DEF GoodAt
    <2> QED BY <1>3, <1>4, <2>1, <2>2, <2>3, <2>4 DEF GoodAt
<1> QED BY <1>5, <1>6

\* The shape of the programs: the writes, the recalculations of holdings, the sums of portfolios.
Plan(A, ks, ps) == (A \o RecalcAll(ks)) \o [j \in 1 .. Len(ps) |-> SumPortfolio(ps[j])]

LEMMA RecalcAllIs ==
    ASSUME NEW ks \in Seq(Keys)
    PROVE  /\ RecalcAll(ks) \in Seq(Statements) /\ Len(RecalcAll(ks)) = 2 * Len(ks)
           /\ \A j \in 1 .. Len(ks) : /\ RecalcAll(ks)[2 * j - 1] = LockAsset(ks[j])
                                      /\ RecalcAll(ks)[2 * j] = Recalc(ks[j])
           /\ \A n \in 1 .. 2 * Len(ks) : \E j \in 1 .. Len(ks) : n = 2 * j - 1 \/ n = 2 * j
<1> DEFINE e(n) == LET k == ks[(n + 1) \div 2] IN IF n % 2 = 1 THEN LockAsset(k) ELSE Recalc(k)
<1>1. Len(ks) \in Nat /\ \A j \in 1 .. Len(ks) : ks[j] \in Keys  BY LenProperties, ElementOfSeq
<1>2. \A n \in 1 .. 2 * Len(ks) : (n + 1) \div 2 \in 1 .. Len(ks)  BY <1>1
<1>3. \A n \in 1 .. 2 * Len(ks) : e(n) \in Statements
    <2> SUFFICES ASSUME NEW n \in 1 .. 2 * Len(ks) PROVE e(n) \in Statements  OBVIOUS
    <2>1. PICK k \in Keys : k = ks[(n + 1) \div 2]  BY <1>1, <1>2
    <2>2. LockAsset(k) \in Statements /\ Recalc(k) \in Statements  BY DEF LockAsset, Recalc, Statements
    <2> QED BY <2>1, <2>2
<1>4. RecalcAll(ks) = [n \in 1 .. 2 * Len(ks) |-> e(n)]  BY DEF RecalcAll
<1>5. 2 * Len(ks) \in Nat  BY <1>1
<1>6. RecalcAll(ks) \in [1 .. 2 * Len(ks) -> Statements]
    <2> HIDE DEF e
    <2> QED BY <1>3, <1>4
<1>7. RecalcAll(ks) \in Seq(Statements) /\ Len(RecalcAll(ks)) = 2 * Len(ks)
    BY <1>5, <1>6
<1>8. ASSUME NEW j \in 1 .. Len(ks)
      PROVE  RecalcAll(ks)[2 * j - 1] = LockAsset(ks[j]) /\ RecalcAll(ks)[2 * j] = Recalc(ks[j])
    <2>1. /\ 2 * j - 1 \in 1 .. 2 * Len(ks) /\ 2 * j \in 1 .. 2 * Len(ks)
          /\ ((2 * j - 1) + 1) \div 2 = j /\ (2 * j + 1) \div 2 = j
          /\ (2 * j - 1) % 2 = 1 /\ (2 * j) % 2 = 0
        BY <1>1
    <2>2. RecalcAll(ks)[2 * j - 1] = e(2 * j - 1) /\ RecalcAll(ks)[2 * j] = e(2 * j)
        <3> HIDE DEF e
        <3> QED BY <1>4, <2>1
    <2> QED BY <2>1, <2>2
<1>9. ASSUME NEW n \in 1 .. 2 * Len(ks) PROVE \E j \in 1 .. Len(ks) : n = 2 * j - 1 \/ n = 2 * j
    <2>1. (n + 1) \div 2 \in 1 .. Len(ks)  BY <1>2
    <2>2. n = 2 * ((n + 1) \div 2) - 1 \/ n = 2 * ((n + 1) \div 2)  BY <1>1
    <2> QED BY <2>1, <2>2
<1> QED BY <1>7, <1>8, <1>9

LEMMA PlanIs ==
    ASSUME NEW A \in Seq(Statements), NEW ks \in Seq(Keys), NEW ps \in Seq(Portfolios)
    PROVE  LET q == Plan(A, ks, ps) IN
           /\ q \in Seq(Statements) /\ Len(q) = Len(A) + 2 * Len(ks) + Len(ps)
           /\ Len(A) \in Nat /\ Len(ks) \in Nat /\ Len(ps) \in Nat
           /\ \A n \in 1 .. Len(A) : q[n] = A[n]
           /\ \A j \in 1 .. Len(ks) : /\ q[Len(A) + 2 * j - 1] = LockAsset(ks[j])
                                      /\ q[Len(A) + 2 * j] = Recalc(ks[j])
           /\ \A j \in 1 .. Len(ps) : q[Len(A) + 2 * Len(ks) + j] = SumPortfolio(ps[j])
           /\ \A n \in 1 .. Len(q) : \/ n \in 1 .. Len(A)
                                     \/ \E j \in 1 .. Len(ks) : n = Len(A) + 2 * j - 1 \/ n = Len(A) + 2 * j
                                     \/ \E j \in 1 .. Len(ps) : n = Len(A) + 2 * Len(ks) + j
<1>1. PICK R : R = RecalcAll(ks)  OBVIOUS
<1>2. PICK S : S = [j \in 1 .. Len(ps) |-> SumPortfolio(ps[j])]  OBVIOUS
<1>3. /\ Len(A) \in Nat /\ Len(ks) \in Nat /\ Len(ps) \in Nat
      /\ \A j \in 1 .. Len(ps) : ps[j] \in Portfolios
    BY LenProperties, ElementOfSeq
<1>4. /\ R \in Seq(Statements) /\ Len(R) = 2 * Len(ks)
      /\ \A j \in 1 .. Len(ks) : R[2 * j - 1] = LockAsset(ks[j]) /\ R[2 * j] = Recalc(ks[j])
      /\ \A n \in 1 .. 2 * Len(ks) : \E j \in 1 .. Len(ks) : n = 2 * j - 1 \/ n = 2 * j
    BY <1>1, RecalcAllIs
<1>5. S \in Seq(Statements) /\ Len(S) = Len(ps) /\ \A j \in 1 .. Len(ps) : S[j] = SumPortfolio(ps[j])
    <2>1. S \in [1 .. Len(ps) -> Statements]  BY <1>2, <1>3, TxStatementsAre
    <2> QED BY <1>2, <1>3, <2>1
<1>6. PICK B : B = A \o R  OBVIOUS
<1>7. /\ B \in Seq(Statements) /\ Len(B) = Len(A) + 2 * Len(ks)
      /\ \A i \in 1 .. Len(A) + 2 * Len(ks) : B[i] = IF i <= Len(A) THEN A[i] ELSE R[i - Len(A)]
    BY <1>4, <1>6, ConcatProperties
<1>8. PICK q : q = B \o S  OBVIOUS
<1>9. /\ q \in Seq(Statements) /\ Len(q) = Len(B) + Len(ps)
      /\ \A i \in 1 .. Len(B) + Len(ps) : q[i] = IF i <= Len(B) THEN B[i] ELSE S[i - Len(B)]
    <2>1. B \in Seq(Statements) /\ S \in Seq(Statements) /\ Len(S) = Len(ps)  BY <1>5, <1>7
    <2>2. /\ q \in Seq(Statements) /\ Len(q) = Len(B) + Len(S)
          /\ \A i \in 1 .. Len(B) + Len(S) : q[i] = IF i <= Len(B) THEN B[i] ELSE S[i - Len(B)]
        BY <1>8, <2>1, ConcatProperties
    <2> QED BY <2>1, <2>2
<1>10. q = Plan(A, ks, ps)  BY <1>1, <1>2, <1>6, <1>8 DEF Plan
<1>11. \A n \in 1 .. Len(A) : q[n] = A[n]  BY <1>3, <1>7, <1>9
<1>12. ASSUME NEW j \in 1 .. Len(ks)
       PROVE  q[Len(A) + 2 * j - 1] = LockAsset(ks[j]) /\ q[Len(A) + 2 * j] = Recalc(ks[j])
    <2>0. Len(A) + 2 * j - 1 \in Nat  BY <1>3
    <2>1. PICK n \in Nat : n = Len(A) + 2 * j - 1  BY <2>0
    <2>2. n > Len(A) /\ n + 1 <= Len(A) + 2 * Len(ks) /\ n - Len(A) = 2 * j - 1 /\ n + 1 - Len(A) = 2 * j
        BY <1>3, <2>1
    <2>3. q[n] = R[n - Len(A)] /\ q[n + 1] = R[n + 1 - Len(A)]  BY <1>3, <1>7, <1>9, <2>2
    <2>4. q[n] = LockAsset(ks[j]) /\ q[n + 1] = Recalc(ks[j])  BY <1>4, <2>2, <2>3
    <2>5. n + 1 = Len(A) + 2 * j  BY <1>3, <2>1
    <2> QED BY <2>1, <2>4, <2>5
<1>13. ASSUME NEW j \in 1 .. Len(ps) PROVE q[Len(A) + 2 * Len(ks) + j] = SumPortfolio(ps[j])
    <2>1. PICK n \in Nat : n = Len(B) + j  BY <1>3, <1>7
    <2>2. n > Len(B) /\ n <= Len(B) + Len(ps) /\ n - Len(B) = j  BY <1>3, <1>7, <2>1
    <2>3. q[n] = S[j]  BY <1>3, <1>7, <1>9, <2>2
    <2> QED BY <1>5, <1>7, <2>1, <2>3
<1>14. ASSUME NEW n \in 1 .. Len(q)
       PROVE  \/ n \in 1 .. Len(A)
              \/ \E j \in 1 .. Len(ks) : n = Len(A) + 2 * j - 1 \/ n = Len(A) + 2 * j
              \/ \E j \in 1 .. Len(ps) : n = Len(A) + 2 * Len(ks) + j
    <2>1. CASE n <= Len(A)  BY <1>3, <2>1
    <2>2. CASE n > Len(A) /\ n <= Len(A) + 2 * Len(ks)
        <3>1. n - Len(A) \in 1 .. 2 * Len(ks)  BY <1>3, <2>2
        <3>2. PICK j \in 1 .. Len(ks) : n - Len(A) = 2 * j - 1 \/ n - Len(A) = 2 * j  BY <1>4, <3>1
        <3>3. n = Len(A) + 2 * j - 1 \/ n = Len(A) + 2 * j  BY <1>3, <3>2
        <3> QED BY <3>3
    <2>3. CASE n > Len(A) + 2 * Len(ks)
        <3>1. n - (Len(A) + 2 * Len(ks)) \in 1 .. Len(ps)  BY <1>3, <1>7, <1>9, <2>3
        <3>2. n = Len(A) + 2 * Len(ks) + (n - (Len(A) + 2 * Len(ks)))  BY <1>3
        <3> QED BY <3>1, <3>2
    <2> QED BY <1>3, <2>1, <2>2, <2>3
<1>15. Len(q) = Len(A) + 2 * Len(ks) + Len(ps)  BY <1>7, <1>9
<1> QED BY <1>3, <1>9, <1>10, <1>11, <1>12, <1>13, <1>14, <1>15

\* What a request knows when it begins. A holding to recalculate or to write to exists, or is created
\* before, or has a transaction; a transaction to change or delete exists.
Backed(q, n, k) == asset[k] # Null \/ HasMaker(q, n, k) \/ \E i \in Ids : txs[i] # Null /\ KeyOf(txs[i]) = k
Covered(q, n) ==
    /\ n = 3 /\ q[1].op = "lock" /\ q[1].k = KeyOf(q[n].r)
    /\ q[2].op = "check" /\ q[2].k = KeyOf(q[n].r) /\ q[2].amount = q[n].r.amount
    /\ \A m \in 1 .. Len(q) : m > 3 => q[m].op \in {"lock", "recalc", "sum"}
FreshAt(q, n) ==
    /\ q[n].op \notin {"updatePos", "ensureAsset"}
    /\ q[n].op = "recalc" => n > 1 /\ Backed(q, n, q[n].k)
    /\ q[n].op = "insertTx" => /\ q[n].r.group = Null /\ Backed(q, n, KeyOf(q[n].r))
                               /\ "import" \notin Kinds /\ q[n].r.dir = "sell" => Covered(q, n)
    /\ q[n].op \in {"updateTx", "deleteTx"} =>
           txs[q[n].i] # Null /\ ("retime" \in Kinds \/ HasRecalc(q, n, KeyOf(txs[q[n].i])))
    /\ q[n].op = "updateTx" => txs[q[n].i].group = Null
    /\ q[n].op = "deleteTx" => \A j \in Ids :
           txs[j] # Null /\ txs[j].group # Null /\ txs[j].group = txs[q[n].i].group
           => \E m \in 1 .. Len(q) : q[m].op = "deleteTx" /\ q[m].i = j
Fresh(q) == q \in Seq(Statements) /\ Good(q) /\ \A n \in 1 .. Len(q) : FreshAt(q, n)

\* The same of the writes of a plan.
OneOf(x, seq) == \E j \in 1 .. Len(seq) : seq[j] = x
WorkAt(A, n, ks, ps) ==
    /\ A[n].op \notin {"recalc", "updatePos", "carry", "ensureAsset", "sum"}
    /\ A[n].op \in {"createAsset", "updateLot", "deleteAsset"} => OneOf(A[n].k[1], ps)
    /\ A[n].op \in {"createAsset", "updateLot"} => OneOf(A[n].k, ks)
    /\ A[n].op = "updateNet" => "net" \in Kinds
    /\ A[n].op = "deleteAsset" => "remove" \in Kinds
    /\ A[n].op = "updateTx" => (A[n].ch.tok = Same \/ "retoken" \in Kinds) /\ txs[A[n].i].group = Null
    /\ A[n].op = "insertTx" => /\ OneOf(KeyOf(A[n].r), ks)
                               /\ A[n].r.group = Null /\ Backed(A, n, KeyOf(A[n].r))
                               /\ "import" \notin Kinds /\ A[n].r.dir = "sell" => Covered(A, n)
    /\ A[n].op \in {"updateTx", "deleteTx"} =>
           txs[A[n].i] # Null /\ ("retime" \in Kinds \/ OneOf(KeyOf(txs[A[n].i]), ks))
    /\ A[n].op = "deleteTx" => \A j \in Ids :
           txs[j] # Null /\ txs[j].group # Null /\ txs[j].group = txs[A[n].i].group
           => \E m \in 1 .. Len(A) : A[m].op = "deleteTx" /\ A[m].i = j
Work(A, ks, ps) ==
    /\ A \in Seq(Statements) /\ ks \in Seq(Keys) /\ ps \in Seq(Portfolios)
    /\ \A n \in 1 .. Len(A) : WorkAt(A, n, ks, ps)
    /\ \A j \in 1 .. Len(ks) : OneOf(ks[j][1], ps) /\ Backed(A, Len(A) + 1, ks[j])

LEMMA PlanFresh ==
    ASSUME NEW A, NEW ks, NEW ps, Work(A, ks, ps)
    PROVE  Fresh(Plan(A, ks, ps))
<1>1. PICK q : q = Plan(A, ks, ps)  OBVIOUS
<1>0. A \in Seq(Statements) /\ ks \in Seq(Keys) /\ ps \in Seq(Portfolios)  BY DEF Work
<1>2. PICK a : a = Len(A)  OBVIOUS
<1>3. PICK b : b = Len(ks)  OBVIOUS
<1>4. PICK c : c = Len(ps)  OBVIOUS
<1>5. /\ q \in Seq(Statements) /\ Len(q) = a + 2 * b + c /\ a \in Nat /\ b \in Nat /\ c \in Nat
      /\ \A n \in 1 .. a : q[n] = A[n]
      /\ \A j \in 1 .. b : q[a + 2 * j - 1] = LockAsset(ks[j]) /\ q[a + 2 * j] = Recalc(ks[j])
      /\ \A j \in 1 .. c : q[a + 2 * b + j] = SumPortfolio(ps[j])
      /\ \A n \in 1 .. Len(q) : \/ n \in 1 .. a
                                \/ \E j \in 1 .. b : n = a + 2 * j - 1 \/ n = a + 2 * j
                                \/ \E j \in 1 .. c : n = a + 2 * b + j
    <2>1. LET u == Plan(A, ks, ps) IN
          /\ u \in Seq(Statements) /\ Len(u) = Len(A) + 2 * Len(ks) + Len(ps)
          /\ Len(A) \in Nat /\ Len(ks) \in Nat /\ Len(ps) \in Nat
          /\ \A n \in 1 .. Len(A) : u[n] = A[n]
          /\ \A j \in 1 .. Len(ks) : /\ u[Len(A) + 2 * j - 1] = LockAsset(ks[j])
                                     /\ u[Len(A) + 2 * j] = Recalc(ks[j])
          /\ \A j \in 1 .. Len(ps) : u[Len(A) + 2 * Len(ks) + j] = SumPortfolio(ps[j])
          /\ \A n \in 1 .. Len(u) : \/ n \in 1 .. Len(A)
                                    \/ \E j \in 1 .. Len(ks) : n = Len(A) + 2 * j - 1 \/ n = Len(A) + 2 * j
                                    \/ \E j \in 1 .. Len(ps) : n = Len(A) + 2 * Len(ks) + j
        BY <1>0, PlanIs
    <2> QED BY <1>1, <1>2, <1>3, <1>4, <2>1, Zenon
<1>51. \A j \in 1 .. b : /\ q[a + 2 * j - 1].op = "lock"
                         /\ q[a + 2 * j].op = "recalc" /\ q[a + 2 * j].k = ks[j]
    <2> SUFFICES ASSUME NEW j \in 1 .. b
                 PROVE  /\ q[a + 2 * j - 1].op = "lock"
                        /\ q[a + 2 * j].op = "recalc" /\ q[a + 2 * j].k = ks[j]
        OBVIOUS
    <2>1. q[a + 2 * j - 1] = LockAsset(ks[j]) /\ q[a + 2 * j] = Recalc(ks[j])  BY <1>5, Zenon
    <2>2. LockAsset(ks[j]).op = "lock" /\ Recalc(ks[j]).op = "recalc" /\ Recalc(ks[j]).k = ks[j]
        BY DEF LockAsset, Recalc
    <2> QED BY <2>1, <2>2
<1>52. \A j \in 1 .. c : q[a + 2 * b + j].op = "sum"
    <2> SUFFICES ASSUME NEW j \in 1 .. c PROVE q[a + 2 * b + j].op = "sum"  OBVIOUS
    <2>1. q[a + 2 * b + j] = SumPortfolio(ps[j])  BY <1>5, Zenon
    <2>2. SumPortfolio(ps[j]).op = "sum"  BY DEF SumPortfolio
    <2> QED BY <2>1, <2>2
<1>53. a \in Nat /\ b \in Nat /\ c \in Nat  BY <1>5
<1>54. \A n \in 1 .. Len(q) : \/ n \in 1 .. a
                              \/ \E j \in 1 .. b : n = a + 2 * j - 1 \/ n = a + 2 * j
                              \/ \E j \in 1 .. c : n = a + 2 * b + j
    BY <1>5
<1>6. ASSUME NEW p, OneOf(p, ps), NEW n \in Nat, n <= a + 2 * b PROVE HasSum(q, n, p)
    <2>1. PICK j \in 1 .. c : ps[j] = p  BY <1>4, <1>6 DEF OneOf
    <2>2. PICK m : m = a + 2 * b + j  OBVIOUS
    <2>3. m \in 1 .. Len(q) /\ m > n  BY <1>5, <1>6, <2>2
    <2>4. q[m] = SumPortfolio(p)  BY <1>5, <2>1, <2>2
    <2> QED BY <2>3, <2>4 DEF HasSum, SumPortfolio
<1>7. ASSUME NEW k, OneOf(k, ks), NEW n \in Nat, n <= a PROVE HasRecalc(q, n, k)
    <2>1. PICK j \in 1 .. b : ks[j] = k  BY <1>3, <1>7 DEF OneOf
    <2>2. PICK m : m = a + 2 * j  OBVIOUS
    <2>3. m \in 1 .. Len(q) /\ m > n  BY <1>5, <1>7, <2>2
    <2>4. q[m] = Recalc(k)  BY <1>5, <2>1, <2>2
    <2> QED BY <2>3, <2>4 DEF HasRecalc, Recalc
<1>8. ASSUME NEW k, NEW n \in Nat, NEW m \in Nat, n <= m, Backed(A, n, k) PROVE Backed(q, m, k)
    <2> SUFFICES ASSUME HasMaker(A, n, k) PROVE HasMaker(q, m, k)  BY <1>8 DEF Backed
    <2>1. PICK i \in 1 .. a : i < n /\ A[i].op \in {"createAsset", "ensureAsset"} /\ A[i].k = k
        BY <1>2 DEF HasMaker
    <2>2. i \in 1 .. Len(q) /\ i < m /\ q[i] = A[i]  BY <1>5, <1>8, <2>1
    <2> QED BY <2>1, <2>2 DEF HasMaker
<1>9. \A n \in 1 .. Len(q) : n > a => q[n].op \in {"lock", "recalc", "sum"}
    <2> SUFFICES ASSUME NEW n \in 1 .. Len(q), n > a PROVE q[n].op \in {"lock", "recalc", "sum"}
        OBVIOUS
    <2>1. CASE \E j \in 1 .. b : n = a + 2 * j - 1 \/ n = a + 2 * j  BY <1>51, <2>1
    <2>2. CASE \E j \in 1 .. c : n = a + 2 * b + j  BY <1>52, <2>2
    <2> QED BY <1>53, <1>54, <2>1, <2>2
<1>10. ASSUME NEW n \in 1 .. a PROVE GoodAt(q, n) /\ FreshAt(q, n)
    <2>1. q[n] = A[n] /\ n \in Nat /\ n <= a /\ n <= a + 2 * b /\ n \in 1 .. Len(q)  BY <1>5
    <2>2. WorkAt(A, n, ks, ps)  BY <1>2 DEF Work
    <2>3. GoodAt(q, n)
        <3>1. q[n].op \in AssetWriters => HasSum(q, n, q[n].k[1])
            BY <1>6, <2>1, <2>2 DEF WorkAt, AssetWriters
        <3>2. q[n].op \in {"createAsset", "ensureAsset", "updateLot"} => HasRecalc(q, n, q[n].k)
            BY <1>7, <2>1, <2>2 DEF WorkAt
        <3>3. q[n].op = "insertTx" => HasRecalc(q, n, KeyOf(q[n].r))  BY <1>7, <2>1, <2>2 DEF WorkAt
        <3> QED BY <2>1, <2>2, <3>1, <3>2, <3>3 DEF GoodAt, WorkAt
    <2>4. q[n].op = "insertTx" /\ "import" \notin Kinds /\ q[n].r.dir = "sell" => Covered(q, n)
        <3> SUFFICES ASSUME q[n].op = "insertTx", "import" \notin Kinds, q[n].r.dir = "sell"
                     PROVE  Covered(q, n)
            OBVIOUS
        <3>1. Covered(A, n)  BY <2>1, <2>2 DEF WorkAt
        <3>2. n = 3 /\ q[1] = A[1] /\ q[2] = A[2] /\ q[3] = A[3]  BY <1>5, <2>1, <3>1 DEF Covered
        <3>3. \A m \in 1 .. Len(q) : m > 3 => q[m].op \in {"lock", "recalc", "sum"}
            <4> SUFFICES ASSUME NEW m \in 1 .. Len(q), m > 3 PROVE q[m].op \in {"lock", "recalc", "sum"}
                OBVIOUS
            <4>1. CASE m <= a
                <5>1. m \in 1 .. a /\ q[m] = A[m]  BY <1>5, <4>1
                <5> QED BY <1>2, <3>1, <5>1 DEF Covered
            <4>2. CASE m > a  BY <1>9, <4>2
            <4> QED BY <1>5, <4>1, <4>2
        <3> QED BY <3>1, <3>2, <3>3 DEF Covered
    <2>5. q[n].op = "insertTx" => Backed(q, n, KeyOf(q[n].r))  BY <1>8, <2>1, <2>2 DEF WorkAt
    <2>6. q[n].op \in {"updateTx", "deleteTx"} =>
             txs[q[n].i] # Null /\ ("retime" \in Kinds \/ HasRecalc(q, n, KeyOf(txs[q[n].i])))
        BY <1>7, <2>1, <2>2 DEF WorkAt
    <2>7. q[n].op = "deleteTx" => \A j \in Ids :
             txs[j] # Null /\ txs[j].group # Null /\ txs[j].group = txs[q[n].i].group
             => \E m \in 1 .. Len(q) : q[m].op = "deleteTx" /\ q[m].i = j
        <3> SUFFICES ASSUME q[n].op = "deleteTx", NEW j \in Ids, txs[j] # Null, txs[j].group # Null,
                            txs[j].group = txs[q[n].i].group
                     PROVE  \E m \in 1 .. Len(q) : q[m].op = "deleteTx" /\ q[m].i = j
            OBVIOUS
        <3>1. PICK m \in 1 .. a : A[m].op = "deleteTx" /\ A[m].i = j  BY <1>2, <2>1, <2>2 DEF WorkAt
        <3>2. m \in 1 .. Len(q) /\ q[m] = A[m]  BY <1>5
        <3> QED BY <3>1, <3>2
    <2>8. FreshAt(q, n)  BY <2>1, <2>2, <2>4, <2>5, <2>6, <2>7 DEF FreshAt, WorkAt
    <2> QED BY <2>3, <2>8
<1>11. ASSUME NEW j \in 1 .. b, NEW n \in 1 .. Len(q), n = a + 2 * j - 1 PROVE GoodAt(q, n) /\ FreshAt(q, n)
    <2>1. q[n].op = "lock"  BY <1>11, <1>51
    <2> QED BY <2>1 DEF GoodAt, FreshAt, AssetWriters
<1>12. ASSUME NEW j \in 1 .. b, NEW n \in 1 .. Len(q), n = a + 2 * j PROVE GoodAt(q, n) /\ FreshAt(q, n)
    <2>1. q[n].op = "recalc" /\ q[n].k = ks[j]  BY <1>12, <1>51
    <2>2. OneOf(ks[j][1], ps) /\ Backed(A, a + 1, ks[j])  BY <1>2, <1>3 DEF Work
    <2>3. n <= a + 2 * b /\ n \in Nat /\ n > 1 /\ a + 1 <= n /\ a + 1 \in Nat  BY <1>5, <1>12
    <2>4. HasSum(q, n, ks[j][1])  BY <1>6, <2>2, <2>3
    <2>5. Backed(q, n, ks[j])  BY <1>8, <2>2, <2>3
    <2>6. q[n - 1] = LockAsset(ks[j])
        <3>1. n - 1 = a + 2 * j - 1  BY <1>5, <1>12
        <3> QED BY <1>5, <3>1
    <2> QED BY <2>1, <2>3, <2>4, <2>5, <2>6 DEF GoodAt, FreshAt, AssetWriters, LockAsset
<1>13. ASSUME NEW j \in 1 .. c, NEW n \in 1 .. Len(q), n = a + 2 * b + j
       PROVE  GoodAt(q, n) /\ FreshAt(q, n)
    <2>1. q[n].op = "sum"  BY <1>13, <1>52
    <2> QED BY <2>1 DEF GoodAt, FreshAt, AssetWriters
<1>14. ASSUME NEW n \in 1 .. Len(q) PROVE GoodAt(q, n) /\ FreshAt(q, n)
    BY <1>5, <1>10, <1>11, <1>12, <1>13
<1> QED BY <1>1, <1>5, <1>14 DEF Fresh, Good

-----------------------------------------------------------------------------
(* The programs of the requests are plans *)

\* Rows, locks and programs of the right kind.
TypeInv ==
    /\ txs \in [Ids -> TxRows \cup {Null}] /\ asset \in [Keys -> AssetRows \cup {Null}]
    /\ net \in [Portfolios -> Int]
    /\ nextId \in 1 .. MaxTx + 1 /\ active \in SUBSET Slots /\ nreq \in Nat
    /\ todo \in [Slots -> Seq(Statements)] /\ no \in [Slots -> Nat]
    /\ wtx \in [Slots -> [Ids -> TxRows \cup {Null, Same}]]
    /\ wasset \in [Slots -> [Keys -> AssetRows \cup {Null, Same}]]
    /\ wnet \in [Slots -> [Portfolios -> Int \cup {Same}]]
    /\ txLock \in [Ids -> Slots \cup {Free}] /\ assetLock \in [Keys -> Slots \cup {Free}]
    /\ pfLock \in [Portfolios -> Slots \cup {Free}] /\ pfShare \in [Portfolios -> SUBSET Slots]

\* The committed rows.
Tables == txs \in [Ids -> TxRows \cup {Null}] /\ asset \in [Keys -> AssetRows \cup {Null}]

LEMMA RowsDiffer == Null \notin TxRows /\ Null \notin AssetRows /\ Same \notin TxRows /\ Same \notin AssetRows /\ Same # Null
BY LedgerAssumption

LEMMA OneKey ==
    ASSUME NEW k \in Keys
    PROVE  /\ <<k>> \in Seq(Keys) /\ <<k[1]>> \in Seq(Portfolios)
           /\ RecalcAsset(k) \in Seq(Statements) /\ RecalcAll(<<k>>) = RecalcAsset(k)
           /\ <<SumPortfolio(k[1])>> \in Seq(Statements)
           /\ [j \in 1 .. Len(<<k[1]>>) |-> SumPortfolio(<<k[1]>>[j])] = <<SumPortfolio(k[1])>>
<1>1. k[1] \in Portfolios  BY DEF Keys
<1>2. <<k>> \in Seq(Keys) /\ Len(<<k>>) = 1 /\ <<k>>[1] = k /\ <<k[1]>> \in Seq(Portfolios)  BY <1>1
<1>3. PICK R : R = RecalcAll(<<k>>)  OBVIOUS
<1>4. R \in Seq(Statements) /\ Len(R) = 2 /\ R[1] = LockAsset(k) /\ R[2] = Recalc(k)
    <2>1. /\ R \in Seq(Statements) /\ Len(R) = 2 * Len(<<k>>)
          /\ \A j \in 1 .. Len(<<k>>) : R[2 * j - 1] = LockAsset(<<k>>[j]) /\ R[2 * j] = Recalc(<<k>>[j])
        BY <1>2, <1>3, RecalcAllIs
    <2>2. 1 \in 1 .. Len(<<k>>)  BY <1>2
    <2>3. R[2 * 1 - 1] = LockAsset(<<k>>[1]) /\ R[2 * 1] = Recalc(<<k>>[1])  BY <2>1, <2>2
    <2>4. 2 * 1 - 1 = 1 /\ 2 * 1 = 2  OBVIOUS
    <2> QED BY <1>2, <2>1, <2>3, <2>4
<1>5. LockAsset(k) \in Statements /\ Recalc(k) \in Statements /\ SumPortfolio(k[1]) \in Statements
    BY <1>1 DEF LockAsset, Recalc, SumPortfolio, Statements
<1>6. PICK a \in Statements : a = LockAsset(k)  BY <1>5
<1>7. PICK b \in Statements : b = Recalc(k)  BY <1>5
<1>8. PICK c \in Statements : c = SumPortfolio(k[1])  BY <1>5
<1>9. R = <<a, b>>
    <2>1. <<a, b>> \in Seq(Statements) /\ Len(<<a, b>>) = 2  OBVIOUS
    <2>2. \A i \in 1 .. Len(R) : R[i] = <<a, b>>[i]  BY <1>4, <1>6, <1>7
    <2> QED BY <1>4, <2>1, <2>2, SeqEqual
<1>10. RecalcAsset(k) = <<a, b>>  BY <1>6, <1>7 DEF RecalcAsset
<1>11. [j \in 1 .. Len(<<k[1]>>) |-> SumPortfolio(<<k[1]>>[j])] = <<SumPortfolio(k[1])>>
    <2>1. Len(<<k[1]>>) = 1 /\ <<k[1]>>[1] = k[1]  OBVIOUS
    <2>2. PICK S : S = [j \in 1 .. Len(<<k[1]>>) |-> SumPortfolio(<<k[1]>>[j])]  OBVIOUS
    <2>3. DOMAIN S = 1 .. 1 /\ S[1] = c  BY <1>8, <2>1, <2>2
    <2>4. S = [j \in 1 .. 1 |-> c]  BY <1>8, <2>1, <2>2
    <2>5. S \in Seq(Statements) /\ Len(S) = 1  BY <1>8, <2>4
    <2>6. <<c>> \in Seq(Statements) /\ Len(<<c>>) = 1 /\ <<c>>[1] = c  OBVIOUS
    <2>7. \A i \in 1 .. Len(S) : S[i] = <<c>>[i]  BY <2>3, <2>5, <2>6
    <2>8. S = <<c>>  BY <2>5, <2>6, <2>7, SeqEqual
    <2> QED BY <1>8, <2>2, <2>8
<1> QED BY <1>2, <1>3, <1>5, <1>9, <1>10, <1>11

LEMMA SettlePlan ==
    ASSUME NEW A \in Seq(Statements), NEW k \in Keys
    PROVE  A \o Settle(k) = Plan(A, <<k>>, <<k[1]>>)
<1>1. /\ RecalcAsset(k) \in Seq(Statements) /\ RecalcAll(<<k>>) = RecalcAsset(k)
      /\ <<SumPortfolio(k[1])>> \in Seq(Statements)
      /\ [j \in 1 .. Len(<<k[1]>>) |-> SumPortfolio(<<k[1]>>[j])] = <<SumPortfolio(k[1])>>
    BY OneKey
<1>2. A \o Settle(k) = A \o (RecalcAsset(k) \o <<SumPortfolio(k[1])>>)  BY DEF Settle
<1>3. Plan(A, <<k>>, <<k[1]>>) = (A \o RecalcAsset(k)) \o <<SumPortfolio(k[1])>>  BY <1>1 DEF Plan
<1>4. PICK R \in Seq(Statements) : R = RecalcAsset(k)  BY <1>1
<1>5. PICK S \in Seq(Statements) : S = <<SumPortfolio(k[1])>>  BY <1>1
<1>6. (A \o R) \o S = A \o (R \o S)  BY ConcatAssociative
<1> QED BY <1>2, <1>3, <1>4, <1>5, <1>6

LEMMA Joined ==
    ASSUME NEW a \in Statements, NEW b \in Statements, NEW c \in Statements
    PROVE  /\ (<<>> \o <<>>) \o <<a>> = <<a>>
           /\ (<<>> \o <<a>>) \o <<b>> = <<a, b>>
           /\ (<<a, b>> \o <<>>) \o <<c>> = <<a, b, c>>
<1>1. <<>> \in Seq(Statements) /\ <<a>> \in Seq(Statements) /\ <<b>> \in Seq(Statements)
      /\ <<c>> \in Seq(Statements) /\ <<a, b>> \in Seq(Statements) /\ <<a, b, c>> \in Seq(Statements)
    OBVIOUS
<1>2. <<>> \o <<>> = <<>> /\ <<>> \o <<a>> = <<a>> /\ <<a, b>> \o <<>> = <<a, b>>  BY <1>1, ConcatEmptySeq
<1>3. PICK u : u = <<a>> \o <<b>>  OBVIOUS
<1>4. u \in Seq(Statements) /\ Len(u) = 2 /\ u[1] = a /\ u[2] = b  BY <1>1, <1>3, ConcatProperties
<1>5. u = <<a, b>>
    <2>1. \A i \in 1 .. Len(u) : u[i] = <<a, b>>[i]  BY <1>4
    <2> QED BY <1>1, <1>4, <2>1, SeqEqual
<1>6. PICK v : v = <<a, b>> \o <<c>>  OBVIOUS
<1>7. v \in Seq(Statements) /\ Len(v) = 3 /\ v[1] = a /\ v[2] = b /\ v[3] = c
    BY <1>1, <1>6, ConcatProperties
<1>8. v = <<a, b, c>>
    <2>1. \A i \in 1 .. Len(v) : v[i] = <<a, b, c>>[i]  BY <1>7
    <2> QED BY <1>1, <1>7, <2>1, SeqEqual
<1> QED BY <1>1, <1>2, <1>3, <1>5, <1>6, <1>8, ConcatEmptySeq

LEMMA Single == ASSUME NEW S, NEW x \in S PROVE <<x>> \in Seq(S) /\ Len(<<x>>) = 1 /\ <<x>>[1] = x
OBVIOUS

\* One statement, then the holding's settlement.
LEMMA SettledFresh ==
    ASSUME NEW st \in Statements, NEW k \in Keys, WorkAt(<<st>>, 1, <<k>>, <<k[1]>>), Backed(<<st>>, 2, k)
    PROVE  Fresh(<<st>> \o Settle(k))
<1>1. PICK A \in Seq(Statements) : A = <<st>> /\ Len(A) = 1 /\ A[1] = st  BY Single
<1>2. PICK ks \in Seq(Keys) : ks = <<k>> /\ Len(ks) = 1 /\ ks[1] = k  BY Single
<1>3. PICK ps \in Seq(Portfolios) : ps = <<k[1]>> /\ Len(ps) = 1 /\ ps[1] = k[1]  BY Single, KeysAre
<1>4. Work(A, ks, ps)
    <2>1. \A n \in 1 .. Len(A) : n = 1  BY <1>1
    <2>2. \A n \in 1 .. Len(A) : WorkAt(A, n, ks, ps)  BY <1>1, <1>2, <1>3, <2>1
    <2>3. \A j \in 1 .. Len(ks) : j = 1 /\ OneOf(ks[j][1], ps)  BY <1>2, <1>3 DEF OneOf
    <2>4. Len(A) + 1 = 2  BY <1>1
    <2>5. \A j \in 1 .. Len(ks) : OneOf(ks[j][1], ps) /\ Backed(A, Len(A) + 1, ks[j])
        BY <1>1, <1>2, <2>3, <2>4
    <2> QED BY <2>2, <2>5 DEF Work
<1>5. Fresh(Plan(A, ks, ps))  BY <1>4, PlanFresh
<1> QED BY <1>1, <1>2, <1>3, <1>5, SettlePlan

\* One statement alone.
LEMMA AloneFresh ==
    ASSUME NEW st \in Statements, WorkAt(<<st>>, 1, <<>>, <<>>)
    PROVE  Fresh(<<st>>)
<1>1. PICK A \in Seq(Statements) : A = <<st>> /\ Len(A) = 1 /\ A[1] = st  BY Single
<1>2. <<>> \in Seq(Keys) /\ <<>> \in Seq(Portfolios) /\ Len(<<>>) = 0  OBVIOUS
<1>3. Work(A, <<>>, <<>>)
    <2>1. \A n \in 1 .. Len(A) : n = 1  BY <1>1
    <2>2. \A n \in 1 .. Len(A) : WorkAt(A, n, <<>>, <<>>)  BY <1>1, <2>1
    <2>3. \A j \in 1 .. Len(<<>>) : FALSE  BY <1>2
    <2> QED BY <1>2, <2>2, <2>3 DEF Work
<1>4. PICK q : q = Plan(A, <<>>, <<>>)  OBVIOUS
<1>5. q \in Seq(Statements) /\ Len(q) = 1 /\ q[1] = st
    <2>1. /\ q \in Seq(Statements) /\ Len(q) = Len(A) + 2 * Len(<<>>) + Len(<<>>)
          /\ \A n \in 1 .. Len(A) : q[n] = A[n]
        BY <1>2, <1>4, PlanIs
    <2>2. 1 \in 1 .. Len(A) /\ A[1] = st  BY <1>1
    <2> QED BY <1>1, <1>2, <2>1, <2>2
<1>6. q = A
    <2>1. \A i \in 1 .. Len(q) : q[i] = A[i]  BY <1>1, <1>5
    <2> QED BY <1>1, <1>5, <2>1, SeqEqual
<1> QED BY <1>1, <1>3, <1>4, <1>6, PlanFresh

LEMMA OneOfOne == ASSUME NEW x PROVE OneOf(x, <<x>>)
<1>1. Len(<<x>>) = 1 /\ <<x>>[1] = x  OBVIOUS
<1> QED BY <1>1 DEF OneOf

LEMMA ChangesAre ==
    ASSUME NEW r \in TxRows
    PROVE  /\ \A ch \in Amendments(r) : ch \in Changes /\ ch.tok = Same
           /\ \A ch \in Retokenings(r) : ch \in Changes /\ ch.tok \in Tokens
           /\ \A ch \in Retimings : ch \in Changes /\ ch.tok = Same
<1>1. r.amount \in Nat /\ Amounts \subseteq Nat /\ Prices \subseteq Nat /\ Times \subseteq Nat
    BY LedgerAssumption DEF TxRows
<1>2. \A a \in Nat, price \in Nat : a * price \in Int  OBVIOUS
<1>3. \A t, d, a, u, ts : Change(t, d, a, u, ts).tok = t  BY DEF Change
<1>4. \A ch \in Amendments(r) : ch \in Changes /\ ch.tok = Same
    <2> SUFFICES ASSUME NEW ch \in Amendments(r) PROVE ch \in Changes /\ ch.tok = Same  OBVIOUS
    <2>1. CASE ch \in {Change(Same, d, Same, Same, Same) : d \in Directions}
        <3>1. PICK d \in Directions : ch = Change(Same, d, Same, Same, Same)  BY <2>1
        <3>2. Change(Same, d, Same, Same, Same) \in Changes  BY DEF Change, Changes
        <3> QED BY <1>3, <3>1, <3>2
    <2>2. CASE ch \in {Change(Same, Same, Same, r.amount * price, Same) : price \in Prices}
        <3>1. PICK price \in Prices : ch = Change(Same, Same, Same, r.amount * price, Same)  BY <2>2
        <3>2. PICK u \in Int : u = r.amount * price  BY <1>1, <1>2
        <3>3. Change(Same, Same, Same, u, Same) \in Changes  BY DEF Change, Changes
        <3> QED BY <1>3, <3>1, <3>2, <3>3
    <2>3. CASE ch \in {Change(Same, Same, a, a * price, ts) : a \in Amounts, price \in Prices, ts \in Times}
        <3>1. PICK a \in Amounts, price \in Prices, ts \in Times : ch = Change(Same, Same, a, a * price, ts)
            BY <2>3
        <3>2. PICK u \in Int : u = a * price  BY <1>1, <1>2
        <3>3. a \in Nat /\ ts \in Nat  BY <1>1
        <3>4. Change(Same, Same, a, u, ts) \in Changes  BY <3>3 DEF Change, Changes
        <3> QED BY <1>3, <3>1, <3>2, <3>4
    <2> QED BY <2>1, <2>2, <2>3 DEF Amendments
<1>5. \A ch \in Retokenings(r) : ch \in Changes /\ ch.tok \in Tokens
    <2> SUFFICES ASSUME NEW ch \in Retokenings(r) PROVE ch \in Changes /\ ch.tok \in Tokens  OBVIOUS
    <2>1. PICK t \in Tokens \ {r.tok}, price \in Prices : ch = Change(t, Same, Same, r.amount * price, Same)
        BY DEF Retokenings
    <2>2. PICK u \in Int : u = r.amount * price  BY <1>1, <1>2
    <2>3. Change(t, Same, Same, u, Same) \in Changes  BY DEF Change, Changes
    <2> QED BY <1>3, <2>1, <2>2, <2>3
<1>6. \A ch \in Retimings : ch \in Changes /\ ch.tok = Same
    <2> SUFFICES ASSUME NEW ch \in Retimings PROVE ch \in Changes /\ ch.tok = Same  OBVIOUS
    <2>1. PICK ts \in Times : ch = Change(Same, Same, Same, Same, ts)  BY DEF Retimings
    <2>2. ts \in Nat  BY <1>1
    <2>3. Change(Same, Same, Same, Same, ts) \in Changes  BY <2>2 DEF Change, Changes
    <2> QED BY <1>3, <2>1, <2>3
<1> QED BY <1>4, <1>5, <1>6

LEMMA AmendFresh ==
    ASSUME Tables, NEW i \in Ids, txs[i] # Null, txs[i].group = Null, NEW ch \in Amendments(txs[i])
    PROVE  Fresh(<<UpdateTx(i, ch)>> \o Settle(KeyOf(txs[i])))
<1>1. txs[i] \in TxRows  BY DEF Tables
<1>2. PICK k \in Keys : k = KeyOf(txs[i])  BY <1>1, KeysAre
<1>3. ch \in Changes /\ ch.tok = Same  BY <1>1, ChangesAre
<1>4. PICK st \in Statements : st = UpdateTx(i, ch)  BY <1>3, TxStatementsAre
<1>5. <<st>>[1] = st /\ st.op = "updateTx" /\ st.i = i /\ st.ch = ch  BY <1>4 DEF UpdateTx
<1>6. WorkAt(<<st>>, 1, <<k>>, <<k[1]>>)  BY <1>2, <1>3, <1>5, OneOfOne DEF WorkAt
<1>7. Backed(<<st>>, 2, k)  BY <1>2 DEF Backed
<1> QED BY <1>2, <1>4, <1>6, <1>7, SettledFresh

LEMMA RetimeFresh ==
    ASSUME Tables, NEW i \in Ids, txs[i] # Null, txs[i].group = Null, NEW ch \in Retimings, "retime" \in Kinds
    PROVE  Fresh(<<UpdateTx(i, ch)>>)
<1>1. txs[i] \in TxRows  BY DEF Tables
<1>2. ch \in Changes /\ ch.tok = Same  BY <1>1, ChangesAre
<1>3. PICK st \in Statements : st = UpdateTx(i, ch)  BY <1>2, TxStatementsAre
<1>4. <<st>>[1] = st /\ st.op = "updateTx" /\ st.i = i /\ st.ch = ch  BY <1>3 DEF UpdateTx
<1>5. WorkAt(<<st>>, 1, <<>>, <<>>)  BY <1>2, <1>4 DEF WorkAt
<1> QED BY <1>3, <1>5, AloneFresh

LEMMA OverrideFresh ==
    ASSUME Tables, NEW k \in Keys, NEW v \in Amounts, asset[k] # Null, "net" \in Kinds
    PROVE  Fresh(<<UpdateNet(k, asset[k].id, v)>>)
<1>1. asset[k] \in AssetRows  BY DEF Tables
<1>2. asset[k].id \in Nat /\ v \in Int  BY <1>1, LedgerAssumption DEF AssetRows
<1>3. PICK st \in Statements : st = UpdateNet(k, asset[k].id, v)
    BY <1>2 DEF Statements, UpdateNet
<1>4. <<st>>[1] = st /\ st.op = "updateNet"  BY <1>3 DEF UpdateNet
<1>5. WorkAt(<<st>>, 1, <<>>, <<>>)  BY <1>4 DEF WorkAt
<1> QED BY <1>3, <1>5, AloneFresh

LEMMA LotsAre ==
    /\ NoLot \in LotSet /\ \A lot \in Lots : lot \in LotSet
    /\ \A a \in Nat : \A lot \in LotsOf(a) : lot \in LotSet
    /\ \A lot \in LotSet, a \in Nat : Rescaled(lot, a) \in LotSet
<1>1. Amounts \subseteq Nat /\ Prices \subseteq Nat  BY LedgerAssumption
<1>2. \A a \in Nat, price \in Nat : a * price \in Nat  OBVIOUS
<1>3. ASSUME NEW a \in Nat, NEW lot \in LotsOf(a) PROVE lot \in LotSet
    <2>1. CASE lot = [qty |-> a, cost |-> Null]  BY <2>1 DEF LotSet
    <2>2. CASE lot \in {[qty |-> a, cost |-> a * price] : price \in Prices}
        <3>1. PICK price \in Prices : lot = [qty |-> a, cost |-> a * price]  BY <2>2
        <3>2. PICK c \in Nat : c = a * price  BY <1>1, <1>2
        <3>3. lot = [qty |-> a, cost |-> c]  BY <3>1, <3>2
        <3> QED BY <3>3 DEF LotSet
    <2> QED BY <2>1, <2>2 DEF LotsOf
<1>4. \A lot \in Lots : lot \in LotSet  BY <1>1, <1>3 DEF Lots
<1>5. ASSUME NEW lot \in LotSet, NEW a \in Nat PROVE Rescaled(lot, a) \in LotSet
    <2>1. lot.qty \in Nat /\ lot.cost \in Nat \cup {Null}  BY DEF LotSet
    <2>2. CASE lot.cost = Null \/ lot.qty = 0
        <3>1. Rescaled(lot, a) = [qty |-> a, cost |-> Null]  BY <2>2 DEF Rescaled
        <3> QED BY <3>1 DEF LotSet
    <2>3. CASE ~(lot.cost = Null \/ lot.qty = 0)
        <3>1. lot.cost \in Nat /\ lot.qty \in Nat \ {0}  BY <2>1, <2>3
        <3>2. PICK x \in Nat : x = a * lot.cost  BY <1>2, <3>1
        <3>3. x \div lot.qty \in Nat  BY <3>1
        <3>4. Rescaled(lot, a) = [qty |-> a, cost |-> x \div lot.qty]  BY <2>3, <3>2 DEF Rescaled
        <3> QED BY <3>3, <3>4 DEF LotSet
    <2> QED BY <2>2, <2>3
<1>6. NoLot \in LotSet  BY DEF NoLot, LotSet
<1> QED BY <1>3, <1>4, <1>5, <1>6

LEMMA AddFresh ==
    ASSUME NEW k \in Keys, NEW lot \in Lots
    PROVE  Fresh(<<CreateAsset(k, lot)>> \o Settle(k))
<1>1. PICK st \in Statements : st = CreateAsset(k, lot)  BY LotsAre, StatementsAre
<1>2. <<st>>[1] = st /\ Len(<<st>>) = 1 /\ st.op = "createAsset" /\ st.k = k  BY <1>1 DEF CreateAsset
<1>3. WorkAt(<<st>>, 1, <<k>>, <<k[1]>>)  BY <1>2, OneOfOne DEF WorkAt
<1>4. HasMaker(<<st>>, 2, k)  BY <1>2 DEF HasMaker
<1>5. Backed(<<st>>, 2, k)  BY <1>4 DEF Backed
<1> QED BY <1>1, <1>3, <1>5, SettledFresh

LEMMA LotFresh ==
    ASSUME Tables, NEW k \in Keys, asset[k] # Null,
           NEW lot \in Lots \cup {Rescaled(asset[k].lot, a) : a \in Amounts} \cup LotsOf(asset[k].lot.qty)
    PROVE  Fresh(<<UpdateLot(k, asset[k].id, lot)>> \o Settle(k))
<1>1. asset[k] \in AssetRows  BY DEF Tables
<1>2. asset[k].id \in Nat /\ asset[k].lot \in LotSet  BY <1>1 DEF AssetRows
<1>3. asset[k].lot.qty \in Nat /\ Amounts \subseteq Nat  BY <1>2, LedgerAssumption DEF LotSet
<1>4. lot \in LotSet
    <2>1. CASE lot \in {Rescaled(asset[k].lot, a) : a \in Amounts}  BY <1>2, <1>3, <2>1, LotsAre
    <2> QED BY <1>3, <2>1, LotsAre
<1>5. PICK st \in Statements : st = UpdateLot(k, asset[k].id, lot)  BY <1>2, <1>4, StatementsAre
<1>6. <<st>>[1] = st /\ st.op = "updateLot" /\ st.k = k  BY <1>5 DEF UpdateLot
<1>7. WorkAt(<<st>>, 1, <<k>>, <<k[1]>>)  BY <1>6, OneOfOne DEF WorkAt
<1>8. Backed(<<st>>, 2, k)  BY DEF Backed
<1> QED BY <1>5, <1>7, <1>8, SettledFresh

LEMMA RemoveFresh ==
    ASSUME Tables, NEW k \in Keys, asset[k] # Null, "remove" \in Kinds
    PROVE  Fresh(<<DeleteAsset(k, asset[k].id), SumPortfolio(k[1])>>)
<1>1. asset[k] \in AssetRows  BY DEF Tables
<1>2. asset[k].id \in Nat  BY <1>1 DEF AssetRows
<1>3. PICK a \in Statements : a = DeleteAsset(k, asset[k].id)  BY <1>2 DEF DeleteAsset, Statements
<1>4. PICK b \in Statements : b = SumPortfolio(k[1])  BY KeysAre, TxStatementsAre
<1>5. a.op = "deleteAsset" /\ a.k = k /\ b.op = "sum" /\ b.p = k[1]  BY <1>3, <1>4 DEF DeleteAsset, SumPortfolio
<1>6. <<a, b>> \in Seq(Statements) /\ Len(<<a, b>>) = 2 /\ <<a, b>>[1] = a /\ <<a, b>>[2] = b  OBVIOUS
<1>7. PICK q \in Seq(Statements) : q = <<a, b>> /\ Len(q) = 2 /\ q[1] = a /\ q[2] = b  BY <1>6
<1>8. HasSum(q, 1, k[1])  BY <1>5, <1>7 DEF HasSum
<1>9. GoodAt(q, 1) /\ FreshAt(q, 1)  BY <1>5, <1>7, <1>8 DEF GoodAt, FreshAt, AssetWriters
<1>10. GoodAt(q, 2) /\ FreshAt(q, 2)  BY <1>5, <1>7 DEF GoodAt, FreshAt, AssetWriters
<1>11. \A n \in 1 .. Len(q) : n = 1 \/ n = 2  BY <1>7
<1>12. Fresh(q)  BY <1>7, <1>9, <1>10, <1>11 DEF Fresh, Good
<1> QED BY <1>3, <1>4, <1>7, <1>12

LEMMA TransferFresh ==
    ASSUME NEW k \in Keys, NEW d \in Portfolios, d # k[1], NEW a \in Amounts, NEW ts \in Times
    PROVE  Fresh(<<LockAsset(k), Carry(k, d, a, ts)>>)
<1>1. a \in Nat \ {0} /\ ts \in Nat  BY LedgerAssumption
<1>2. PICK x \in Statements : x = LockAsset(k)  BY DEF LockAsset, Statements
<1>3. PICK y \in Statements : y = Carry(k, d, a, ts)  BY <1>1 DEF Carry, Statements
<1>4. x.op = "lock" /\ y.op = "carry" /\ y.d # y.k[1]  BY <1>2, <1>3 DEF LockAsset, Carry
<1>5. <<x, y>> \in Seq(Statements) /\ Len(<<x, y>>) = 2 /\ <<x, y>>[1] = x /\ <<x, y>>[2] = y  OBVIOUS
<1>6. PICK q \in Seq(Statements) : q = <<x, y>> /\ Len(q) = 2 /\ q[1] = x /\ q[2] = y  BY <1>5
<1>7. GoodAt(q, 1) /\ FreshAt(q, 1)  BY <1>4, <1>6 DEF GoodAt, FreshAt, AssetWriters
<1>8. \A n \in 1 .. Len(q) : n = 1 \/ n = 2  BY <1>6
<1>9. GoodAt(q, 2) /\ FreshAt(q, 2)  BY <1>4, <1>6, <1>8 DEF GoodAt, FreshAt, AssetWriters
<1>10. Fresh(q)  BY <1>6, <1>7, <1>8, <1>9 DEF Fresh, Good
<1> QED BY <1>2, <1>3, <1>6, <1>10

LEMMA Associative == \A A, B, C \in Seq(Statements) : (A \o B) \o C = A \o (B \o C)
BY ConcatAssociative

LEMMA Regroup == \A A, B, C, S \in Seq(Statements) : (A \o B) \o (C \o S) = (A \o (B \o C)) \o S
<1> SUFFICES ASSUME NEW A \in Seq(Statements), NEW B \in Seq(Statements), NEW C \in Seq(Statements),
                    NEW S \in Seq(Statements)
             PROVE  (A \o B) \o (C \o S) = (A \o (B \o C)) \o S
    OBVIOUS
<1>1. (A \o B) \in Seq(Statements)  BY ConcatProperties
<1>2. ((A \o B) \o C) \o S = (A \o B) \o (C \o S)  BY <1>1, Associative, Zenon
<1>3. (A \o B) \o C = A \o (B \o C)  BY Associative, Zenon
<1> QED BY <1>2, <1>3, Zenon

LEMMA RetokenFresh ==
    ASSUME Tables, NEW i \in Ids, txs[i] # Null, txs[i].group = Null, NEW ch \in Retokenings(txs[i]),
           asset[<<txs[i].pf, ch.tok>>] # Null, "retoken" \in Kinds
    PROVE  Fresh(<<UpdateTx(i, ch)>> \o RecalcAsset(KeyOf(txs[i])) \o Settle(<<txs[i].pf, ch.tok>>))
<1>1. txs[i] \in TxRows  BY DEF Tables
<1>2. ch \in Changes /\ ch.tok \in Tokens  BY <1>1, ChangesAre
<1>3. PICK k \in Keys : k = KeyOf(txs[i])  BY <1>1, KeysAre
<1>4. PICK e \in Keys : e = <<txs[i].pf, ch.tok>>  BY <1>1, <1>2 DEF Keys, TxRows
<1>5. k[1] = txs[i].pf /\ e[1] = txs[i].pf /\ k[1] \in Portfolios  BY <1>1, <1>3, <1>4 DEF KeyOf, TxRows
<1>6. PICK st \in Statements : st = UpdateTx(i, ch)  BY <1>2, TxStatementsAre
<1>7. PICK A \in Seq(Statements) : A = <<st>> /\ Len(A) = 1 /\ A[1] = st  BY Single
<1>8. st.op = "updateTx" /\ st.i = i /\ st.ch = ch  BY <1>6 DEF UpdateTx
<1>9. <<k, e>> \in Seq(Keys) /\ Len(<<k, e>>) = 2 /\ <<k, e>>[1] = k /\ <<k, e>>[2] = e  OBVIOUS
<1>10. PICK ks \in Seq(Keys) : ks = <<k, e>> /\ Len(ks) = 2 /\ ks[1] = k /\ ks[2] = e  BY <1>9
<1>11. PICK ps \in Seq(Portfolios) : ps = <<k[1]>> /\ Len(ps) = 1 /\ ps[1] = k[1]  BY <1>5, Single
<1>12. Work(A, ks, ps)
    <2>1. OneOf(k, ks) /\ OneOf(k[1], ps)  BY <1>10, <1>11 DEF OneOf
    <2>2. WorkAt(A, 1, ks, ps)  BY <1>3, <1>7, <1>8, <2>1 DEF WorkAt
    <2>3. \A n \in 1 .. Len(A) : n = 1  BY <1>7
    <2>4. \A j \in 1 .. Len(ks) : OneOf(ks[j][1], ps)
        <3>1. \A j \in 1 .. Len(ks) : j = 1 \/ j = 2  BY <1>10
        <3> QED BY <1>5, <1>10, <2>1, <3>1
    <2>5. \A j \in 1 .. Len(ks) : Backed(A, Len(A) + 1, ks[j])
        <3>1. \A j \in 1 .. Len(ks) : j = 1 \/ j = 2  BY <1>10
        <3> QED BY <1>3, <1>4, <1>10, <3>1 DEF Backed
    <2> QED BY <2>2, <2>3, <2>4, <2>5 DEF Work
<1>13. Fresh(Plan(A, ks, ps))  BY <1>12, PlanFresh
<1>14. PICK B \in Seq(Statements) : B = RecalcAsset(k)  BY OneKey
<1>15. PICK C \in Seq(Statements) : C = RecalcAsset(e)  BY OneKey
<1>16. PICK S \in Seq(Statements) : S = <<SumPortfolio(k[1])>>  BY OneKey
<1>18. RecalcAll(ks) = B \o C
    <2>1. PICK R : R = RecalcAll(ks)  OBVIOUS
    <2>2. /\ R \in Seq(Statements) /\ Len(R) = 2 * Len(ks)
          /\ \A j \in 1 .. Len(ks) : R[2 * j - 1] = LockAsset(ks[j]) /\ R[2 * j] = Recalc(ks[j])
        BY <2>1, RecalcAllIs
    <2>3. 1 \in 1 .. Len(ks) /\ 2 \in 1 .. Len(ks)  BY <1>10
    <2>4. R[2 * 1 - 1] = LockAsset(k) /\ R[2 * 1] = Recalc(k) /\ R[2 * 2 - 1] = LockAsset(e) /\ R[2 * 2] = Recalc(e)
        BY <1>10, <2>2, <2>3
    <2>5. Len(R) = 4 /\ R[1] = LockAsset(k) /\ R[2] = Recalc(k) /\ R[3] = LockAsset(e) /\ R[4] = Recalc(e)
        BY <1>10, <2>2, <2>4
    <2>6. Len(B) = 2 /\ B[1] = LockAsset(k) /\ B[2] = Recalc(k) /\ Len(C) = 2 /\ C[1] = LockAsset(e) /\ C[2] = Recalc(e)
        BY <1>14, <1>15 DEF RecalcAsset
    <2>7. PICK D : D = B \o C  OBVIOUS
    <2>8. /\ D \in Seq(Statements) /\ Len(D) = Len(B) + Len(C)
          /\ \A n \in 1 .. Len(B) + Len(C) : D[n] = IF n <= Len(B) THEN B[n] ELSE C[n - Len(B)]
        BY <2>7, ConcatProperties
    <2>9. Len(D) = 4 /\ D[1] = B[1] /\ D[2] = B[2] /\ D[3] = C[1] /\ D[4] = C[2]  BY <2>6, <2>8
    <2>10. \A n \in 1 .. Len(R) : R[n] = D[n]  BY <2>5, <2>6, <2>9
    <2>11. R = D  BY <2>2, <2>5, <2>8, <2>9, <2>10, SeqEqual
    <2> QED BY <2>1, <2>7, <2>11
<1>19. [j \in 1 .. Len(ps) |-> SumPortfolio(ps[j])] = S  BY <1>11, <1>16, OneKey
<1>20. Plan(A, ks, ps) = (A \o (B \o C)) \o S  BY <1>18, <1>19 DEF Plan
<1>21. Settle(e) = C \o S  BY <1>5, <1>15, <1>16 DEF Settle
<1>22. (A \o B) \o (C \o S) = (A \o (B \o C)) \o S
    <2>1. \A x, y, z \in Seq(Statements) : (A \o x) \o (y \o z) = (A \o (x \o y)) \o z  BY Regroup, Zenon
    <2>2. \A y, z \in Seq(Statements) : (A \o B) \o (y \o z) = (A \o (B \o y)) \o z  BY <2>1, Zenon
    <2>3. \A z \in Seq(Statements) : (A \o B) \o (C \o z) = (A \o (B \o C)) \o z  BY <2>2, Zenon
    <2> QED BY <2>3, Zenon
<1> QED BY <1>3, <1>4, <1>6, <1>7, <1>13, <1>14, <1>20, <1>21, <1>22

LEMMA CreateFresh ==
    ASSUME Tables, NEW k \in Keys, NEW dir \in Directions, NEW a \in Amounts, NEW price \in Prices,
           NEW ts \in Times, dir # "buy" => asset[k] # Null
    PROVE  Fresh(CreateProgram(Row(k[1], k[2], dir, a, a * price, ts, Null), asset[k] # Null))
<1>1. PICK r : r = Row(k[1], k[2], dir, a, a * price, ts, Null)  OBVIOUS
<1>2. /\ r \in TxRows /\ r.dir = dir /\ r.amount = a /\ r.group = Null /\ KeyOf(r) = k
      /\ a \in Nat
    <2>1. a \in Nat /\ price \in Nat /\ ts \in Nat  BY LedgerAssumption
    <2>2. PICK u \in Int : u = a * price  BY <2>1
    <2>3. k[1] \in Portfolios /\ k[2] \in Tokens /\ k = <<k[1], k[2]>>  BY KeysAre
    <2>4. r = [pf |-> k[1], tok |-> k[2], dir |-> dir, amount |-> a, usd |-> u, ts |-> ts, group |-> Null]
        BY <1>1, <2>2 DEF Row
    <2> QED BY <2>1, <2>3, <2>4 DEF TxRows, KeyOf
<1>3. PICK L \in Statements : L = LockAsset(k)  BY DEF LockAsset, Statements
<1>4. PICK C \in Statements : C = CheckBalance(k, a)  BY <1>2 DEF CheckBalance, Statements
<1>5. PICK M \in Statements : M = CreateAsset(k, NoLot)  BY LotsAre DEF CreateAsset, Statements
<1>6. PICK I \in Statements : I = InsertTx(r)  BY <1>2, TxStatementsAre
<1>7. /\ L.op = "lock" /\ L.k = k /\ C.op = "check" /\ C.k = k /\ C.amount = a
      /\ M.op = "createAsset" /\ M.k = k /\ I.op = "insertTx" /\ I.r = r
    BY <1>3, <1>4, <1>5, <1>6 DEF LockAsset, CheckBalance, CreateAsset, InsertTx
<1>8. PICK ks \in Seq(Keys) : ks = <<k>> /\ Len(ks) = 1 /\ ks[1] = k  BY Single
<1>9. PICK ps \in Seq(Portfolios) : ps = <<k[1]>> /\ Len(ps) = 1 /\ ps[1] = k[1]  BY Single, KeysAre
<1>10. OneOf(k, ks) /\ OneOf(k[1], ps) /\ \A j \in 1 .. Len(ks) : ks[j] = k  BY <1>8, <1>9 DEF OneOf
<1>11. ASSUME NEW A \in Seq(Statements), Work(A, ks, ps) PROVE Fresh(A \o Settle(k))
    <2>1. A \o Settle(k) = Plan(A, ks, ps)  BY <1>8, <1>9, SettlePlan
    <2> QED BY <1>11, <2>1, PlanFresh
<1>12. CASE dir = "sell"
    <2>1. CreateProgram(r, asset[k] # Null) = ((<<L, C>> \o <<>>) \o <<I>>) \o Settle(k)
        BY <1>2, <1>3, <1>4, <1>6, <1>12 DEF CreateProgram
    <2>2. <<L, C, I>> \in Seq(Statements) /\ Len(<<L, C, I>>) = 3 /\ <<L, C, I>>[1] = L
          /\ <<L, C, I>>[2] = C /\ <<L, C, I>>[3] = I
        OBVIOUS
    <2>3. PICK A \in Seq(Statements) : A = <<L, C, I>> /\ Len(A) = 3 /\ A[1] = L /\ A[2] = C /\ A[3] = I
        BY <2>2
    <2>4. CreateProgram(r, asset[k] # Null) = A \o Settle(k)  BY <2>1, <2>3, Joined
    <2>5. WorkAt(A, 1, ks, ps) /\ WorkAt(A, 2, ks, ps)  BY <1>7, <2>3 DEF WorkAt
    <2>6. Covered(A, 3)
        <3>1. \A m \in 1 .. Len(A) : ~(m > 3)  BY <2>3
        <3> QED BY <1>2, <1>7, <2>3, <3>1 DEF Covered
    <2>7. Backed(A, 3, k) /\ Backed(A, Len(A) + 1, k)  BY <1>12 DEF Backed
    <2>8. WorkAt(A, 3, ks, ps)  BY <1>2, <1>7, <1>10, <2>3, <2>6, <2>7 DEF WorkAt
    <2>9. \A n \in 1 .. Len(A) : n = 1 \/ n = 2 \/ n = 3  BY <2>3
    <2>10. Work(A, ks, ps)  BY <1>10, <2>5, <2>7, <2>8, <2>9 DEF Work
    <2>11. Fresh(A \o Settle(k))  BY <1>11, <2>10
    <2> QED BY <1>1, <2>4, <2>11
<1>13. CASE dir # "sell" /\ asset[k] # Null
    <2>1. CreateProgram(r, asset[k] # Null) = ((<<>> \o <<>>) \o <<I>>) \o Settle(k)
        BY <1>2, <1>6, <1>13 DEF CreateProgram
    <2>2. PICK A \in Seq(Statements) : A = <<I>> /\ Len(A) = 1 /\ A[1] = I  BY Single
    <2>3. CreateProgram(r, asset[k] # Null) = A \o Settle(k)  BY <2>1, <2>2, Joined
    <2>4. Backed(A, 1, k) /\ Backed(A, Len(A) + 1, k)  BY <1>13 DEF Backed
    <2>5. WorkAt(A, 1, ks, ps)  BY <1>2, <1>7, <1>10, <1>13, <2>2, <2>4 DEF WorkAt
    <2>6. \A n \in 1 .. Len(A) : n = 1  BY <2>2
    <2>7. Work(A, ks, ps)  BY <1>10, <2>4, <2>5, <2>6 DEF Work
    <2>11. Fresh(A \o Settle(k))  BY <1>11, <2>7
    <2> QED BY <1>1, <2>3, <2>11
<1>14. CASE dir # "sell" /\ asset[k] = Null
    <2>1. CreateProgram(r, asset[k] # Null) = ((<<>> \o <<M>>) \o <<I>>) \o Settle(k)
        BY <1>2, <1>5, <1>6, <1>14 DEF CreateProgram
    <2>2. <<M, I>> \in Seq(Statements) /\ Len(<<M, I>>) = 2 /\ <<M, I>>[1] = M /\ <<M, I>>[2] = I  OBVIOUS
    <2>3. PICK A \in Seq(Statements) : A = <<M, I>> /\ Len(A) = 2 /\ A[1] = M /\ A[2] = I  BY <2>2
    <2>4. CreateProgram(r, asset[k] # Null) = A \o Settle(k)  BY <2>1, <2>3, Joined
    <2>5. HasMaker(A, 2, k) /\ HasMaker(A, Len(A) + 1, k)  BY <1>7, <2>3 DEF HasMaker
    <2>6. Backed(A, 2, k) /\ Backed(A, Len(A) + 1, k)  BY <2>5 DEF Backed
    <2>7. WorkAt(A, 1, ks, ps)  BY <1>7, <1>10, <2>3 DEF WorkAt
    <2>8. WorkAt(A, 2, ks, ps)  BY <1>2, <1>7, <1>10, <1>14, <2>3, <2>6 DEF WorkAt
    <2>9. \A n \in 1 .. Len(A) : n = 1 \/ n = 2  BY <2>3
    <2>10. Work(A, ks, ps)  BY <1>10, <2>6, <2>7, <2>8, <2>9 DEF Work
    <2>11. Fresh(A \o Settle(k))  BY <1>11, <2>10
    <2> QED BY <1>1, <2>4, <2>11
<1> QED BY <1>12, <1>13, <1>14

\* Any sequence of the legs has them all.
LEMMA LegsAre ==
    ASSUME Tables, NEW i \in Ids, txs[i] # Null, NEW legs \in SetToSeqs(LegsOf(i))
    PROVE  /\ legs \in Seq(Ids) /\ DOMAIN legs = 1 .. Len(legs) /\ Len(legs) \in Nat
           /\ \A n \in 1 .. Len(legs) : legs[n] \in LegsOf(i) /\ txs[legs[n]] \in TxRows
           /\ \A j \in LegsOf(i) : \E n \in 1 .. Len(legs) : legs[n] = j
<1>1. PICK S : S = LegsOf(i)  OBVIOUS
<1>2. S \subseteq Ids /\ \A j \in S : txs[j] \in TxRows  BY <1>1 DEF LegsOf, Tables
<1>3. IsFiniteSet(S)
    <2>1. IsFiniteSet(Ids)  BY LedgerAssumption, FS_Interval DEF Ids
    <2> QED BY <1>2, <2>1, FS_Subset
<1>4. PICK N \in Nat : N = Cardinality(S)  BY <1>3, FS_CardinalityType
<1>5. legs \in [1 .. N -> S] /\ \A x, y \in 1 .. N : x # y => legs[x] # legs[y]
    BY <1>1, <1>4 DEF SetToSeqs
<1>6. legs \in Seq(Ids) /\ Len(legs) = N /\ DOMAIN legs = 1 .. N
    <2>1. legs \in [1 .. N -> Ids]  BY <1>2, <1>5
    <2> QED BY <2>1
<1>7. legs \in Injection(1 .. N, S)  BY <1>5 DEF Injection, IsInjective
<1>8. Cardinality(1 .. N) = N  BY FS_Interval
<1>9. legs \in Surjection(1 .. N, S)  BY <1>3, <1>4, <1>7, <1>8, FS_Injection
<1>10. \A j \in S : \E n \in 1 .. N : legs[n] = j  BY <1>9 DEF Surjection
<1> QED BY <1>1, <1>2, <1>5, <1>6, <1>10

LEMMA DeleteFresh ==
    ASSUME Tables, NEW i \in Ids, txs[i] # Null, NEW legs \in SetToSeqs(LegsOf(i))
    PROVE  Fresh(DeleteProgram(legs))
<1>1. PICK N \in Nat : N = Len(legs)  BY LegsAre
<1>2. /\ legs \in Seq(Ids) /\ DOMAIN legs = 1 .. N
      /\ \A n \in 1 .. N : legs[n] \in LegsOf(i) /\ txs[legs[n]] \in TxRows /\ legs[n] \in Ids
      /\ \A j \in LegsOf(i) : \E n \in 1 .. N : legs[n] = j
    BY <1>1, LegsAre DEF LegsOf
<1>3. PICK A : A = [j \in 1 .. N |-> DeleteTx(legs[j])]  OBVIOUS
<1>4. PICK ks : ks = [j \in 1 .. N |-> KeyOf(txs[legs[j]])]  OBVIOUS
<1>5. PICK ps : ps = [j \in 1 .. N |-> txs[legs[j]].pf]  OBVIOUS
<1>6. A \in Seq(Statements) /\ Len(A) = N
    <2>1. A \in [1 .. N -> Statements]  BY <1>2, <1>3, TxStatementsAre
    <2> QED BY <2>1
<1>7. ks \in Seq(Keys) /\ Len(ks) = N
    <2>1. ks \in [1 .. N -> Keys]  BY <1>2, <1>4, KeysAre
    <2> QED BY <2>1
<1>8. ps \in Seq(Portfolios) /\ Len(ps) = N
    <2>1. ps \in [1 .. N -> Portfolios]  BY <1>2, <1>5 DEF TxRows
    <2> QED BY <2>1
<1>9. DeleteProgram(legs) = Plan(A, ks, ps)
    <2>1. [j \in DOMAIN legs |-> SumPortfolio(txs[legs[j]].pf)] = [j \in 1 .. Len(ps) |-> SumPortfolio(ps[j])]
        BY <1>2, <1>5, <1>8
    <2>2. [j \in DOMAIN legs |-> DeleteTx(legs[j])] = A /\ [j \in DOMAIN legs |-> KeyOf(txs[legs[j]])] = ks
        BY <1>2, <1>3, <1>4
    <2> QED BY <2>1, <2>2 DEF DeleteProgram, Plan
<1>10. ASSUME NEW n \in 1 .. N PROVE WorkAt(A, n, ks, ps)
    <2>1. A[n].op = "deleteTx" /\ A[n].i = legs[n]  BY <1>3 DEF DeleteTx
    <2>2. OneOf(KeyOf(txs[legs[n]]), ks)
        <3>1. ks[n] = KeyOf(txs[legs[n]])  BY <1>4
        <3> QED BY <1>7, <3>1 DEF OneOf
    <2>3. txs[legs[n]] # Null  BY <1>2, RowsDiffer
    <2>4. ASSUME NEW j \in Ids, txs[j] # Null, txs[j].group # Null, txs[j].group = txs[legs[n]].group
          PROVE  \E m \in 1 .. Len(A) : A[m].op = "deleteTx" /\ A[m].i = j
        <3>1. legs[n] \in LegsOf(i)  BY <1>2
        <3>2. txs[i].group # Null /\ txs[legs[n]].group = txs[i].group  BY <2>4, <3>1 DEF LegsOf
        <3>3. j \in LegsOf(i)  BY <2>4, <3>2 DEF LegsOf
        <3>4. PICK m \in 1 .. N : legs[m] = j  BY <1>2, <3>3
        <3>5. A[m].op = "deleteTx" /\ A[m].i = j  BY <1>3, <3>4 DEF DeleteTx
        <3> QED BY <1>6, <3>5
    <2> QED BY <2>1, <2>2, <2>3, <2>4 DEF WorkAt
<1>11. ASSUME NEW j \in 1 .. Len(ks) PROVE OneOf(ks[j][1], ps) /\ Backed(A, Len(A) + 1, ks[j])
    <2>1. j \in 1 .. N /\ ks[j] = KeyOf(txs[legs[j]]) /\ ps[j] = txs[legs[j]].pf  BY <1>4, <1>5, <1>7
    <2>2. txs[legs[j]] \in TxRows /\ txs[legs[j]] # Null /\ legs[j] \in Ids  BY <1>2, <2>1, RowsDiffer
    <2>3. ks[j][1] = ps[j]  BY <2>1, <2>2, KeysAre
    <2>4. OneOf(ks[j][1], ps)  BY <1>8, <2>1, <2>3 DEF OneOf
    <2>5. Backed(A, Len(A) + 1, ks[j])  BY <2>1, <2>2 DEF Backed
    <2> QED BY <2>4, <2>5
<1>12. Work(A, ks, ps)  BY <1>6, <1>7, <1>8, <1>10, <1>11 DEF Work
<1> QED BY <1>9, <1>12, PlanFresh

LEMMA OpenFresh ==
    ASSUME NEW p \in Portfolios, NEW S \in SUBSET Tokens, NEW toks \in SetToSeqs(S), NEW lots \in [S -> Lots]
    PROVE  Fresh(OpenProgram(p, toks, lots))
<1>1. IsFiniteSet(S)  BY LedgerAssumption, FS_Subset
<1>2. PICK N \in Nat : N = Cardinality(S)  BY <1>1, FS_CardinalityType
<1>3. toks \in [1 .. N -> S]  BY <1>2 DEF SetToSeqs
<1>4. Len(toks) = N  BY <1>3
<1> DEFINE e(n) == LET t == toks[(n + 2) \div 3]
                   IN CASE n % 3 = 1 -> CreateAsset(<<p, t>>, lots[t])
                        [] n % 3 = 2 -> LockAsset(<<p, t>>)
                        [] n % 3 = 0 -> Recalc(<<p, t>>)
<1>5. PICK B : B = [n \in 1 .. 3 * N |-> e(n)]  OBVIOUS
<1>6. PICK Z \in Statements : Z = SumPortfolio(p)  BY TxStatementsAre
<1>7. OpenProgram(p, toks, lots) = B \o <<Z>>  BY <1>4, <1>5, <1>6 DEF OpenProgram
<1>8. ASSUME NEW j \in 1 .. N
      PROVE  LET k == <<p, toks[j]>> IN
             /\ k \in Keys /\ k[1] = p /\ lots[toks[j]] \in LotSet
             /\ B[3 * j - 2] = CreateAsset(k, lots[toks[j]])
             /\ B[3 * j - 1] = LockAsset(k) /\ B[3 * j] = Recalc(k)
    <2>1. toks[j] \in S  BY <1>3
    <2>2. <<p, toks[j]>> \in Keys /\ lots[toks[j]] \in LotSet  BY <2>1, LotsAre DEF Keys
    <2>3. /\ 3 * j - 2 \in 1 .. 3 * N /\ 3 * j - 1 \in 1 .. 3 * N /\ 3 * j \in 1 .. 3 * N
          /\ ((3 * j - 2) + 2) \div 3 = j /\ ((3 * j - 1) + 2) \div 3 = j /\ (3 * j + 2) \div 3 = j
          /\ (3 * j - 2) % 3 = 1 /\ (3 * j - 1) % 3 = 2 /\ (3 * j) % 3 = 0
        OBVIOUS
    <2>4. B[3 * j - 2] = e(3 * j - 2) /\ B[3 * j - 1] = e(3 * j - 1) /\ B[3 * j] = e(3 * j)
        <3> HIDE DEF e
        <3> QED BY <1>5, <2>3
    <2>5. e(3 * j - 2) = CreateAsset(<<p, toks[j]>>, lots[toks[j]])
        <3>1. PICK n : n = 3 * j - 2  OBVIOUS
        <3>2. (n + 2) \div 3 = j /\ n % 3 = 1 /\ n % 3 # 2 /\ n % 3 # 0  BY <2>3, <3>1
        <3>3. e(n) = CreateAsset(<<p, toks[j]>>, lots[toks[j]])  BY <3>2, Zenon
        <3> HIDE DEF e
        <3> QED BY <3>1, <3>3
    <2>6. e(3 * j - 1) = LockAsset(<<p, toks[j]>>)
        <3>1. PICK n : n = 3 * j - 1  OBVIOUS
        <3>2. (n + 2) \div 3 = j /\ n % 3 = 2 /\ n % 3 # 1 /\ n % 3 # 0  BY <2>3, <3>1
        <3>3. e(n) = LockAsset(<<p, toks[j]>>)  BY <3>2, Zenon
        <3> HIDE DEF e
        <3> QED BY <3>1, <3>3
    <2>7. e(3 * j) = Recalc(<<p, toks[j]>>)
        <3>1. PICK n : n = 3 * j  OBVIOUS
        <3>2. (n + 2) \div 3 = j /\ n % 3 = 0 /\ n % 3 # 1 /\ n % 3 # 2  BY <2>3, <3>1
        <3>3. e(n) = Recalc(<<p, toks[j]>>)  BY <3>2, Zenon
        <3> HIDE DEF e
        <3> QED BY <3>1, <3>3
    <2> HIDE DEF e
    <2> QED BY <2>2, <2>4, <2>5, <2>6, <2>7
<1> HIDE DEF e
<1>9. \A n \in 1 .. 3 * N : \E j \in 1 .. N : n = 3 * j - 2 \/ n = 3 * j - 1 \/ n = 3 * j
    <2> SUFFICES ASSUME NEW n \in 1 .. 3 * N PROVE \E j \in 1 .. N : n = 3 * j - 2 \/ n = 3 * j - 1 \/ n = 3 * j
        OBVIOUS
    <2>1. (n + 2) \div 3 \in 1 .. N  OBVIOUS
    <2>2. \/ n = 3 * ((n + 2) \div 3) - 2 \/ n = 3 * ((n + 2) \div 3) - 1 \/ n = 3 * ((n + 2) \div 3)
        OBVIOUS
    <2> QED BY <2>1, <2>2
<1>10. B \in Seq(Statements) /\ Len(B) = 3 * N
    <2>1. ASSUME NEW n \in 1 .. 3 * N PROVE B[n] \in Statements
        <3>1. PICK j \in 1 .. N : n = 3 * j - 2 \/ n = 3 * j - 1 \/ n = 3 * j  BY <1>9
        <3>2. PICK k \in Keys : k = <<p, toks[j]>>  BY <1>8
        <3>3. PICK lot \in LotSet : lot = lots[toks[j]]  BY <1>8
        <3>4. CreateAsset(k, lot) \in Statements /\ LockAsset(k) \in Statements /\ Recalc(k) \in Statements
            BY StatementsAre
        <3>5. B[3 * j - 2] = CreateAsset(k, lot) /\ B[3 * j - 1] = LockAsset(k) /\ B[3 * j] = Recalc(k)
            BY <1>8, <3>2, <3>3
        <3> QED BY <3>1, <3>4, <3>5
    <2>2. B \in [1 .. 3 * N -> Statements]  BY <1>5, <2>1
    <2>3. 3 * N \in Nat  OBVIOUS
    <2> QED BY <2>2, <2>3
<1>11. <<Z>> \in Seq(Statements) /\ Len(<<Z>>) = 1 /\ <<Z>>[1] = Z  OBVIOUS
<1>12. PICK q : q = B \o <<Z>>  OBVIOUS
<1>13. /\ q \in Seq(Statements) /\ Len(q) = 3 * N + 1 /\ q[3 * N + 1] = Z
       /\ \A n \in 1 .. 3 * N : q[n] = B[n]
    <2>1. /\ q \in Seq(Statements) /\ Len(q) = Len(B) + Len(<<Z>>)
          /\ \A i \in 1 .. Len(B) + Len(<<Z>>) : q[i] = IF i <= Len(B) THEN B[i] ELSE <<Z>>[i - Len(B)]
        BY <1>10, <1>11, <1>12, ConcatProperties
    <2>2. Len(B) \in Nat /\ Len(<<Z>>) = 1 /\ Len(B) = 3 * N  BY <1>10, <1>11
    <2>3. q[3 * N + 1] = <<Z>>[(3 * N + 1) - Len(B)]  BY <2>1, <2>2
    <2>4. (3 * N + 1) - Len(B) = 1  BY <2>2
    <2> QED BY <1>11, <2>1, <2>2, <2>3, <2>4
<1>14. Z.op = "sum" /\ Z.p = p  BY <1>6 DEF SumPortfolio
<1>15. ASSUME NEW j \in 1 .. N
       PROVE  LET k == <<p, toks[j]>> IN
              /\ k[1] = p /\ k \in Keys
              /\ q[3 * j - 2].op = "createAsset" /\ q[3 * j - 2].k = k
              /\ q[3 * j - 1].op = "lock" /\ q[3 * j - 1].k = k
              /\ q[3 * j].op = "recalc" /\ q[3 * j].k = k
    <2>1. 3 * j - 2 \in 1 .. 3 * N /\ 3 * j - 1 \in 1 .. 3 * N /\ 3 * j \in 1 .. 3 * N  OBVIOUS
    <2>2. q[3 * j - 2] = B[3 * j - 2] /\ q[3 * j - 1] = B[3 * j - 1] /\ q[3 * j] = B[3 * j]  BY <1>13, <2>1
    <2>3. PICK k : k = <<p, toks[j]>>  OBVIOUS
    <2>4. /\ k \in Keys /\ k[1] = p
          /\ q[3 * j - 2] = CreateAsset(k, lots[toks[j]])
          /\ q[3 * j - 1] = LockAsset(k) /\ q[3 * j] = Recalc(k)
        BY <1>8, <2>2, <2>3
    <2> QED BY <2>3, <2>4 DEF CreateAsset, LockAsset, Recalc
<1>16. ASSUME NEW n \in 1 .. 3 * N PROVE HasSum(q, n, p)
    <2>1. 3 * N + 1 \in 1 .. Len(q) /\ 3 * N + 1 > n  BY <1>13
    <2> QED BY <1>13, <1>14, <2>1 DEF HasSum
<1>17. ASSUME NEW j \in 1 .. N, NEW n \in 1 .. Len(q), n = 3 * j - 2 PROVE GoodAt(q, n) /\ FreshAt(q, n)
    <2>1. PICK k \in Keys : k = <<p, toks[j]>>  BY <1>15
    <2>2. q[n].op = "createAsset" /\ q[n].k = k /\ k[1] = p  BY <1>15, <1>17, <2>1
    <2>3. HasSum(q, n, p)  BY <1>16, <1>17
    <2>4. HasRecalc(q, n, k)
        <3>1. 3 * j \in 1 .. Len(q) /\ 3 * j > n  BY <1>13, <1>17
        <3>2. q[3 * j].op = "recalc" /\ q[3 * j].k = k  BY <1>15, <2>1
        <3> QED BY <3>1, <3>2 DEF HasRecalc
    <2> QED BY <2>2, <2>3, <2>4 DEF GoodAt, FreshAt, AssetWriters
<1>18. ASSUME NEW j \in 1 .. N, NEW n \in 1 .. Len(q), n = 3 * j - 1 PROVE GoodAt(q, n) /\ FreshAt(q, n)
    <2>1. q[n].op = "lock"  BY <1>15, <1>18
    <2> QED BY <2>1 DEF GoodAt, FreshAt, AssetWriters
<1>19. ASSUME NEW j \in 1 .. N, NEW n \in 1 .. Len(q), n = 3 * j PROVE GoodAt(q, n) /\ FreshAt(q, n)
    <2>1. PICK k \in Keys : k = <<p, toks[j]>>  BY <1>15
    <2>2. q[n].op = "recalc" /\ q[n].k = k /\ k[1] = p  BY <1>15, <1>19, <2>1
    <2>3. HasSum(q, n, p)  BY <1>16, <1>19
    <2>4. HasMaker(q, n, k)
        <3>1. 3 * j - 2 \in 1 .. Len(q) /\ 3 * j - 2 < n  BY <1>13, <1>19
        <3>2. q[3 * j - 2].op = "createAsset" /\ q[3 * j - 2].k = k  BY <1>15, <2>1
        <3> QED BY <3>1, <3>2 DEF HasMaker
    <2>5. n > 1 /\ q[n - 1].op = "lock" /\ q[n - 1].k = k
        <3>1. n - 1 = 3 * j - 1 /\ n > 1  BY <1>19
        <3>2. q[3 * j - 1].op = "lock" /\ q[3 * j - 1].k = k  BY <1>15, <2>1
        <3> QED BY <3>1, <3>2
    <2> QED BY <2>2, <2>3, <2>4, <2>5 DEF GoodAt, FreshAt, AssetWriters, Backed
<1>20. ASSUME NEW n \in 1 .. Len(q), n = 3 * N + 1 PROVE GoodAt(q, n) /\ FreshAt(q, n)
    <2>1. q[n].op = "sum"  BY <1>13, <1>14, <1>20
    <2> QED BY <2>1 DEF GoodAt, FreshAt, AssetWriters
<1>21. ASSUME NEW n \in 1 .. Len(q) PROVE GoodAt(q, n) /\ FreshAt(q, n)
    <2>1. CASE n \in 1 .. 3 * N
        <3>1. PICK j \in 1 .. N : n = 3 * j - 2 \/ n = 3 * j - 1 \/ n = 3 * j  BY <1>9, <2>1
        <3> QED BY <1>17, <1>18, <1>19, <3>1
    <2>2. CASE n = 3 * N + 1  BY <1>20, <2>2
    <2> QED BY <1>13, <2>1, <2>2
<1> QED BY <1>7, <1>12, <1>13, <1>21 DEF Fresh, Good

\* A statement appended to the writes of an import.
LEMMA WorkGrows ==
    ASSUME "import" \in Kinds, NEW A, NEW ks, NEW ps, Work(A, ks, ps), NEW st \in Statements,
           NEW ks2 \in Seq(Keys), \A k : OneOf(k, ks) => OneOf(k, ks2)
    PROVE  LET B == A \o <<st>> IN
           /\ B \in Seq(Statements) /\ Len(B) = Len(A) + 1 /\ Len(A) \in Nat /\ B[Len(A) + 1] = st
           /\ \A n \in 1 .. Len(A) : B[n] = A[n] /\ WorkAt(B, n, ks2, ps)
           /\ \A k : \A n, m \in Nat : n <= m /\ Backed(A, n, k) => Backed(B, m, k)
<1>1. A \in Seq(Statements) /\ <<st>> \in Seq(Statements) /\ Len(<<st>>) = 1 /\ <<st>>[1] = st  BY DEF Work
<1>2. PICK a \in Nat : a = Len(A)  BY <1>1, LenProperties
<1>3. PICK B : B = A \o <<st>>  OBVIOUS
<1>4. /\ B \in Seq(Statements) /\ Len(B) = a + 1 /\ B[a + 1] = st
      /\ \A n \in 1 .. a : B[n] = A[n]
    <2>1. /\ B \in Seq(Statements) /\ Len(B) = Len(A) + Len(<<st>>)
          /\ \A i \in 1 .. Len(A) + Len(<<st>>) : B[i] = IF i <= Len(A) THEN A[i] ELSE <<st>>[i - Len(A)]
        BY <1>1, <1>3, ConcatProperties
    <2>2. B[a + 1] = <<st>>[(a + 1) - a] /\ (a + 1) - a = 1  BY <1>1, <1>2, <2>1
    <2> QED BY <1>1, <1>2, <2>1, <2>2
<1>5. ASSUME NEW k, NEW n \in Nat, NEW m \in Nat, n <= m, Backed(A, n, k) PROVE Backed(B, m, k)
    <2> SUFFICES ASSUME HasMaker(A, n, k) PROVE HasMaker(B, m, k)  BY <1>5 DEF Backed
    <2>1. PICK i \in 1 .. a : i < n /\ A[i].op \in {"createAsset", "ensureAsset"} /\ A[i].k = k
        BY <1>2 DEF HasMaker
    <2>2. i \in 1 .. Len(B) /\ i < m /\ B[i] = A[i]  BY <1>4, <1>5, <2>1
    <2> QED BY <2>1, <2>2 DEF HasMaker
<1>6. ASSUME NEW n \in 1 .. a PROVE WorkAt(B, n, ks2, ps)
    <2>1. B[n] = A[n] /\ n \in Nat /\ n <= n  BY <1>4
    <2>2. WorkAt(A, n, ks, ps)  BY <1>2 DEF Work
    <2>3. \A k : OneOf(k, ks) => OneOf(k, ks2)  OBVIOUS
    <2>4. \A k : Backed(A, n, k) => Backed(B, n, k)  BY <1>5, <2>1
    <2>5. \A m \in 1 .. Len(A) : m \in 1 .. Len(B) /\ B[m] = A[m]  BY <1>2, <1>4
    <2> QED BY <2>1, <2>2, <2>3, <2>4, <2>5 DEF WorkAt
<1> QED BY <1>2, <1>3, <1>4, <1>5, <1>6

\* What bulkCreateTransactions has prepared after some of the rows of its file.
Prep(p) == {st \in [held : SUBSET Tokens, bal : [Tokens -> Int], rows : Seq(Statements),
                    touched : Seq(Keys), errors : Int] :
               /\ Work(st.rows, st.touched, <<p>>)
               /\ \A t \in st.held : Backed(st.rows, Len(st.rows) + 1, <<p, t>>)}

LEMMA PrepareRowIs ==
    ASSUME "import" \in Kinds, NEW p \in Portfolios, NEW st \in Prep(p), NEW r \in TxRows, r.pf = p, r.group = Null
    PROVE  PrepareRow(st, r) \in Prep(p)
<1>1. /\ st \in [held : SUBSET Tokens, bal : [Tokens -> Int], rows : Seq(Statements),
                 touched : Seq(Keys), errors : Int]
      /\ Work(st.rows, st.touched, <<p>>)
      /\ \A t \in st.held : Backed(st.rows, Len(st.rows) + 1, <<p, t>>)
    BY DEF Prep
<1>2. PICK k \in Keys : k = KeyOf(r) /\ k[1] = p /\ k = <<p, r.tok>> /\ r.tok \in Tokens
    BY KeysAre DEF KeyOf, TxRows
<1> DEFINE held == r.tok \in st.held
           bal  == IF held THEN st.bal[r.tok] ELSE 0
           ok   == r.dir = "buy" \/ (held /\ r.amount <= bal)
           nbal == [st.bal EXCEPT ![r.tok] = IF r.dir = "buy" THEN bal + r.amount ELSE bal - r.amount]
           nrows == st.rows \o (IF held THEN <<>> ELSE <<CreateAsset(KeyOf(r), NoLot)>>) \o <<InsertTx(r)>>
           ntouched == IF \E j \in DOMAIN st.touched : st.touched[j] = KeyOf(r)
                       THEN st.touched ELSE Append(st.touched, KeyOf(r))
<1>3. CASE ~ok
    <2>1. PICK new : new = [st EXCEPT !.errors = @ + 1]  OBVIOUS
    <2>2. /\ new \in [held : SUBSET Tokens, bal : [Tokens -> Int], rows : Seq(Statements),
                      touched : Seq(Keys), errors : Int]
          /\ new.held = st.held /\ new.rows = st.rows /\ new.touched = st.touched
        BY <1>1, <2>1
    <2>3. PrepareRow(st, r) = new  BY <1>3, <2>1 DEF PrepareRow
    <2> QED BY <1>1, <2>2, <2>3 DEF Prep
<1>4. CASE ok
    <2>1. PrepareRow(st, r) = [held |-> st.held \cup {r.tok}, bal |-> nbal, rows |-> nrows,
                               touched |-> ntouched, errors |-> st.errors]
        BY <1>4 DEF PrepareRow
    <2>2. nbal \in [Tokens -> Int]
        <3>1. bal \in Int /\ r.amount \in Nat  BY <1>1, <1>2 DEF TxRows
        <3> QED BY <1>1, <1>2, <3>1
    <2>3. PICK ks : ks = st.touched  OBVIOUS
    <2>4. ks \in Seq(Keys) /\ DOMAIN ks = 1 .. Len(ks) /\ Len(ks) \in Nat  BY <1>1, <2>3, LenProperties
    <2>5. PICK ks2 : ks2 = ntouched  OBVIOUS
    <2>6. /\ ks2 \in Seq(Keys) /\ OneOf(k, ks2)
          /\ \A j \in 1 .. Len(ks2) : OneOf(ks2[j], ks) \/ ks2[j] = k
          /\ \A x : OneOf(x, ks) => OneOf(x, ks2)
        <3>1. CASE \E j \in DOMAIN ks : ks[j] = k
            <4>1. ks2 = ks  BY <1>2, <2>3, <2>5, <3>1
            <4> QED BY <2>4, <3>1, <4>1 DEF OneOf
        <3>2. CASE ~(\E j \in DOMAIN ks : ks[j] = k)
            <4>1. ks2 = Append(ks, k)  BY <1>2, <2>3, <2>5, <3>2
            <4>2. /\ ks2 \in Seq(Keys) /\ Len(ks2) = Len(ks) + 1 /\ ks2[Len(ks) + 1] = k
                  /\ \A j \in 1 .. Len(ks) : ks2[j] = ks[j]
                BY <2>4, <4>1, AppendProperties
            <4>3. \A j \in 1 .. Len(ks2) : j \in 1 .. Len(ks) \/ j = Len(ks) + 1  BY <2>4, <4>2
            <4>4. \A j \in 1 .. Len(ks) : j \in 1 .. Len(ks2)  BY <2>4, <4>2
            <4>5. Len(ks) + 1 \in 1 .. Len(ks2)  BY <2>4, <4>2
            <4> QED BY <4>2, <4>3, <4>4, <4>5 DEF OneOf
        <3> QED BY <3>1, <3>2
    <2>7. PICK A : A = st.rows  OBVIOUS
    <2>8. Work(A, ks, <<p>>) /\ A \in Seq(Statements) /\ <<p>> \in Seq(Portfolios)  BY <1>1, <2>3, <2>7 DEF Work
    <2>9. OneOf(p, <<p>>)  BY OneOfOne
    <2>10. PICK I \in Statements : I = InsertTx(r) /\ I.op = "insertTx" /\ I.r = r
        BY TxStatementsAre DEF InsertTx
    <2>11. ASSUME NEW A1, Work(A1, ks2, <<p>>), Backed(A1, Len(A1) + 1, k),
                  \A t \in st.held : Backed(A1, Len(A1) + 1, <<p, t>>), nrows = A1 \o <<I>>
           PROVE  PrepareRow(st, r) \in Prep(p)
        <3>1. PICK B : B = A1 \o <<I>>  OBVIOUS
        <3>2. /\ B \in Seq(Statements) /\ Len(B) = Len(A1) + 1 /\ Len(A1) \in Nat /\ B[Len(A1) + 1] = I
              /\ \A n \in 1 .. Len(A1) : B[n] = A1[n] /\ WorkAt(B, n, ks2, <<p>>)
              /\ \A x : \A n, m \in Nat : n <= m /\ Backed(A1, n, x) => Backed(B, m, x)
            BY <2>6, <2>11, <3>1, WorkGrows
        <3>3. \A x : Backed(A1, Len(A1) + 1, x) => Backed(B, Len(A1) + 1, x) /\ Backed(B, Len(B) + 1, x)
            <4>1. Len(A1) + 1 \in Nat /\ Len(B) + 1 \in Nat /\ Len(A1) + 1 <= Len(B) + 1
                  /\ Len(A1) + 1 <= Len(A1) + 1
                BY <3>2
            <4> QED BY <3>2, <4>1
        <3>4. WorkAt(B, Len(A1) + 1, ks2, <<p>>)
            <4>1. Backed(B, Len(A1) + 1, KeyOf(r))  BY <1>2, <2>11, <3>3
            <4>2. PICK n : n = Len(A1) + 1  OBVIOUS
            <4>3. B[n].op = "insertTx" /\ B[n].r = r  BY <2>10, <3>2, <4>2
            <4>4. OneOf(KeyOf(r), ks2) /\ Backed(B, n, KeyOf(r))  BY <1>2, <2>6, <4>1, <4>2
            <4>5. WorkAt(B, n, ks2, <<p>>)  BY <4>3, <4>4 DEF WorkAt
            <4> QED BY <4>2, <4>5
        <3>5. \A n \in 1 .. Len(B) : n \in 1 .. Len(A1) \/ n = Len(A1) + 1  BY <3>2
        <3>6. \A n \in 1 .. Len(B) : WorkAt(B, n, ks2, <<p>>)  BY <3>2, <3>4, <3>5
        <3>7. \A j \in 1 .. Len(ks2) : OneOf(ks2[j][1], <<p>>) /\ Backed(A1, Len(A1) + 1, ks2[j])
            BY <2>11 DEF Work
        <3>8. Work(B, ks2, <<p>>)  BY <2>6, <2>8, <3>2, <3>3, <3>6, <3>7 DEF Work
        <3>9. \A t \in st.held \cup {r.tok} : Backed(B, Len(B) + 1, <<p, t>>)
            <4> SUFFICES ASSUME NEW t \in st.held \cup {r.tok} PROVE Backed(B, Len(B) + 1, <<p, t>>)  OBVIOUS
            <4>1. CASE t = r.tok  BY <1>2, <2>11, <3>3, <4>1
            <4>2. CASE t \in st.held  BY <2>11, <3>3, <4>2
            <4> QED BY <4>1, <4>2
        <3>10. PICK new : new = PrepareRow(st, r)  OBVIOUS
        <3>11. /\ new = [held |-> st.held \cup {r.tok}, bal |-> nbal, rows |-> B, touched |-> ks2,
                         errors |-> st.errors]
            BY <2>1, <2>5, <2>11, <3>1, <3>10
        <3>12. st.held \cup {r.tok} \in SUBSET Tokens /\ st.errors \in Int  BY <1>1, <1>2
        <3> HIDE DEF nbal
        <3>13. /\ new \in [held : SUBSET Tokens, bal : [Tokens -> Int], rows : Seq(Statements),
                           touched : Seq(Keys), errors : Int]
               /\ new.held = st.held \cup {r.tok} /\ new.rows = B /\ new.touched = ks2
            BY <2>2, <2>6, <3>2, <3>11, <3>12
        <3> QED BY <3>8, <3>9, <3>10, <3>13 DEF Prep
    <2>12. CASE held
        <3>1. nrows = (A \o <<>>) \o <<I>>  BY <2>7, <2>10, <2>12
        <3>2. nrows = A \o <<I>>  BY <2>8, <3>1, ConcatEmptySeq
        <3>3. Backed(A, Len(A) + 1, k)  BY <1>1, <1>2, <2>7, <2>12
        <3>4. \A t \in st.held : Backed(A, Len(A) + 1, <<p, t>>)  BY <1>1, <2>7
        <3>5. Work(A, ks2, <<p>>)
            <4>1. \A j \in 1 .. Len(ks) : OneOf(ks[j][1], <<p>>) /\ Backed(A, Len(A) + 1, ks[j])
                BY <2>8 DEF Work
            <4>2. \A x : OneOf(x, ks) => OneOf(x[1], <<p>>) /\ Backed(A, Len(A) + 1, x)  BY <4>1 DEF OneOf
            <4>3. \A j \in 1 .. Len(ks2) : OneOf(ks2[j][1], <<p>>) /\ Backed(A, Len(A) + 1, ks2[j])
                BY <1>2, <2>6, <2>9, <3>3, <4>2
            <4>4. \A n \in 1 .. Len(A) : WorkAt(A, n, ks2, <<p>>)
                <5> SUFFICES ASSUME NEW n \in 1 .. Len(A) PROVE WorkAt(A, n, ks2, <<p>>)  OBVIOUS
                <5>1. WorkAt(A, n, ks, <<p>>)  BY <2>8 DEF Work
                <5>2. \A x : OneOf(x, ks) => OneOf(x, ks2)  BY <2>6
                <5> QED BY <5>1, <5>2 DEF WorkAt
            <4> QED BY <2>6, <2>8, <4>3, <4>4 DEF Work
        <3> QED BY <2>11, <3>2, <3>3, <3>4, <3>5
    <2>13. CASE ~held
        <3>1. CreateAsset(k, NoLot) \in Statements
            <4>1. NoLot \in LotSet  BY DEF NoLot, LotSet
            <4> QED BY <4>1, StatementsAre
        <3>2. PICK C \in Statements : C = CreateAsset(k, NoLot) /\ C.op = "createAsset" /\ C.k = k
            BY <3>1 DEF CreateAsset
        <3>3. PICK A1 : A1 = A \o <<C>>  OBVIOUS
        <3>4. nrows = A1 \o <<I>>  BY <1>2, <2>7, <2>10, <2>13, <3>2, <3>3
        <3>5. /\ A1 \in Seq(Statements) /\ Len(A1) = Len(A) + 1 /\ Len(A) \in Nat /\ A1[Len(A) + 1] = C
              /\ \A n \in 1 .. Len(A) : A1[n] = A[n] /\ WorkAt(A1, n, ks2, <<p>>)
              /\ \A x : \A n, m \in Nat : n <= m /\ Backed(A, n, x) => Backed(A1, m, x)
            BY <2>6, <2>8, <3>2, <3>3, WorkGrows
        <3>6. Backed(A1, Len(A1) + 1, k)
            <4>1. Len(A) + 1 \in 1 .. Len(A1) /\ Len(A) + 1 < Len(A1) + 1  BY <3>5
            <4> QED BY <3>2, <3>5, <4>1 DEF Backed, HasMaker
        <3>7. \A x : Backed(A, Len(A) + 1, x) => Backed(A1, Len(A1) + 1, x)
            <4>1. Len(A) + 1 \in Nat /\ Len(A1) + 1 \in Nat /\ Len(A) + 1 <= Len(A1) + 1  BY <3>5
            <4> QED BY <3>5, <4>1
        <3>8. WorkAt(A1, Len(A) + 1, ks2, <<p>>)
            <4>1. PICK n : n = Len(A) + 1  OBVIOUS
            <4>2. A1[n].op = "createAsset" /\ A1[n].k = k  BY <3>2, <3>5, <4>1
            <4>3. OneOf(k, ks2) /\ OneOf(k[1], <<p>>)  BY <1>2, <2>6, <2>9
            <4>4. WorkAt(A1, n, ks2, <<p>>)  BY <4>2, <4>3 DEF WorkAt
            <4> QED BY <4>1, <4>4
        <3>9. \A n \in 1 .. Len(A1) : n \in 1 .. Len(A) \/ n = Len(A) + 1  BY <3>5
        <3>10. \A n \in 1 .. Len(A1) : WorkAt(A1, n, ks2, <<p>>)  BY <3>5, <3>8, <3>9
        <3>11. \A j \in 1 .. Len(ks2) : OneOf(ks2[j][1], <<p>>) /\ Backed(A1, Len(A1) + 1, ks2[j])
            <4>1. \A j \in 1 .. Len(ks) : OneOf(ks[j][1], <<p>>) /\ Backed(A, Len(A) + 1, ks[j])
                BY <2>8 DEF Work
            <4>2. \A x : OneOf(x, ks) => OneOf(x[1], <<p>>) /\ Backed(A, Len(A) + 1, x)  BY <4>1 DEF OneOf
            <4> QED BY <1>2, <2>6, <2>9, <3>6, <3>7, <4>2
        <3>12. Work(A1, ks2, <<p>>)  BY <2>6, <2>8, <3>5, <3>10, <3>11 DEF Work
        <3>13. \A t \in st.held : Backed(A1, Len(A1) + 1, <<p, t>>)  BY <1>1, <2>7, <3>7
        <3> QED BY <2>11, <3>4, <3>6, <3>12, <3>13
    <2> QED BY <2>12, <2>13
<1> QED BY <1>3, <1>4

\* The loop over the rows of the file ends in such a state.
LEMMA PreparedIs ==
    ASSUME Tables, "import" \in Kinds, NEW p \in Portfolios, NEW N \in Nat, NEW file \in [1 .. N -> FileRows(p)]
    PROVE  Prepared(p, file) \in Prep(p)
<1>1. PICK base : base = [held |-> {t \in Tokens : asset[<<p, t>>] # Null},
                          bal |-> [t \in Tokens |-> IF asset[<<p, t>>] = Null THEN 0
                                                    ELSE asset[<<p, t>>].pos.balance],
                          rows |-> <<>>, touched |-> <<>>, errors |-> 0]
    OBVIOUS
<1>2. base \in Prep(p)
    <2>1. {t \in Tokens : asset[<<p, t>>] # Null} \in SUBSET Tokens /\ 0 \in Int  OBVIOUS
    <2>2. [t \in Tokens |-> IF asset[<<p, t>>] = Null THEN 0 ELSE asset[<<p, t>>].pos.balance] \in [Tokens -> Int]
        <3>1. \A t \in Tokens : asset[<<p, t>>] # Null => asset[<<p, t>>].pos.balance \in Int
            BY KeysAre DEF Tables, AssetRows, Positions
        <3> QED BY <3>1
    <2>3. <<>> \in Seq(Statements) /\ <<>> \in Seq(Keys) /\ Len(<<>>) = 0 /\ <<p>> \in Seq(Portfolios)  OBVIOUS
    <2>4. PICK bal \in [Tokens -> Int] :
             bal = [t \in Tokens |-> IF asset[<<p, t>>] = Null THEN 0 ELSE asset[<<p, t>>].pos.balance]
        BY <2>2
    <2>5. /\ base \in [held : SUBSET Tokens, bal : [Tokens -> Int], rows : Seq(Statements),
                       touched : Seq(Keys), errors : Int]
          /\ base.held = {t \in Tokens : asset[<<p, t>>] # Null} /\ base.rows = <<>> /\ base.touched = <<>>
        BY <1>1, <2>1, <2>3, <2>4
    <2>6. \A j \in 1 .. Len(<<>>) : FALSE  BY <2>3
    <2>7. Work(<<>>, <<>>, <<p>>)  BY <2>3, <2>6 DEF Work
    <2>8. \A t \in base.held : Backed(base.rows, Len(base.rows) + 1, <<p, t>>)  BY <2>5 DEF Backed
    <2> QED BY <2>5, <2>7, <2>8 DEF Prep
<1>3. PICK D : D = 1 .. N  OBVIOUS
<1>4. DOMAIN file = D /\ IsFiniteSet(D)  BY <1>3, FS_Interval
<1>5. \A i \in D : file[i] \in TxRows /\ file[i].pf = p /\ file[i].group = Null
    <2> SUFFICES ASSUME NEW r \in FileRows(p) PROVE r \in TxRows /\ r.pf = p /\ r.group = Null  BY <1>3
    <2>1. PICK t \in Tokens, dir \in {"buy", "sell"}, a \in Amounts, price \in Prices, ts \in Times :
             r = Row(p, t, dir, a, a * price, ts, Null)
        BY DEF FileRows
    <2>2. a \in Nat /\ price \in Nat /\ ts \in Nat  BY LedgerAssumption
    <2>3. a * price \in Int  BY <2>2
    <2>4. PICK u \in Int : u = a * price  BY <2>3
    <2> QED BY <2>1, <2>2, <2>4 DEF Row, TxRows, Directions
<1> DEFINE V == Prep(p)
           Step(f, T) == IF T = {} THEN base ELSE PrepareRow(f[T \ {Max(T)}], file[Max(T)])
           f == CHOOSE g : g = [T \in SUBSET D |-> Step(g, T)]
           c == [T \in SUBSET D |-> Max(T)]
           h == [z \in D \X V |-> PrepareRow(z[2], file[z[1]])]
<1>6. \A T \in SUBSET D : T # {} => Max(T) \in T
    <2> DEFINE G == {T \in SUBSET D : T # {} => \E m \in T : \A y \in T : m >= y}
    <2>1. ASSUME NEW T \in SUBSET D, \A x \in T : T \ {x} \in G PROVE T \in G
        <3> SUFFICES ASSUME T # {} PROVE \E m \in T : \A y \in T : m >= y  OBVIOUS
        <3>1. \A y \in T : y \in Int  BY <1>3
        <3>2. PICK x \in T : TRUE  OBVIOUS
        <3>3. CASE T \ {x} = {}  BY <3>1, <3>2, <3>3
        <3>4. CASE T \ {x} # {}
            <4>1. PICK m \in T \ {x} : \A y \in T \ {x} : m >= y  BY <2>1, <3>2, <3>4
            <4>2. CASE m >= x  BY <4>1, <4>2
            <4>3. CASE ~(m >= x)  BY <3>1, <3>2, <4>1, <4>3
            <4> QED BY <4>2, <4>3
        <3> QED BY <3>3, <3>4
    <2>2. \A T \in SUBSET D : T \in G
        <3> HIDE DEF G
        <3> QED BY <1>4, <2>1, SubsetInduction
    <2> QED BY <2>2 DEF Max
<1>7. \A x \in D, v \in V : h[<<x, v>>] = PrepareRow(v, file[x]) /\ h[<<x, v>>] \in V
    BY <1>5, PrepareRowIs
<1>8. \E g \in [SUBSET D -> V] : IsFold(g, D, base, c, h)
    <2>1. Picks(c, D)  BY <1>6 DEF Picks
    <2>2. h \in [D \X V -> V]  BY <1>5, PrepareRowIs
    <2> HIDE DEF c, h, f, Step, V
    <2>3. base \in V  BY <1>2 DEF V
    <2> QED BY <1>4, <2>1, <2>2, <2>3, FoldIsDefined
<1> HIDE DEF V
<1>9. PICK g \in [SUBSET D -> V] :
         \A T \in SUBSET D : g[T] = IF T = {} THEN base ELSE h[<<c[T], g[T \ {c[T]}]>>]
    BY <1>8 DEF IsFold
<1>10. \A T \in SUBSET D : g[T] \in V  BY <1>9
<1>11. \A T \in SUBSET D : g[T] = Step(g, T)
    <2> SUFFICES ASSUME NEW T \in SUBSET D PROVE g[T] = Step(g, T)  OBVIOUS
    <2>1. CASE T = {}  BY <1>9, <2>1
    <2>2. CASE T # {}
        <3>1. c[T] = Max(T) /\ Max(T) \in D /\ T \ {Max(T)} \in SUBSET D  BY <1>6, <2>2
        <3>2. g[T] = h[<<Max(T), g[T \ {Max(T)}]>>]  BY <1>9, <2>2, <3>1
        <3> HIDE DEF h, c
        <3> QED BY <1>7, <1>10, <2>2, <3>1, <3>2
    <2> QED BY <2>1, <2>2
<1>12. g = [T \in SUBSET D |-> Step(g, T)]
    <2>1. g = [T \in SUBSET D |-> g[T]]  BY <1>9
    <2> HIDE DEF Step
    <2> QED BY <1>11, <2>1
<1>13. f = [T \in SUBSET D |-> Step(f, T)]
    <2> HIDE DEF Step
    <2> QED BY <1>12, Zenon
<1>14. \A T \in SUBSET D : f[T] \in V
    <2> DEFINE G == {T \in SUBSET D : f[T] \in V}
    <2>1. ASSUME NEW T \in SUBSET D, \A x \in T : T \ {x} \in G PROVE T \in G
        <3>0. f[T] = Step(f, T)
            <4> HIDE DEF f, Step
            <4> QED BY <1>13
        <3> HIDE DEF f
        <3>1. CASE T = {}  BY <1>2, <3>0, <3>1 DEF V
        <3>2. CASE T # {}
            <4>1. Max(T) \in T /\ Max(T) \in D  BY <1>6, <3>2
            <4>2. f[T \ {Max(T)}] \in V  BY <2>1, <4>1
            <4>3. PrepareRow(f[T \ {Max(T)}], file[Max(T)]) \in V  BY <1>5, <4>1, <4>2, PrepareRowIs DEF V
            <4> QED BY <3>0, <3>2, <4>3
        <3> QED BY <3>1, <3>2
    <2> HIDE DEF G
    <2>2. \A T \in SUBSET D : T \in G  BY <1>4, <2>1, SubsetInduction
    <2> QED BY <2>2 DEF G
<1>15. Prepared(p, file) = f[D]  BY <1>1, <1>4 DEF Prepared, FoldLeft, MapThenFoldSet
<1> HIDE DEF f
<1> QED BY <1>14, <1>15 DEF V

LEMMA ImportFresh ==
    ASSUME Tables, "import" \in Kinds, NEW p \in Portfolios, NEW N \in Nat, NEW file \in [1 .. N -> FileRows(p)]
    PROVE  Fresh(ImportProgram(p, Prepared(p, file)))
<1>1. PICK st : st = Prepared(p, file)  OBVIOUS
<1>2. Work(st.rows, st.touched, <<p>>)  BY <1>1, PreparedIs DEF Prep
<1>3. [j \in 1 .. Len(<<p>>) |-> SumPortfolio(<<p>>[j])] = <<SumPortfolio(p)>>
    <2>1. PICK t \in Seq(Portfolios) : t = <<p>> /\ Len(t) = 1 /\ t[1] = p  BY Single
    <2>2. [j \in 1 .. 1 |-> SumPortfolio(t[j])] = <<SumPortfolio(t[1])>>  OBVIOUS
    <2> QED BY <2>1, <2>2
<1>4. ImportProgram(p, st) = Plan(st.rows, st.touched, <<p>>)  BY <1>3 DEF ImportProgram, Plan
<1> QED BY <1>1, <1>2, <1>4, PlanFresh

\* Every request begins its transaction with a fresh program.
LEMMA RequestStarts ==
    ASSUME Tables, NEW s \in Slots, Request(s)
    PROVE  s \notin active /\ \E q : Fresh(q) /\ Begin(s, q)
<1>1. ASSUME NEW kind, MayBegin(s, kind) PROVE kind \in Kinds /\ s \notin active  BY <1>1 DEF MayBegin
<1>2. CASE CreateTransaction(s)
    <2>1. PICK k \in Keys, dir \in Directions, a \in Amounts, price \in Prices, ts \in Times :
             /\ dir # "buy" => asset[k] # Null
             /\ Begin(s, CreateProgram(Row(k[1], k[2], dir, a, a * price, ts, Null), asset[k] # Null))
        BY <1>2 DEF CreateTransaction
    <2>2. Fresh(CreateProgram(Row(k[1], k[2], dir, a, a * price, ts, Null), asset[k] # Null))
        BY <2>1, CreateFresh
    <2> QED BY <1>1, <1>2, <2>1, <2>2 DEF CreateTransaction
<1>3. CASE Amend(s)
    <2>1. PICK i \in Ids : txs[i] # Null /\ txs[i].group = Null /\ \E ch \in Amendments(txs[i]) :
             Begin(s, <<UpdateTx(i, ch)>> \o Settle(KeyOf(txs[i])))
        BY <1>3 DEF Amend
    <2>2. PICK ch \in Amendments(txs[i]) : Begin(s, <<UpdateTx(i, ch)>> \o Settle(KeyOf(txs[i])))  BY <2>1
    <2>3. Fresh(<<UpdateTx(i, ch)>> \o Settle(KeyOf(txs[i])))  BY <2>1, AmendFresh
    <2> QED BY <1>1, <1>3, <2>2, <2>3 DEF Amend
<1>4. CASE Retoken(s)
    <2>1. PICK i \in Ids : txs[i] # Null /\ txs[i].group = Null /\ \E ch \in Retokenings(txs[i]) :
             /\ asset[<<txs[i].pf, ch.tok>>] # Null
             /\ Begin(s, <<UpdateTx(i, ch)>> \o RecalcAsset(KeyOf(txs[i])) \o Settle(<<txs[i].pf, ch.tok>>))
        BY <1>4 DEF Retoken
    <2>2. PICK ch \in Retokenings(txs[i]) :
             /\ asset[<<txs[i].pf, ch.tok>>] # Null
             /\ Begin(s, <<UpdateTx(i, ch)>> \o RecalcAsset(KeyOf(txs[i])) \o Settle(<<txs[i].pf, ch.tok>>))
        BY <2>1
    <2>3. "retoken" \in Kinds  BY <1>1, <1>4 DEF Retoken
    <2>4. Fresh(<<UpdateTx(i, ch)>> \o RecalcAsset(KeyOf(txs[i])) \o Settle(<<txs[i].pf, ch.tok>>))
        BY <2>1, <2>2, <2>3, RetokenFresh
    <2> QED BY <1>1, <1>4, <2>2, <2>4 DEF Retoken
<1>5. CASE Retime(s)
    <2>1. PICK i \in Ids : txs[i] # Null /\ txs[i].group = Null /\ \E ch \in Retimings : Begin(s, <<UpdateTx(i, ch)>>)
        BY <1>5 DEF Retime
    <2>2. PICK ch \in Retimings : Begin(s, <<UpdateTx(i, ch)>>)  BY <2>1
    <2>3. "retime" \in Kinds  BY <1>1, <1>5 DEF Retime
    <2>4. Fresh(<<UpdateTx(i, ch)>>)  BY <2>1, <2>3, RetimeFresh
    <2> QED BY <1>1, <1>5, <2>2, <2>4 DEF Retime
<1>6. CASE DeleteTransaction(s)
    <2>1. PICK i \in Ids : txs[i] # Null /\ \E legs \in SetToSeqs(LegsOf(i)) : Begin(s, DeleteProgram(legs))
        BY <1>6 DEF DeleteTransaction
    <2>2. PICK legs \in SetToSeqs(LegsOf(i)) : Begin(s, DeleteProgram(legs))  BY <2>1
    <2>3. Fresh(DeleteProgram(legs))  BY <2>1, DeleteFresh
    <2> QED BY <1>1, <1>6, <2>2, <2>3 DEF DeleteTransaction
<1>7. CASE Transfer(s)
    <2>1. PICK k \in Keys, d \in Portfolios, a \in Amounts, ts \in Times :
             d # k[1] /\ Begin(s, <<LockAsset(k), Carry(k, d, a, ts)>>)
        BY <1>7 DEF Transfer
    <2>2. Fresh(<<LockAsset(k), Carry(k, d, a, ts)>>)  BY <2>1, TransferFresh
    <2> QED BY <1>1, <1>7, <2>1, <2>2 DEF Transfer
<1>8. CASE ImportTransactions(s)
    <2>1. PICK p \in Portfolios, N \in 1 .. MaxRows : \E file \in [1 .. N -> FileRows(p)] :
             Begin(s, ImportProgram(p, Prepared(p, file)))
        BY <1>8 DEF ImportTransactions
    <2>2. PICK file \in [1 .. N -> FileRows(p)] : Begin(s, ImportProgram(p, Prepared(p, file)))  BY <2>1
    <2>3. "import" \in Kinds /\ N \in Nat  BY <1>1, <1>8, LedgerAssumption DEF ImportTransactions
    <2>4. Fresh(ImportProgram(p, Prepared(p, file)))  BY <2>3, ImportFresh
    <2> QED BY <1>1, <1>8, <2>2, <2>4 DEF ImportTransactions
<1>9. CASE AddAsset(s)
    <2>1. PICK k \in Keys, lot \in Lots : Begin(s, <<CreateAsset(k, lot)>> \o Settle(k))
        BY <1>9 DEF AddAsset
    <2>2. Fresh(<<CreateAsset(k, lot)>> \o Settle(k))  BY AddFresh
    <2> QED BY <1>1, <1>9, <2>1, <2>2 DEF AddAsset
<1>10. CASE OpenAssets(s)
    <2>1. PICK p \in Portfolios, S \in SUBSET Tokens : \E toks \in SetToSeqs(S), lots \in [S -> Lots] :
             Begin(s, OpenProgram(p, toks, lots))
        BY <1>10 DEF OpenAssets
    <2>2. PICK toks \in SetToSeqs(S), lots \in [S -> Lots] : Begin(s, OpenProgram(p, toks, lots))  BY <2>1
    <2>3. Fresh(OpenProgram(p, toks, lots))  BY OpenFresh
    <2> QED BY <1>1, <1>10, <2>2, <2>3 DEF OpenAssets
<1>11. CASE UpdateAsset(s)
    <2>1. PICK k \in Keys : asset[k] # Null /\
             \E lot \in Lots \cup {Rescaled(asset[k].lot, a) : a \in Amounts} \cup LotsOf(asset[k].lot.qty) :
                Begin(s, <<UpdateLot(k, asset[k].id, lot)>> \o Settle(k))
        BY <1>11 DEF UpdateAsset
    <2>2. PICK lot \in Lots \cup {Rescaled(asset[k].lot, a) : a \in Amounts} \cup LotsOf(asset[k].lot.qty) :
             Begin(s, <<UpdateLot(k, asset[k].id, lot)>> \o Settle(k))
        BY <2>1
    <2>3. Fresh(<<UpdateLot(k, asset[k].id, lot)>> \o Settle(k))  BY <2>1, LotFresh
    <2> QED BY <1>1, <1>11, <2>2, <2>3 DEF UpdateAsset
<1>12. CASE OverrideNet(s)
    <2>1. PICK k \in Keys, v \in Amounts : asset[k] # Null /\ Begin(s, <<UpdateNet(k, asset[k].id, v)>>)
        BY <1>12 DEF OverrideNet
    <2>2. "net" \in Kinds  BY <1>1, <1>12 DEF OverrideNet
    <2>3. Fresh(<<UpdateNet(k, asset[k].id, v)>>)  BY <2>1, <2>2, OverrideFresh
    <2> QED BY <1>1, <1>12, <2>1, <2>3 DEF OverrideNet
<1>13. CASE RemoveAsset(s)
    <2>1. PICK k \in Keys : asset[k] # Null /\ Begin(s, <<DeleteAsset(k, asset[k].id), SumPortfolio(k[1])>>)
        BY <1>13 DEF RemoveAsset
    <2>2. "remove" \in Kinds  BY <1>1, <1>13 DEF RemoveAsset
    <2>3. Fresh(<<DeleteAsset(k, asset[k].id), SumPortfolio(k[1])>>)  BY <2>1, <2>2, RemoveFresh
    <2> QED BY <1>1, <1>13, <2>1, <2>3 DEF RemoveAsset
<1> QED BY <1>2, <1>3, <1>4, <1>5, <1>6, <1>7, <1>8, <1>9, <1>10, <1>11, <1>12, <1>13 DEF Request
=============================================================================
