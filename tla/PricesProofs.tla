---------------------------- MODULE PricesProofs ----------------------------
(* Proofs about Prices, for any set of exchanges, quotes, TTL, ratio and length of the pipeline
   queue: what the firehose shows is what the cache serves, a served price is recent, and a
   majority of the exchanges cannot be outvoted by a bad print. *)
EXTENDS Prices, FiniteSetTheorems, SequenceTheorems, TLAPS

-----------------------------------------------------------------------------
(* The inductive invariant *)

Replies == [price : Quotes, born : 0..1]
Writes == [price : Quotes, born : 0..1, pub : BOOLEAN]
Canonicals == [price : Quotes, age : 0..Ttl, born : Nat, by : {"resolver", "cmc"}]

\* A tick is a quote; a reply and a write carry a quote that was in the staleness window.
Types ==
    /\ ticks \in [Sources -> [price : Prices0, age : 0..Ttl]]
    /\ \A s \in Sources : ticks[s] # NoTick => ticks[s].price \in Quotes
    /\ replies \in Seq(Replies) /\ writes \in Seq(Writes)
    /\ last \in Prices0 /\ heard \in Prices0 /\ lost \in BOOLEAN
    /\ canonical = NoPrice \/ canonical \in Canonicals

\* The key ages with the quote it was written from.
Recent == canonical # NoPrice => canonical.born <= 1 + canonical.age

\* A write without a frame repeats the price of the one before it; the first of the queue repeats
\* the last frame, unless that one was lost.
Repeats == \A i \in 2..Len(writes) : ~writes[i].pub => writes[i].price = writes[i - 1].price
Follows == (writes # <<>> /\ ~writes[1].pub) => (lost \/ heard = writes[1].price)

\* The bookkeeping is forgotten, or it is the price of the last write sent: once the queue is
\* drained, that of the last frame.
Stamped == last # 0 => IF writes # <<>> THEN last = writes[Len(writes)].price
                       ELSE lost \/ heard = last

\* With pipelines under way as well.
Framed == (canonical.by = "resolver" /\ ~lost) => heard = canonical.price

IInv == Types /\ Recent /\ Repeats /\ Follows /\ Stamped /\ Framed

-----------------------------------------------------------------------------
(* What a first pipeline resolves to *)

Ranked == {"binance", "coinbase", "okx", "bybit", "gate", "kucoin", "kraken"}
TickSet == [price : Prices0, age : 0..Ttl]
Ticks == {t \in [Sources -> TickSet] : \A s \in Sources : t[s] # NoTick => t[s].price \in Quotes}

LEMMA PriorityIsNat == \A s \in Ranked : SOURCE_PRIORITY[s] \in Nat
BY DEF Ranked, SOURCE_PRIORITY

LEMMA SomeoneIsFirst ==
    ASSUME NEW C \in SUBSET Ranked, C # {}
    PROVE  \E s \in C : \A o \in C : SOURCE_PRIORITY[s] <= SOURCE_PRIORITY[o]
<1>1. /\ SOURCE_PRIORITY["binance"] = 0 /\ SOURCE_PRIORITY["coinbase"] = 1 /\ SOURCE_PRIORITY["okx"] = 2
      /\ SOURCE_PRIORITY["bybit"] = 3 /\ SOURCE_PRIORITY["gate"] = 4 /\ SOURCE_PRIORITY["kucoin"] = 5
      /\ SOURCE_PRIORITY["kraken"] = 6
    BY DEF SOURCE_PRIORITY
<1>2. CASE "binance" \in C
    <2>1. \A o \in C : SOURCE_PRIORITY["binance"] <= SOURCE_PRIORITY[o]  BY <1>1, <1>2 DEF Ranked
    <2> QED BY <2>1, <1>2
<1>3. CASE "binance" \notin C /\ "coinbase" \in C
    <2>1. \A o \in C : SOURCE_PRIORITY["coinbase"] <= SOURCE_PRIORITY[o]  BY <1>1, <1>3 DEF Ranked
    <2> QED BY <2>1, <1>3
<1>4. CASE C \cap {"binance", "coinbase"} = {} /\ "okx" \in C
    <2>1. \A o \in C : SOURCE_PRIORITY["okx"] <= SOURCE_PRIORITY[o]  BY <1>1, <1>4 DEF Ranked
    <2> QED BY <2>1, <1>4
<1>5. CASE C \cap {"binance", "coinbase", "okx"} = {} /\ "bybit" \in C
    <2>1. \A o \in C : SOURCE_PRIORITY["bybit"] <= SOURCE_PRIORITY[o]  BY <1>1, <1>5 DEF Ranked
    <2> QED BY <2>1, <1>5
<1>6. CASE C \cap {"binance", "coinbase", "okx", "bybit"} = {} /\ "gate" \in C
    <2>1. \A o \in C : SOURCE_PRIORITY["gate"] <= SOURCE_PRIORITY[o]  BY <1>1, <1>6 DEF Ranked
    <2> QED BY <2>1, <1>6
<1>7. CASE C \cap {"binance", "coinbase", "okx", "bybit", "gate"} = {} /\ "kucoin" \in C
    <2>1. \A o \in C : SOURCE_PRIORITY["kucoin"] <= SOURCE_PRIORITY[o]  BY <1>1, <1>7 DEF Ranked
    <2> QED BY <2>1, <1>7
<1>8. CASE C \cap {"binance", "coinbase", "okx", "bybit", "gate", "kucoin"} = {} /\ "kraken" \in C
    <2>1. \A o \in C : SOURCE_PRIORITY["kraken"] <= SOURCE_PRIORITY[o]  BY <1>1, <1>8 DEF Ranked
    <2> QED BY <2>1, <1>8
<1> QED BY <1>2, <1>3, <1>4, <1>5, <1>6, <1>7, <1>8 DEF Ranked

\* Kraken's quote is that of one of its channels, and there is one when either has a fresh tick.
LEMMA MergedKraken ==
    ASSUME NEW t \in Ticks
    PROVE  /\ mergedKraken(t) # NoTick =>
                \E k \in Sources : isFresh(t, k) /\ mergedKraken(t) = t[k]
           /\ \A k \in Sources \cap {"kraken", "kraken_bbo"} : isFresh(t, k) => mergedKraken(t) # NoTick
BY DEF mergedKraken, isFresh

LEMMA FreshQuote ==
    ASSUME NEW t \in Ticks, NEW f \in fresh(t)
    PROVE  f \in Ranked /\ quoteOf(t, f).price \in Quotes /\ quoteOf(t, f).age \in 0..1
<1>1. f \in Ranked  BY PricesAssumption DEF fresh, Ranked, EXCHANGES
<1>2. \E k \in Sources : isFresh(t, k) /\ quoteOf(t, f) = t[k]
    <2>1. CASE f = "kraken"
        BY <2>1, MergedKraken DEF fresh, quoteOf
    <2>2. CASE f # "kraken"
        BY <2>2 DEF fresh, quoteOf
    <2> QED BY <2>1, <2>2
<1>3. PICK k \in Sources : isFresh(t, k) /\ quoteOf(t, f) = t[k]  BY <1>2
<1>4. t[k] \in TickSet /\ t[k].price \in Quotes  BY <1>3 DEF Ticks, isFresh
<1>5. t[k].age \in 0..1  BY <1>3, <1>4, PricesAssumption DEF TickSet, isFresh
<1> QED BY <1>1, <1>3, <1>4, <1>5

LEMMA SomeFresh ==
    ASSUME NEW t \in Ticks, NEW s \in Sources, isFresh(t, s)
    PROVE  fresh(t) # {}
<1>1. CASE s \in {"kraken", "kraken_bbo"}  BY <1>1, MergedKraken DEF fresh
<1>2. CASE s \notin {"kraken", "kraken_bbo"}  BY <1>2 DEF fresh
<1> QED BY <1>1, <1>2

\* The guard leaves a candidate, and only fresh ones.
LEMMA SomeCandidate ==
    ASSUME NEW t \in Ticks
    PROVE  /\ candidates(t) \subseteq fresh(t)
           /\ fresh(t) # {} => candidates(t) # {}
<1> DEFINE S == fresh(t)
           K == kept(t, S)
<1>1. K \subseteq S  BY DEF kept
<1>2. Cardinality(K) >= 2 => K # {}  BY FS_EmptySet
<1>3. candidates(t) = IF Cardinality(S) >= 2 /\ Cardinality(K) >= 2 THEN K ELSE S  BY DEF candidates
<1> HIDE DEF S, K
<1>4. candidates(t) \subseteq S /\ (S # {} => candidates(t) # {})  BY <1>1, <1>2, <1>3
<1> QED BY <1>4 DEF S

LEMMA WinnerIsCandidate ==
    ASSUME NEW t \in Ticks, fresh(t) # {}
    PROVE  \E s \in candidates(t) : winner(t) = quoteOf(t, s)
<1>1. candidates(t) # {} /\ candidates(t) \subseteq Ranked  BY SomeCandidate, FreshQuote
<1>2. \E s \in candidates(t) : \A o \in candidates(t) : SOURCE_PRIORITY[s] <= SOURCE_PRIORITY[o]
    BY <1>1, SomeoneIsFirst
<1> DEFINE f == CHOOSE s \in candidates(t) : \A o \in candidates(t) : SOURCE_PRIORITY[s] <= SOURCE_PRIORITY[o]
<1>3. f \in candidates(t)  BY <1>2
<1>4. winner(t) = quoteOf(t, f)  BY DEF winner
<1> QED BY <1>3, <1>4

\* A reply resolves to a quote of the staleness window.
LEMMA WinnerIsFresh ==
    ASSUME NEW t \in Ticks, NEW s \in Sources, isFresh(t, s)
    PROVE  winner(t).price \in Quotes /\ winner(t).age \in 0..1
BY SomeFresh, SomeCandidate, WinnerIsCandidate, FreshQuote

-----------------------------------------------------------------------------
(* The outlier guard *)

Under(t, S, p) == {s \in S : quoteOf(t, s).price < p}
UpTo(t, S, p) == {s \in S : quoteOf(t, s).price <= p}
Agree(t, S, p) == {s \in S : quoteOf(t, s).price = p}

LEMMA FreshIsFinite == ASSUME NEW t \in Ticks PROVE IsFiniteSet(fresh(t))
<1>1. IsFiniteSet(Ranked)
    <2>1. ASSUME NEW x, NEW y PROVE IsFiniteSet({x, y})
        <3>1. IsFiniteSet({x})  BY FS_Singleton
        <3>2. IsFiniteSet({x} \cup {y})  BY <3>1, FS_AddElement
        <3>3. {x, y} = {x} \cup {y}  OBVIOUS
        <3> QED BY <3>2, <3>3
    <2>2. IsFiniteSet(({"binance", "coinbase"} \cup {"okx", "bybit"}) \cup ({"gate", "kucoin"} \cup {"kraken"}))
        BY <2>1, FS_Union, FS_AddElement
    <2>3. Ranked = ({"binance", "coinbase"} \cup {"okx", "bybit"}) \cup ({"gate", "kucoin"} \cup {"kraken"})
        BY DEF Ranked
    <2> QED BY <2>2, <2>3
<1> QED BY <1>1, FreshQuote, FS_Subset

\* The n-th price in order is p when fewer than n sources are below it and n are not above it.
LEMMA NthPrice ==
    ASSUME NEW t \in Ticks, NEW p \in Quotes, NEW n \in Nat, Agree(t, fresh(t), p) # {},
           Cardinality(Under(t, fresh(t), p)) < n, Cardinality(UpTo(t, fresh(t), p)) >= n
    PROVE  nthPrice(t, fresh(t), n) = p
<1> DEFINE S == fresh(t)
           Prices == {quoteOf(t, s).price : s \in S}
           Is(q) == Cardinality(Under(t, S, q)) < n /\ Cardinality(UpTo(t, S, q)) >= n
<1>1. p \in Prices /\ Is(p)  BY DEF Agree
<1>2. ASSUME NEW q \in Prices, Is(q) PROVE q = p
    <2>1. q \in Nat /\ p \in Nat /\ \A s \in S : quoteOf(t, s).price \in Nat
        BY FreshQuote, PricesAssumption
    <2>2. \A r \in Nat : /\ IsFiniteSet(Under(t, S, r)) /\ Cardinality(Under(t, S, r)) \in Nat
                         /\ IsFiniteSet(UpTo(t, S, r)) /\ Cardinality(UpTo(t, S, r)) \in Nat
        BY FreshIsFinite, FS_Subset, FS_CardinalityType DEF Under, UpTo
    <2>3. CASE q < p
        <3>1. UpTo(t, S, q) \subseteq Under(t, S, p)  BY <2>1, <2>3 DEF Under, UpTo
        <3>2. Cardinality(UpTo(t, S, q)) <= Cardinality(Under(t, S, p))  BY <2>1, <2>2, <3>1, FS_Subset
        <3> QED BY <1>1, <1>2, <2>1, <2>2, <3>2
    <2>4. CASE p < q
        <3>1. UpTo(t, S, p) \subseteq Under(t, S, q)  BY <2>1, <2>4 DEF Under, UpTo
        <3>2. Cardinality(UpTo(t, S, p)) <= Cardinality(Under(t, S, q))  BY <2>1, <2>2, <3>1, FS_Subset
        <3> QED BY <1>1, <1>2, <2>1, <2>2, <3>2
    <2> QED BY <2>1, <2>3, <2>4
<1>3. nthPrice(t, S, n) = CHOOSE q \in Prices : Is(q)  BY DEF nthPrice, Under, UpTo
<1> HIDE DEF Prices, Is
<1> QED BY <1>1, <1>2, <1>3

\* More than half of the sources at p: p is the median.
LEMMA MajorityIsMedian ==
    ASSUME NEW t \in Ticks, NEW p \in Quotes,
           2 * Cardinality(Agree(t, fresh(t), p)) > Cardinality(fresh(t))
    PROVE  twiceMedian(t, fresh(t)) = 2 * p
<1> DEFINE S == fresh(t)
           n == Cardinality(S)
           a == Cardinality(Agree(t, S, p))
           u == Cardinality(Under(t, S, p))
           o == Cardinality(UpTo(t, S, p))
<1>1. /\ IsFiniteSet(S) /\ n \in Nat
      /\ IsFiniteSet(Agree(t, S, p)) /\ a \in Nat
      /\ IsFiniteSet(Under(t, S, p)) /\ u \in Nat
      /\ IsFiniteSet(UpTo(t, S, p)) /\ o \in Nat
    BY FreshIsFinite, FS_Subset, FS_CardinalityType DEF Under, UpTo, Agree
<1>2. p \in Nat /\ \A s \in S : quoteOf(t, s).price \in Nat  BY FreshQuote, PricesAssumption
<1>3. u + a <= n
    <2>1. Under(t, S, p) \cap Agree(t, S, p) = {}  BY <1>2 DEF Under, Agree
    <2>2. Cardinality(Under(t, S, p) \cup Agree(t, S, p)) = u + a
        <3>1. Cardinality(Under(t, S, p) \cap Agree(t, S, p)) = 0  BY <2>1, FS_EmptySet
        <3>2. Cardinality(Under(t, S, p) \cup Agree(t, S, p)) = u + a - 0
            BY <1>1, <3>1, FS_Union
        <3> QED BY <1>1, <3>2
    <2>3. Cardinality(Under(t, S, p) \cup Agree(t, S, p)) <= n
        BY <1>1, FS_Subset DEF Under, Agree
    <2> QED BY <2>2, <2>3
<1>4. a <= o
    <2>1. Agree(t, S, p) \subseteq UpTo(t, S, p)  BY <1>2 DEF UpTo, Agree
    <2> QED BY <1>1, <2>1, FS_Subset
<1>5. Agree(t, S, p) # {}  BY <1>1, FS_EmptySet
<1>6. twiceMedian(t, S) = IF n % 2 = 1 THEN 2 * nthPrice(t, S, (n + 1) \div 2)
                          ELSE nthPrice(t, S, n \div 2) + nthPrice(t, S, n \div 2 + 1)
    BY DEF twiceMedian
<1>7. 2 * a > n  OBVIOUS
<1> HIDE DEF n, a, u, o
<1>8. CASE n % 2 = 1
    <2>1. (n + 1) \div 2 \in Nat /\ u < (n + 1) \div 2 /\ o >= (n + 1) \div 2
        BY <1>1, <1>3, <1>4, <1>7, <1>8
    <2>2. nthPrice(t, S, (n + 1) \div 2) = p  BY <1>5, <2>1, NthPrice DEF u, o
    <2> QED BY <1>6, <1>8, <2>2
<1>9. CASE n % 2 # 1
    <2>1. /\ n \div 2 \in Nat /\ u < n \div 2 /\ o >= n \div 2 + 1
          /\ n \div 2 + 1 \in Nat /\ u < n \div 2 + 1 /\ o >= n \div 2
        BY <1>1, <1>3, <1>4, <1>7, <1>9
    <2>2. nthPrice(t, S, n \div 2) = p  BY <1>5, <2>1, NthPrice DEF u, o
    <2>3. nthPrice(t, S, n \div 2 + 1) = p  BY <1>5, <2>1, NthPrice DEF u, o
    <2> QED BY <1>2, <1>6, <1>9, <2>2, <2>3
<1> QED BY <1>8, <1>9

\* A price is within the ratio of itself.
LEMMA WithinRatio == ASSUME NEW p \in Nat PROVE p <= p * Ratio /\ p * Ratio \in Nat
<1>1. Ratio \in Nat /\ Ratio >= 1  BY PricesAssumption
<1>2. PICK r \in Nat : Ratio = r + 1
    <2>1. Ratio - 1 \in Nat /\ Ratio = (Ratio - 1) + 1  BY <1>1
    <2> QED BY <2>1
<1>3. p * Ratio = p * r + p  BY <1>2
<1>4. p * r \in Nat  OBVIOUS
<1> QED BY <1>3, <1>4

\* With a majority at p, whoever wins is within the ratio of p.
LEMMA MajorityWins ==
    ASSUME NEW t \in Ticks, NEW p \in Quotes,
           2 * Cardinality(Agree(t, fresh(t), p)) > Cardinality(fresh(t))
    PROVE  winner(t).price <= p * Ratio /\ p <= winner(t).price * Ratio
<1> DEFINE S == fresh(t)
           K == kept(t, S)
           A == Agree(t, S, p)
           Near(q) == q <= p * Ratio /\ p <= q * Ratio
<1>1. p \in Nat /\ \A s \in S : quoteOf(t, s).price \in Nat  BY FreshQuote, PricesAssumption
<1>2. IsFiniteSet(S) /\ A \subseteq S /\ IsFiniteSet(A) /\ Cardinality(S) \in Nat /\ Cardinality(A) \in Nat
    BY FreshIsFinite, FS_Subset, FS_CardinalityType DEF Agree
<1>3. S # {}  BY <1>2, FS_EmptySet
<1>4. K = {s \in S : Near(quoteOf(t, s).price)}
    <2>1. K = {s \in S : 2 * quoteOf(t, s).price * Ratio >= 2 * p /\ 2 * quoteOf(t, s).price <= 2 * p * Ratio}
        BY MajorityIsMedian DEF kept
    <2>2. ASSUME NEW q \in Nat
          PROVE  (2 * q * Ratio >= 2 * p /\ 2 * q <= 2 * p * Ratio) <=> Near(q)
        <3>1. p * Ratio \in Nat /\ q * Ratio \in Nat  BY <1>1, WithinRatio
        <3>2. 2 * q * Ratio = 2 * (q * Ratio) /\ 2 * p * Ratio = 2 * (p * Ratio)
            BY <1>1, PricesAssumption
        <3> QED BY <1>1, <3>1, <3>2
    <2> QED BY <1>1, <2>1, <2>2
<1>5. A \subseteq K
    BY <1>1, <1>4, WithinRatio DEF Agree
<1>6. PICK w \in candidates(t) : winner(t) = quoteOf(t, w)  BY <1>3, WinnerIsCandidate
<1>7. w \in S  BY SomeCandidate
<1>8. candidates(t) = IF Cardinality(S) >= 2 /\ Cardinality(K) >= 2 THEN K ELSE S  BY DEF candidates
<1>9. CASE Cardinality(S) >= 2
    <2>1. Cardinality(A) >= 2  BY <1>2, <1>9
    <2>2. IsFiniteSet(K) /\ Cardinality(K) \in Nat  BY <1>2, <1>4, FS_Subset, FS_CardinalityType
    <2>3. Cardinality(A) <= Cardinality(K)  BY <1>5, <2>2, FS_Subset
    <2>4. w \in K  BY <1>2, <1>6, <1>8, <1>9, <2>1, <2>2, <2>3
    <2> QED BY <1>4, <1>6, <2>4
<1>10. CASE ~(Cardinality(S) >= 2)
    <2>1. Cardinality(S) = Cardinality(A)
        BY <1>2, <1>10, FS_Subset
    <2>2. w \in A  BY <1>2, <1>7, <2>1, FS_Subset
    <2> QED BY <1>5, <1>4, <1>6, <2>2
<1> QED BY <1>9, <1>10

-----------------------------------------------------------------------------
(* Types and the age of what is served *)

LEMMA InitIInv == ASSUME Init PROVE IInv
<1>1. ticks \in [Sources -> [price : Prices0, age : 0..Ttl]]
    BY PricesAssumption DEF Init, NoTick, Prices0
<1>2. Types
    <2>1. \A s \in Sources : ticks[s] = NoTick  BY DEF Init
    <2>2. replies \in Seq(Replies) /\ writes \in Seq(Writes)  BY DEF Init
    <2>3. last \in Prices0 /\ heard \in Prices0 /\ canonical = NoPrice  BY DEF Init, Prices0
    <2>4. lost \in BOOLEAN  BY DEF Init
    <2> QED BY <1>1, <2>1, <2>2, <2>3, <2>4 DEF Types
<1>3. canonical.by = "none"  BY DEF Init, NoPrice
<1> QED BY <1>2, <1>3 DEF Init, IInv, Recent, Repeats, Follows, Stamped, Framed

LEMMA ReadyTicks == ASSUME Types PROVE ticks \in Ticks
BY DEF Types, Ticks, TickSet

\* The first pipeline leaves the rest of the bookkeeping alone.
LEMMA RecordStep ==
    ASSUME IInv, NEW s \in Sources, NEW p \in Quotes, recordTick(s, p)
    PROVE  IInv'
<1> USE DEF recordTick
<1>1. [price |-> p, age |-> 0] \in TickSet /\ [price |-> p, age |-> 0] # NoTick
    BY PricesAssumption DEF TickSet, Prices0, NoTick
<1>2. ticks' \in Ticks /\ ticks'[s] = [price |-> p, age |-> 0]
    BY <1>1 DEF IInv, Types, Ticks, TickSet
<1>3. winner(ticks').price \in Quotes /\ winner(ticks').age \in 0..1
    <2>1. isFresh(ticks', s)
        <3>1. PICK x : x = [price |-> p, age |-> 0]  OBVIOUS
        <3>2. x # NoTick /\ x.age <= 1  BY <1>1, <3>1
        <3> QED BY <1>2, <3>1, <3>2 DEF isFresh
    <2> QED BY <1>2, <2>1, WinnerIsFresh
<1>4. replies' \in Seq(Replies)
    <2>1. PICK w : w = winner(ticks')  OBVIOUS
    <2>2. [price |-> w.price, born |-> w.age] \in Replies  BY <1>3, <2>1 DEF Replies
    <2>3. replies' = Append(replies, [price |-> w.price, born |-> w.age]) \/ replies' = replies  BY <2>1
    <2>4. replies \in Seq(Replies)  BY DEF IInv, Types
    <2> QED BY <2>2, <2>3, <2>4, AppendProperties
<1>5. Types'  BY <1>2, <1>4 DEF IInv, Types, Ticks, TickSet
<1>6. (Recent /\ Repeats /\ Follows /\ Stamped /\ Framed)'
    BY DEF IInv, Recent, Repeats, Follows, Stamped, Framed
<1> QED BY <1>5, <1>6 DEF IInv

\* A window passes.
LEMMA TickStep == ASSUME IInv, Tick PROVE IInv'
<1> USE DEF Tick
<1>1. ticks' \in Ticks
    <2>1. ASSUME NEW s \in Sources PROVE ticks'[s] \in TickSet /\ (ticks'[s] # NoTick => ticks'[s].price \in Quotes)
        <3>1. PICK x \in TickSet : x = ticks[s] /\ (x # NoTick => x.price \in Quotes)
            BY DEF IInv, Types, TickSet
        <3>2. ticks'[s] = Aged(x, NoTick)  BY <3>1
        <3>3. NoTick \in TickSet  BY PricesAssumption DEF NoTick, TickSet, Prices0
        <3>4. x.age # Ttl => [x EXCEPT !.age = @ + 1] = [price |-> x.price, age |-> x.age + 1]
            BY DEF TickSet
        <3>5. x.age # Ttl => x.age + 1 \in 0..Ttl  BY PricesAssumption DEF TickSet
        <3> QED BY <3>1, <3>2, <3>3, <3>4, <3>5 DEF Aged, TickSet
    <2> QED BY <2>1 DEF Ticks
<1>2. /\ canonical' = NoPrice \/ canonical' \in Canonicals
      /\ canonical' # NoPrice => /\ canonical'.born <= 1 + canonical'.age
                                 /\ canonical'.price = canonical.price /\ canonical'.by = canonical.by
    <2>1. CASE canonical = NoPrice \/ canonical.age = Ttl
        BY <2>1
    <2>2. CASE ~(canonical = NoPrice \/ canonical.age = Ttl)
        <3>1. PICK c \in Canonicals : c = canonical /\ c.age # Ttl /\ c.born <= 1 + c.age
            BY <2>2 DEF IInv, Types, Recent
        <3>2. canonical' = [price |-> c.price, age |-> c.age + 1, born |-> c.born + 1, by |-> c.by]
            BY <2>2, <3>1 DEF Canonicals
        <3>3. c.age + 1 \in 0..Ttl /\ c.born + 1 \in Nat /\ c.born + 1 <= 1 + (c.age + 1)
            BY <3>1, PricesAssumption DEF Canonicals
        <3> QED BY <3>1, <3>2, <3>3 DEF Canonicals
    <2> QED BY <2>1, <2>2
<1>3. Types'  BY <1>1, <1>2 DEF IInv, Types, Ticks, TickSet
<1>4. Recent'  BY <1>2 DEF Recent
<1>5. Framed'
    <2>1. canonical' = NoPrice => canonical'.by = "none"  BY DEF NoPrice
    <2> QED BY <1>2, <2>1 DEF IInv, Framed
<1>6. (Repeats /\ Follows /\ Stamped)'  BY DEF IInv, Repeats, Follows, Stamped
<1> QED BY <1>3, <1>4, <1>5, <1>6 DEF IInv

-----------------------------------------------------------------------------
(* The frames *)

\* What is sent has a frame exactly when its price is not the one stamped.
LEMMA ResolveStep == ASSUME IInv, resolveCanonical PROVE IInv'
<1>1. PICK w \in Replies : w = Head(replies)
    <2>1. replies \in Seq(Replies) /\ replies # <<>>  BY DEF IInv, Types, resolveCanonical
    <2> QED BY <2>1, HeadTailProperties
<1>2. PICK b \in BOOLEAN : b = (last # w.price)  OBVIOUS
<1>3. PICK e \in Writes : e = [price |-> w.price, born |-> w.born, pub |-> b]
    BY DEF Writes, Replies
<1>4. writes' = Append(writes, e) /\ last' = w.price
    <2>1. writes' = Append(writes, [price |-> w.price, born |-> w.born, pub |-> b])
        BY <1>1, <1>2 DEF resolveCanonical, moved
    <2>2. last' = w.price  BY <1>1 DEF resolveCanonical, moved
    <2> QED BY <1>3, <2>1, <2>2
<1>5. replies' \in Seq(Replies)
    <2>1. replies \in Seq(Replies) /\ replies # <<>> /\ replies' = Tail(replies)
        BY DEF IInv, Types, resolveCanonical
    <2> QED BY <2>1, HeadTailProperties
<1>6. UNCHANGED <<ticks, canonical, heard, lost>>  BY DEF resolveCanonical
<1>7. writes \in Seq(Writes) /\ last \in Prices0 /\ w.price \in Quotes /\ w.price # 0
    BY PricesAssumption DEF IInv, Types, Replies
<1>8. /\ writes' \in Seq(Writes) /\ writes' # <<>> /\ Len(writes') = Len(writes) + 1
      /\ \A i \in 1..Len(writes) : writes'[i] = writes[i]
      /\ writes'[Len(writes) + 1] = e
    BY <1>4, <1>7, AppendProperties
<1>9. Len(writes) \in Nat /\ (writes # <<>> <=> Len(writes) >= 1)
    BY <1>7, EmptySeq, LenProperties
<1>10. e.price = w.price /\ (~e.pub => last = w.price)  BY <1>2, <1>3
<1>11. Types'
    BY <1>4, <1>5, <1>6, <1>7, <1>8 DEF IInv, Types, Prices0
<1>12. Repeats'
    <2>1. SUFFICES ASSUME NEW i \in 2..Len(writes'), ~writes'[i].pub
                   PROVE  writes'[i].price = writes'[i - 1].price
        BY DEF Repeats
    <2>2. CASE i \in 2..Len(writes)
        <3>1. writes'[i] = writes[i] /\ writes'[i - 1] = writes[i - 1]  BY <1>8, <1>9, <2>2
        <3> QED BY <2>1, <2>2, <3>1 DEF IInv, Repeats
    <2>3. CASE i = Len(writes) + 1
        <3>1. writes # <<>> /\ writes'[i] = e /\ writes'[i - 1] = writes[Len(writes)]
            BY <1>8, <1>9, <2>1, <2>3
        <3>2. last = writes[Len(writes)].price
            BY <1>7, <1>10, <2>1, <3>1 DEF IInv, Stamped
        <3> QED BY <1>10, <2>1, <3>1, <3>2
    <2> QED BY <1>8, <1>9, <2>1, <2>2, <2>3
<1>13. Follows'
    <2>1. CASE writes = <<>>
        <3>1. writes'[1] = e  BY <1>8, <1>9, <2>1
        <3>2. ~e.pub => (lost \/ heard = w.price)
            BY <1>7, <1>10, <2>1 DEF IInv, Stamped
        <3> QED BY <1>6, <1>10, <3>1, <3>2 DEF Follows
    <2>2. CASE writes # <<>>
        <3>1. writes'[1] = writes[1]  BY <1>8, <1>9, <2>2
        <3> QED BY <1>6, <2>2, <3>1 DEF IInv, Follows
    <2> QED BY <2>1, <2>2
<1>14. Stamped'
    <2>1. writes'[Len(writes')] = e  BY <1>8
    <2> QED BY <1>4, <1>8, <1>10, <2>1 DEF Stamped
<1>15. (Recent /\ Framed)'  BY <1>6 DEF IInv, Recent, Framed
<1> QED BY <1>11, <1>12, <1>13, <1>14, <1>15 DEF IInv

\* The first write of the queue is taken from it, with its effect or without.
LEMMA WriteStep == ASSUME IInv, WriteBack PROVE IInv'
<1>1. writes \in Seq(Writes) /\ writes # <<>> /\ writes' = Tail(writes)
    BY DEF IInv, Types, WriteBack
<1>2. PICK w \in Writes : w = Head(writes) /\ w = writes[1]
    BY <1>1, HeadTailProperties
<1>3. /\ writes' \in Seq(Writes) /\ Len(writes') = Len(writes) - 1
      /\ \A i \in 1..Len(writes') : writes'[i] = writes[i + 1]
    BY <1>1, HeadTailProperties
<1>4. Len(writes) \in Nat /\ Len(writes') \in Nat /\ (writes' # <<>> <=> Len(writes') >= 1)
    <2>1. \A q \in Seq(Writes) : Len(q) \in Nat /\ (q # <<>> <=> Len(q) >= 1)
        BY EmptySeq, LenProperties
    <2> QED BY <1>1, <1>3, <2>1
<1>5. UNCHANGED <<ticks, replies, last>>  BY DEF WriteBack
<1>6. \/ /\ canonical' = [price |-> w.price, age |-> 0, born |-> w.born, by |-> "resolver"]
         /\ heard' = IF w.pub THEN w.price ELSE heard
         /\ lost' = (lost /\ ~w.pub)
      \/ /\ lost' = (lost \/ w.pub)
         /\ UNCHANGED <<canonical, heard>>
    BY <1>2 DEF WriteBack
<1>7. w.price \in Quotes /\ w.born \in 0..1 /\ w.pub \in BOOLEAN /\ lost \in BOOLEAN
    BY DEF Writes, IInv, Types
<1>8. lost' \in BOOLEAN  BY <1>6, <1>7
\* The frame of w has been published, or it is lost.
<1>9. lost' \/ heard' = w.price
    BY <1>1, <1>2, <1>6, <1>7 DEF IInv, Follows
<1>10. /\ heard' \in Prices0
       /\ canonical' = NoPrice \/ canonical' \in Canonicals
       /\ Recent' /\ Framed'
    <2>1. CASE UNCHANGED <<canonical, heard>> /\ lost' = (lost \/ w.pub)
        BY <2>1 DEF IInv, Types, Recent, Framed
    <2>2. CASE /\ canonical' = [price |-> w.price, age |-> 0, born |-> w.born, by |-> "resolver"]
               /\ heard' = IF w.pub THEN w.price ELSE heard
        <3>1. heard' \in Prices0  BY <1>7, <2>2 DEF IInv, Types, Prices0
        <3>2. canonical' \in Canonicals /\ canonical'.born <= 1 + canonical'.age
            BY <1>7, <2>2, PricesAssumption DEF Canonicals
        <3>3. canonical'.price = w.price  BY <2>2
        <3> QED BY <1>9, <3>1, <3>2, <3>3 DEF Recent, Framed
    <2> QED BY <1>6, <2>1, <2>2
<1>11. Types'  BY <1>3, <1>5, <1>8, <1>10 DEF IInv, Types
<1>12. Repeats'
    <2>1. SUFFICES ASSUME NEW i \in 2..Len(writes'), ~writes'[i].pub
                   PROVE  writes'[i].price = writes'[i - 1].price
        BY DEF Repeats
    <2>2. writes'[i] = writes[i + 1] /\ writes'[i - 1] = writes[i] /\ i + 1 \in 2..Len(writes)
        BY <1>3, <1>4
    <2>3. writes[i + 1].price = writes[(i + 1) - 1].price  BY <2>1, <2>2 DEF IInv, Repeats
    <2> QED BY <2>2, <2>3
<1>13. Follows'
    <2>1. SUFFICES ASSUME writes' # <<>>, ~writes'[1].pub PROVE lost' \/ heard' = writes'[1].price
        BY DEF Follows
    <2>2. writes'[1] = writes[2] /\ 2 \in 2..Len(writes)  BY <1>3, <1>4, <2>1
    <2>3. writes[2].price = writes[2 - 1].price  BY <2>1, <2>2 DEF IInv, Repeats
    <2> QED BY <1>2, <1>9, <2>2, <2>3
<1>14. Stamped'
    <2>1. SUFFICES ASSUME last # 0
                   PROVE  IF writes' # <<>> THEN last = writes'[Len(writes')].price
                          ELSE lost' \/ heard' = last
        BY <1>5 DEF Stamped
    <2>2. last = writes[Len(writes)].price  BY <1>1, <2>1 DEF IInv, Stamped
    <2>3. CASE writes' # <<>>
        <3>1. writes'[Len(writes')] = writes[Len(writes)]  BY <1>3, <1>4, <2>3
        <3> QED BY <2>2, <2>3, <3>1
    <2>4. CASE writes' = <<>>
        <3>1. Len(writes) = 1  BY <1>3, <1>4, <2>4
        <3> QED BY <1>2, <1>9, <2>2, <2>4, <3>1
    <2> QED BY <2>3, <2>4
<1> QED BY <1>10, <1>11, <1>12, <1>13, <1>14 DEF IInv

\* The bookkeeping is forgotten, and with a restart what was under way.
LEMMA ForgetStep ==
    ASSUME IInv, last' = 0, UNCHANGED <<ticks, canonical, heard, lost>>,
           replies' \in {replies, <<>>}, writes' \in {writes, <<>>}
    PROVE  IInv'
<1>1. writes' \in Seq(Writes) /\ replies' \in Seq(Replies)
    <2>1. <<>> \in Seq(Writes) /\ <<>> \in Seq(Replies)  BY EmptySeq
    <2>2. writes \in Seq(Writes) /\ replies \in Seq(Replies)  BY DEF IInv, Types
    <2> QED BY <2>1, <2>2
<1>2. Types'  BY <1>1 DEF IInv, Types, Prices0
<1>3. Repeats' /\ Follows'
    BY DEF IInv, Repeats, Follows
<1> QED BY <1>2, <1>3 DEF IInv, Recent, Stamped, Framed

\* CoinMarketCap's price is as young as its key, and no frame is owed for it.
LEMMA RefreshStep == ASSUME IInv, NEW p \in Quotes, refreshPrices(p) PROVE IInv'
<1>1. PICK c : c = [price |-> p, age |-> 0, born |-> 0, by |-> "cmc"]  OBVIOUS
<1>2. c \in Canonicals /\ c.by # "resolver" /\ c.born <= 1 + c.age
    BY <1>1, PricesAssumption DEF Canonicals
<1>3. canonical' = c /\ UNCHANGED feedVars  BY <1>1 DEF refreshPrices
<1> QED BY <1>2, <1>3 DEF IInv, Types, Recent, Repeats, Follows, Stamped, Framed, feedVars

LEMMA NextIInv == ASSUME IInv, [Next]_vars PROVE IInv'
<1>1. ASSUME UNCHANGED <<feedVars, canonical>> PROVE IInv'
    BY <1>1 DEF IInv, Types, Recent, Repeats, Follows, Stamped, Framed, feedVars
<1>2. ASSUME NEW s \in Sources, NEW p \in Quotes, recordTick(s, p) PROVE IInv'  BY <1>2, RecordStep
<1>3. CASE resolveCanonical  BY <1>3, ResolveStep
<1>4. CASE WriteBack  BY <1>4, WriteStep
<1>5. CASE capMap  BY <1>5, ForgetStep DEF capMap
<1>6. CASE Restart  BY <1>6, ForgetStep DEF Restart
<1>7. CASE Tick  BY <1>7, TickStep
<1>8. ASSUME NEW p \in Quotes, refreshPrices(p) PROVE IInv'  BY <1>8, RefreshStep
<1>9. ASSUME NEW p \in Quotes, runTokenMetadataSync(p) PROVE IInv'
    BY <1>1, <1>9 DEF runTokenMetadataSync
<1>10. CASE FlushRead  BY <1>1, <1>10 DEF FlushRead
<1>11. CASE FlushWrite  BY <1>1, <1>11 DEF FlushWrite
<1>12. CASE RepriceRead
    <2>1. UNCHANGED <<feedVars, canonical>>  BY <1>12 DEF RepriceRead
    <2> QED BY <1>1, <2>1
<1>13. CASE RepriceWrite  BY <1>1, <1>13 DEF RepriceWrite
<1>14. CASE UNCHANGED vars  BY <1>1, <1>14 DEF vars, feedVars
<1> QED BY <1>2, <1>3, <1>4, <1>5, <1>6, <1>7, <1>8, <1>9, <1>10, <1>11, <1>12, <1>13, <1>14 DEF Next

-----------------------------------------------------------------------------
(* Theorems *)

\* The inductive invariant holds of every behaviour of the resolver and of the price's writers.
THEOREM Invariance == Spec => []IInv
<1>1. Init => IInv  BY InitIInv
<1>2. IInv /\ [Next]_vars => IInv'  BY NextIInv
<1> QED BY <1>1, <1>2, PTL DEF Spec

\* The last frame of the firehose has the canonical price, through concurrent ticks, evictions of
\* the bookkeeping and restarts, for any number of pipelines under way (price-resolver.ts:243).
THEOREM Framing == Spec => []FrameIsCanonical
<1>1. IInv => FrameIsCanonical  BY DEF IInv, Framed, FrameIsCanonical
<1> QED BY <1>1, Invariance, PTL

\* A served price is no older than its TTL and the staleness window together, whatever writes the
\* key and in which order (price-resolver.ts, PRICE_TTL_S).
THEOREM Recency == Spec => []ServedIsRecent
<1>1. ASSUME IInv PROVE ServedIsRecent
    <2>1. SUFFICES ASSUME canonical # NoPrice PROVE canonical.born <= 1 + Ttl
        BY DEF ServedIsRecent
    <2>2. canonical \in Canonicals /\ canonical.born <= 1 + canonical.age
        BY <1>1, <2>1 DEF IInv, Types, Recent
    <2> QED BY <2>2, PricesAssumption DEF Canonicals
<1> QED BY <1>1, Invariance, PTL

\* The outlier guard, for any set of exchanges, quotes and ratio: where more than half of the fresh
\* sources agree on a price, the canonical price is within the ratio of it (price-resolver.ts:171).
THEOREM Consensus == Spec => []ConsensusWins
<1>1. ASSUME IInv PROVE ConsensusWins
    <2>1. ticks \in Ticks  BY <1>1, ReadyTicks DEF IInv
    <2> QED BY <2>1, MajorityWins DEF ConsensusWins, Agree
<1> QED BY <1>1, Invariance, PTL
=============================================================================
