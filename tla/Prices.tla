------------------------------- MODULE Prices -------------------------------
(* The price of one symbol, from the ticks of the exchanges to the readers: price-resolver.ts,
   live-price.ts, prices.service.ts (refreshPrices), and the writers of Token.currentPrice:
   live-flush.ts, tokens/sync/sync.ts and wallet-data/reprice.ts with canonical-price.ts.

   Time is in units of the staleness window (15 s), and what has an age is kept as an age.
   recordTick is two pipelines on the one Redis connection, which keeps their order: the first
   writes the exchange's tick and reads all of them, the second writes what was resolved. What a
   reply resolves to is a function of the reply alone, so `replies` holds the winners. *)
EXTENDS Naturals, Sequences, FiniteSets, SequencesExt

CONSTANTS Sources,     \* the exchanges under check
          Quotes,      \* the prices they quote, in half units of the last digit of the column
          Ratio,       \* PRICE_OUTLIER_RATIO
          Ttl,         \* PRICE_TTL_S, in windows
          MaxQueue,    \* bound: pipelines under way
          Mixes        \* the sets of exchanges that tick and of other activities, each with its runs

EXCHANGES == {"binance", "coinbase", "okx", "bybit", "gate", "kucoin", "kraken", "kraken_bbo"}

ASSUME PricesAssumption ==
    /\ Sources \subseteq EXCHANGES /\ Quotes \subseteq Nat \ {0}
    /\ Ratio \in Nat \ {0} /\ Ttl \in Nat \ {0} /\ MaxQueue \in Nat

VARIABLES
    ticks,      \* price:<SYM>:<exchange> -> [price, age], or NoTick
    replies,    \* first pipelines answered, their winner not yet handled
    writes,     \* second pipelines sent: [price, born, pub]
    last,       \* lastPublishedPrice, 0 when the Map has no entry
    canonical,  \* price:<SYM> -> [price, age, born, by], or NoPrice; born: the age of the quote
    heard,      \* the price of the last frame the firehose published, 0 when there is none
    lost,       \* (history) the last frame that should have followed was lost with its pipeline
    token,      \* the Token row: [price, confidence]
    auto,       \* it is auto-listed from a wallet
    flush,      \* the flush job: [at, price, updated]
    reprice,    \* the re-price job: [at, price, confidence]
    ops         \* the mix of activities of this behaviour

vars == <<ticks, replies, writes, last, canonical, heard, lost, token, auto, flush, reprice, ops>>
feedVars == <<ticks, replies, writes, last, heard, lost>>
rowVars == <<token, auto, flush, reprice>>

NoTick == [price |-> 0, age |-> 0]
NoPrice == [price |-> 0, age |-> 0, born |-> 0, by |-> "none"]
NoFlush == [at |-> "idle", price |-> 0, updated |-> 0]
NoReprice == [at |-> "idle", price |-> 0, confidence |-> "none"]

-----------------------------------------------------------------------------
(* resolveCanonical, the part that only depends on what was read. `t` is the function of ticks. *)

SOURCE_PRIORITY == [binance |-> 0, coinbase |-> 1, okx |-> 2, bybit |-> 3, gate |-> 4, kucoin |-> 5, kraken |-> 6]

\* No older than the staleness window.
anyAge(t, s) == t[s] # NoTick
isFresh(t, s) == t[s] # NoTick /\ t[s].age <= 1

\* Kraken's trade and its book are one source: the book counts when it is strictly more recent.
mergedKraken(t) ==
    IF "kraken" \in Sources /\ isFresh(t, "kraken")
       /\ ~("kraken_bbo" \in Sources /\ isFresh(t, "kraken_bbo") /\ t["kraken_bbo"].age < t["kraken"].age)
    THEN t["kraken"]
    ELSE IF "kraken_bbo" \in Sources /\ isFresh(t, "kraken_bbo") THEN t["kraken_bbo"] ELSE NoTick

quoteOf(t, s) == IF s = "kraken" THEN mergedKraken(t) ELSE t[s]
fresh(t) == {s \in Sources \ {"kraken", "kraken_bbo"} : isFresh(t, s)}
            \cup (IF mergedKraken(t) = NoTick THEN {} ELSE {"kraken"})

\* Twice the median price of the sources S.
nthPrice(t, S, n) == CHOOSE p \in {quoteOf(t, s).price : s \in S} :
                        /\ Cardinality({s \in S : quoteOf(t, s).price < p}) < n
                        /\ Cardinality({s \in S : quoteOf(t, s).price <= p}) >= n
twiceMedian(t, S) == LET n == Cardinality(S)
                     IN  IF n % 2 = 1 THEN 2 * nthPrice(t, S, (n + 1) \div 2)
                         ELSE nthPrice(t, S, n \div 2) + nthPrice(t, S, n \div 2 + 1)

\* The outlier guard: what lies within Ratio of the median ...
keptBelow(t, S) == LET m == twiceMedian(t, S) IN {s \in S : 2 * quoteOf(t, s).price <= m * Ratio}
kept(t, S) == LET m == twiceMedian(t, S)
              IN  {s \in S : 2 * quoteOf(t, s).price * Ratio >= m /\ 2 * quoteOf(t, s).price <= m * Ratio}

\* ... when that is at least two of them; otherwise every source stays a candidate.
candidates(t) == LET S == fresh(t)
                     K == kept(t, S)
                 IN  IF Cardinality(S) >= 2 /\ Cardinality(K) >= 2 THEN K ELSE S

\* The quote of the candidate with the highest priority.
winner(t) == LET C == candidates(t)
             IN  quoteOf(t, CHOOSE s \in C : \A o \in C : SOURCE_PRIORITY[s] <= SOURCE_PRIORITY[o])

-----------------------------------------------------------------------------
(* recordTick *)

\* The first pipeline: SET of the tick, MGET of all. It may fail with its effect or without.
recordTick(s, p) ==
    /\ s \in ops /\ Len(replies) + Len(writes) < MaxQueue
    /\ ticks' = [ticks EXCEPT ![s] = [price |-> p, age |-> 0]]
    /\ \/ LET w == winner(ticks') IN replies' = Append(replies, [price |-> w.price, born |-> w.age])
       \/ UNCHANGED replies
    /\ UNCHANGED <<writes, last, canonical, heard, lost, rowVars, ops>>

\* The rest of resolveCanonical: what was published last is stamped before the second pipeline
\* is sent.
movedUp(p) == last < p
moved(p) == last # p
resolveCanonical ==
    /\ replies # <<>>
    /\ LET w == Head(replies)
       IN  /\ writes' = Append(writes, [price |-> w.price, born |-> w.born, pub |-> moved(w.price)])
           /\ last' = IF moved(w.price) THEN w.price ELSE last
    /\ replies' = Tail(replies)
    /\ UNCHANGED <<ticks, canonical, heard, lost, rowVars, ops>>

\* The second pipeline: the canonical price, the frame. Or neither of them.
WriteBack ==
    /\ writes # <<>>
    /\ writes' = Tail(writes)
    /\ LET w == Head(writes)
       IN  \/ /\ canonical' = [price |-> w.price, age |-> 0, born |-> w.born, by |-> "resolver"]
              /\ heard' = IF w.pub THEN w.price ELSE heard
              /\ lost' = (lost /\ ~w.pub)
           \/ /\ lost' = (lost \/ w.pub)
              /\ UNCHANGED <<canonical, heard>>
    /\ UNCHANGED <<ticks, replies, last, rowVars, ops>>

\* Other symbols push this one out of the bookkeeping Maps.
capMap == /\ "evict" \in ops
          /\ last' = 0
          /\ UNCHANGED <<ticks, replies, writes, canonical, heard, lost, rowVars, ops>>

\* The process restarts: the Maps and what was under way are gone, Redis is not.
Restart == /\ "restart" \in ops
           /\ last' = 0 /\ replies' = <<>> /\ writes' = <<>>
           /\ flush' = NoFlush /\ reprice' = NoReprice
           /\ UNCHANGED <<ticks, canonical, heard, lost, token, auto, ops>>

\* A window passes; pipelines take less. Keys reach the end of their life.
Aged(x, none) == IF x = none THEN none ELSE IF x.age = Ttl THEN none ELSE [x EXCEPT !.age = @ + 1]
Tick == /\ replies = <<>> /\ writes = <<>>
        /\ ticks' = [s \in Sources |-> Aged(ticks[s], NoTick)]
        /\ canonical' = IF canonical = NoPrice \/ canonical.age = Ttl THEN NoPrice
                        ELSE [canonical EXCEPT !.age = @ + 1, !.born = @ + 1]
        /\ UNCHANGED <<replies, writes, last, heard, lost, rowVars, ops>>

\* refreshPrices: CoinMarketCap's price goes over the canonical one, without a frame.
refreshPrices(p) == /\ "cmc" \in ops
                    /\ canonical' = [price |-> p, age |-> 0, born |-> 0, by |-> "cmc"]
                    /\ UNCHANGED <<feedVars, rowVars, ops>>

-----------------------------------------------------------------------------
(* Token.currentPrice *)

\* The column's last digit is two of our units.
Rounded(p) == ((p + 1) \div 2) * 2

\* getLivePriceMap: the canonical price while it lives; a miss falls back to the row.
getLivePriceMap == canonical.price

\* flushLivePricesToCurrentPrice: read the live price, then update the row where it differs. The
\* row is compared with the price before it is rounded into the column.
FlushRead == /\ "row" \in ops /\ flush.at = "idle" /\ getLivePriceMap # 0
             /\ flush' = [at |-> "write", price |-> getLivePriceMap, updated |-> 0]
             /\ UNCHANGED <<feedVars, canonical, token, auto, reprice, ops>>
FlushWrite == /\ flush.at = "write"
              /\ LET differs == token.price # flush.price
                 IN  /\ token' = IF differs THEN [token EXCEPT !.price = Rounded(flush.price)] ELSE token
                     /\ flush' = [NoFlush EXCEPT !.updated = IF differs THEN 1 ELSE 0]
              /\ UNCHANGED <<feedVars, canonical, auto, reprice, ops>>

\* runTokenMetadataSync: the price CoinMarketCap has for the symbol.
runTokenMetadataSync(p) ==
    /\ "row" \in ops
    /\ token' = [token EXCEPT !.price = Rounded(p)]
    /\ UNCHANGED <<feedVars, canonical, auto, flush, reprice, ops>>

\* reconcileTokenPrice(provider, feed): 0 stands for a price that is not known.
deviates(provider, feed) ==
    4 * (IF provider > feed THEN provider - feed ELSE feed - provider) > feed
reconcileTokenPrice(provider, feed) ==
    CASE feed = 0 -> [price |-> provider, confidence |-> "unverified"]
      [] feed # 0 /\ provider = 0 -> [price |-> feed, confidence |-> "verified"]
      [] OTHER -> [price |-> IF deviates(provider, feed) THEN feed ELSE provider, confidence |-> "verified"]

\* repriceConnectedTokens: wallet summary and canonical feed are read, then the row is written,
\* if it is auto-listed and there is a price.
RepriceRead == /\ "row" \in ops /\ reprice.at = "idle"
               /\ \E provider, feed \in Quotes \cup {0} :
                    LET r == reconcileTokenPrice(provider, feed)
                    IN  /\ r.price # 0
                        /\ reprice' = [at |-> "write", price |-> r.price, confidence |-> r.confidence]
               /\ UNCHANGED <<feedVars, canonical, token, auto, flush, ops>>
RepriceWrite == /\ reprice.at = "write"
                /\ token' = IF auto THEN [price |-> Rounded(reprice.price), confidence |-> reprice.confidence]
                            ELSE token
                /\ reprice' = NoReprice
                /\ UNCHANGED <<feedVars, canonical, auto, flush, ops>>

-----------------------------------------------------------------------------
Init == /\ ticks = [s \in Sources |-> NoTick] /\ replies = <<>> /\ writes = <<>>
        /\ last = 0 /\ canonical = NoPrice
        /\ heard = 0 /\ lost = FALSE
        /\ token = [price |-> Rounded(CHOOSE p \in Quotes : TRUE), confidence |-> "none"]
        /\ ops \in Mixes /\ auto = ("auto" \in ops) /\ flush = NoFlush /\ reprice = NoReprice

Next == \/ \E s \in Sources, p \in Quotes : recordTick(s, p)
        \/ resolveCanonical \/ WriteBack \/ capMap \/ Restart \/ Tick
        \/ \E p \in Quotes : refreshPrices(p) \/ runTokenMetadataSync(p)
        \/ FlushRead \/ FlushWrite \/ RepriceRead \/ RepriceWrite

Spec == Init /\ [][Next]_vars

-----------------------------------------------------------------------------
(* Properties *)

Prices0 == Quotes \cup {0}

\* The keys in Redis, the pipelines under way and the row.
TypeOK ==
    /\ ticks \in [Sources -> [price : Prices0, age : 0..Ttl]]
    /\ Len(replies) + Len(writes) <= MaxQueue
    /\ last \in Prices0 /\ heard \in Prices0
    /\ canonical.price \in Prices0 /\ canonical.age \in 0..Ttl
    /\ token.price \in {Rounded(p) : p \in Quotes} /\ token.confidence \in {"none", "verified", "unverified"}
    /\ flush.updated \in 0..1 /\ lost \in {TRUE, FALSE}

\* The outlier guard (price-resolver.ts:171): where more than half of the fresh sources agree on
\* a price, no bad print of the others, whatever its priority, moves the canonical price further
\* from it than the ratio.
ConsensusWins ==
    LET S == fresh(ticks)
    IN  \A p \in Quotes :
          (2 * Cardinality({s \in S : quoteOf(ticks, s).price = p}) > Cardinality(S)) =>
          LET w == winner(ticks).price IN  w <= p * Ratio /\ p <= w * Ratio

\* A price that is served is young: its quote was in the staleness window when it was resolved,
\* and the key it is served from lives for its TTL, however the two follow on one another.
ServedIsRecent == canonical # NoPrice => canonical.born <= 1 + Ttl

\* The firehose shows what the read cache serves: with no pipeline under way, the last frame
\* published has the canonical price, through concurrent ticks, evictions and restarts. Excused
\* are a frame lost with its pipeline, which is not sent again until the price moves (the new
\* value is stamped before exec, price-resolver.ts:243), and refreshPrices, which sends none.
FrameIsCanonical ==
    (replies = <<>> /\ writes = <<>> /\ canonical.by = "resolver" /\ ~lost) => heard = canonical.price

\* live-flush.ts:14, "unchanged prices are skipped (the `<>` guard) so a quiet market produces no
\* write churn": an update of the row changes its price.
QuietMarketNoChurn ==
    [][(flush.at = "write" /\ flush'.updated = 1) => token'.price # token.price]_vars
=============================================================================
